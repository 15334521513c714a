-------------------- MODULE BundleSimulatorVerdictProofs --------------------
(***************************************************************************)
(* What becomes of a request: that its retries are counted right, that      *)
(* every answer and every event about it is true, that it does not vanish   *)
(* unheard, and that the service implements SimulationLifecycle.            *)
(***************************************************************************)
EXTENDS BundleSimulatorPlaceProofs, BundleSimulatorRefinement
-----------------------------------------------------------------------------
(* What the sequences contain, and how the building blocks change that.    *)

LEMMA ContentsAppend ==
  ASSUME NEW S, NEW s \in Seq(S), NEW e \in S
  PROVE  ToSet(Append(s, e)) = ToSet(s) \cup {e}
BY AppendProperties, LenProperties DEF ToSet

LEMMA ContentsTail ==
  ASSUME NEW S, NEW s \in Seq(S), s # <<>>
  PROVE  ToSet(Tail(s)) \subseteq ToSet(s) /\ Head(s) \in ToSet(s)
<1>1. /\ DOMAIN s = 1 .. Len(s) /\ Len(s) \in Nat /\ Len(s) # 0
      /\ Tail(s) \in Seq(S) /\ Len(Tail(s)) = Len(s) - 1
      /\ Head(s) = s[1]
  BY LenProperties, EmptySeq, HeadTailProperties
<1>2. DOMAIN Tail(s) = 1 .. Len(s) - 1
  BY <1>1, LenProperties
<1>3. \A i \in 1 .. Len(s) - 1 : Tail(s)[i] = s[i + 1] /\ i + 1 \in 1 .. Len(s)
  BY <1>1, HeadTailProperties
<1>4. Head(s) \in ToSet(s)
  BY <1>1 DEF ToSet
<1>5. ToSet(Tail(s)) \subseteq ToSet(s)
  BY <1>1, <1>2, <1>3 DEF ToSet
<1> QED
  BY <1>4, <1>5

LEMMA ContentsRemoveAt ==
  ASSUME NEW S, NEW s \in Seq(S), NEW i \in 1 .. Len(s)
  PROVE  ToSet(RemoveAt(s, i)) \subseteq ToSet(s)
BY RemoveAtKeeps DEF ToSet

\* An element that counts nowhere is not contained.
LEMMA NotContained ==
  ASSUME NEW S, NEW s \in Seq(S), NEW E, Count(s, E) = 0
  PROVE  \A e \in ToSet(s) : e \notin E
BY CountType DEF ToSet

Enqueued == ToSet(high_priority_queue) \cup ToSet(normal_priority_queue)

LEMMA ContentsType ==
  ASSUME TypeOK
  PROVE  /\ ToSet(from_handle) \subseteq Message
         /\ Enqueued \subseteq SimulationRequest
         /\ ToSet(ready) \subseteq SimulationRequest
         /\ \A l \in Listeners : ToSet(mailbox[l]) \subseteq SimulationEvent
         /\ \A pos \in DOMAIN Waiting : Waiting[pos] \in Enqueued
<1>1. ASSUME NEW S, NEW s \in Seq(S) PROVE ToSet(s) \subseteq S
  BY <1>1, LenProperties, ElementOfSeq DEF ToSet
<1>2. ASSUME NEW pos \in DOMAIN Waiting PROVE Waiting[pos] \in Enqueued
  <2>1. /\ pos \in 1 .. Len(high_priority_queue) + Len(normal_priority_queue)
        /\ Waiting[pos] = IF pos <= Len(high_priority_queue)
                          THEN high_priority_queue[pos]
                          ELSE normal_priority_queue[pos - Len(high_priority_queue)]
    BY WaitingProperties
  <2>2. /\ Len(high_priority_queue) \in Nat /\ Len(normal_priority_queue) \in Nat
        /\ DOMAIN high_priority_queue = 1 .. Len(high_priority_queue)
        /\ DOMAIN normal_priority_queue = 1 .. Len(normal_priority_queue)
    BY LenProperties DEF TypeOK
  <2>3. \/ /\ pos \in DOMAIN high_priority_queue
           /\ Waiting[pos] = high_priority_queue[pos]
        \/ /\ pos - Len(high_priority_queue) \in DOMAIN normal_priority_queue
           /\ Waiting[pos] = normal_priority_queue[pos - Len(high_priority_queue)]
    BY <2>1, <2>2
  <2> QED
    BY <2>3 DEF Enqueued, ToSet
<1>3. /\ from_handle \in Seq(Message) /\ high_priority_queue \in Seq(SimulationRequest)
      /\ normal_priority_queue \in Seq(SimulationRequest)
      /\ ready \in Seq(SimulationRequest)
      /\ \A l \in Listeners : mailbox[l] \in Seq(SimulationEvent)
  BY DEF TypeOK
<1> QED
  BY <1>1, <1>2, <1>3 DEF Enqueued

LEMMA NotifyContents ==
  ASSUME TypeOK, NEW event \in SimulationEvent, Notify(event), NEW l \in Listeners
  PROVE  ToSet(mailbox'[l]) \subseteq ToSet(mailbox[l]) \cup {event}
<1>1. mailbox[l] \in Seq(SimulationEvent)
  BY DEF TypeOK
<1>2. mailbox'[l] = Append(mailbox[l], event) \/ mailbox'[l] = mailbox[l]
  BY DEF Notify
<1>3. ToSet(Append(mailbox[l], event)) = ToSet(mailbox[l]) \cup {event}
  BY <1>1, ContentsAppend
<1> QED
  BY <1>2, <1>3

LEMMA PushBackContents ==
  ASSUME TypeOK, NEW req \in SimulationRequest, PushBack(req)
  PROVE  Enqueued' = Enqueued \cup {req}
<1>1. /\ ToSet(Append(high_priority_queue, req)) = ToSet(high_priority_queue) \cup {req}
      /\ ToSet(Append(normal_priority_queue, req)) = ToSet(normal_priority_queue) \cup {req}
  BY ContentsAppend DEF TypeOK
<1>2. \/ Enqueued' = ToSet(Append(high_priority_queue, req)) \cup ToSet(normal_priority_queue)
      \/ Enqueued' = ToSet(high_priority_queue) \cup ToSet(Append(normal_priority_queue, req))
  BY DEF PushBack, Enqueued
<1> QED
  BY <1>1, <1>2 DEF Enqueued

LEMMA DequeueContents ==
  ASSUME TypeOK, NEW pos \in DOMAIN Waiting, Dequeue(pos)
  PROVE  Enqueued' \subseteq Enqueued
<1>1. pos \in 1 .. Len(high_priority_queue) + Len(normal_priority_queue)
  BY WaitingProperties
<1>2. Len(high_priority_queue) \in Nat /\ Len(normal_priority_queue) \in Nat
  BY LenProperties DEF TypeOK
<1>3. CASE pos <= Len(high_priority_queue)
  <2>1. pos \in 1 .. Len(high_priority_queue) /\ ~(pos > Len(high_priority_queue))
    BY <1>1, <1>2, <1>3
  <2>2. ToSet(RemoveAt(high_priority_queue, pos)) \subseteq ToSet(high_priority_queue)
    BY <2>1, ContentsRemoveAt DEF TypeOK
  <2>3. Enqueued' = ToSet(RemoveAt(high_priority_queue, pos)) \cup ToSet(normal_priority_queue)
    BY <2>1 DEF Dequeue, Enqueued
  <2> QED
    BY <2>2, <2>3 DEF Enqueued
<1>4. CASE ~(pos <= Len(high_priority_queue))
  <2> DEFINE at == pos - Len(high_priority_queue)
  <2>1. at \in 1 .. Len(normal_priority_queue)
    BY <1>1, <1>2, <1>4
  <2>2. ToSet(RemoveAt(normal_priority_queue, at)) \subseteq ToSet(normal_priority_queue)
    BY <2>1, ContentsRemoveAt DEF TypeOK
  <2>3. Enqueued' = ToSet(high_priority_queue) \cup ToSet(RemoveAt(normal_priority_queue, at))
    BY <1>4 DEF Dequeue, Enqueued
  <2> QED
    BY <2>2, <2>3 DEF Enqueued
<1> QED
  BY <1>3, <1>4
-----------------------------------------------------------------------------
(* The retries.  simulator_calls counts the calls of the simulator for a    *)
(* request; a request that is waiting carries as many retries, one that is  *)
(* being simulated one less.                                               *)

Untried(msg)   == msg.type = "AddSimulation" =>
                    simulator_calls[msg.request.id] = 0 /\ msg.request.retries = 0
Tried(req)     == simulator_calls[req.id] = req.retries /\ req.retries <= max_retries
BeingTried(s)  == /\ simulator_calls[s.request.id] = s.request.retries + 1
                  /\ s.request.retries <= max_retries
Accounted(event) ==
  /\ event.type = "SimulatedBundle" => simulator_calls[event.id] = event.retries + 1
  /\ event.type = "ExceededMaxRetries" => simulator_calls[event.id] = max_retries + 1

AttemptsInv ==
  /\ \A msg \in ToSet(from_handle) : Untried(msg)
  /\ \A req \in Enqueued \cup ToSet(ready) : Tried(req)
  /\ \A s \in simulations : BeingTried(s)
  /\ \A l \in Listeners : \A event \in ToSet(mailbox[l]) : Accounted(event)
  /\ \A r \in Requests : /\ simulator_calls[r] <= max_retries + 1
                         /\ reply[r] = "none" => simulator_calls[r] = 0

\* A step that calls no simulator keeps the account, if what it adds is right.
LEMMA AttemptsKept ==
  ASSUME AttemptsInv, UNCHANGED simulator_calls,
         \A r \in Requests : reply[r] # "none" => reply'[r] # "none",
         \A msg \in ToSet(from_handle') \ ToSet(from_handle) : Untried(msg),
         \A req \in (Enqueued' \cup ToSet(ready')) \ (Enqueued \cup ToSet(ready)) : Tried(req),
         \A s \in simulations' \ simulations : BeingTried(s),
         \A l \in Listeners : \A event \in ToSet(mailbox'[l]) \ ToSet(mailbox[l]) :
           Accounted(event)
  PROVE  AttemptsInv'
BY DEF AttemptsInv, Untried, Tried, BeingTried, Accounted

LEMMA SendAttempts ==
  ASSUME TypeOK, AttemptsInv, NEW msg \in Message, Send(msg), Untried(msg),
         UNCHANGED <<queueVars, ready, simulations, simulator_calls, mailbox>>,
         \A r \in Requests : reply[r] # "none" => reply'[r] # "none"
  PROVE  AttemptsInv'
<1>1. ToSet(from_handle') = ToSet(from_handle) \cup {msg}
  BY ContentsAppend DEF TypeOK, Send
<1>2. Enqueued' = Enqueued
  BY DEF Enqueued, queueVars
<1> QED
  BY <1>1, <1>2, AttemptsKept

LEMMA HandleAttempts ==
  ASSUME TypeOK, AttemptsInv, HandleStep, [Next]_vars
  PROVE  AttemptsInv'
<1>1. UNCHANGED <<queueVars, ready, simulations, simulator_calls, mailbox>>
  BY DEF HandleStep, send_bundle_simulation, add_bundle_simulation, Submit,
         SubmitToDroppedService, CancelAdd, update_block_number, clear_queue, events,
         DropEventStream, simVars, listenerVars
<1>2. \A r \in Requests : reply[r] # "none" => reply'[r] # "none"
  BY RepliesStay
<1>3. ASSUME NEW x \in Requests, NEW told \in {"Sent", "Awaiting"}, Submit(x, told)
      PROVE  AttemptsInv'
  <2>1. PICK prio \in Priority, inclusion \in Inclusions :
          Send([type |-> "AddSimulation", request |-> NewRequest(x, prio, inclusion)])
    BY <1>3 DEF Submit
  <2> DEFINE msg == [type |-> "AddSimulation", request |-> NewRequest(x, prio, inclusion)]
  <2>2. NewRequest(x, prio, inclusion) \in SimulationRequest
    BY InputAssumption DEF NewRequest, SimulationRequest
  <2>3. msg \in Message
    BY <2>2 DEF Message
  <2>4. simulator_calls[x] = 0
    BY <1>3 DEF Submit, AttemptsInv
  <2>5. Untried(msg)
    BY <2>4 DEF Untried, NewRequest
  <2> QED
    BY <1>1, <1>2, <2>1, <2>3, <2>5, SendAttempts
<1>4. ASSUME NEW num \in BlockNumbers, update_block_number(num) PROVE AttemptsInv'
  <2> DEFINE msg == [type |-> "UpdateBlockNumber", num |-> num]
  <2>1. msg \in Message /\ Untried(msg) /\ Send(msg)
    BY <1>4, InputAssumption DEF update_block_number, Message, Untried
  <2> QED
    BY <1>1, <1>2, <2>1, SendAttempts
<1>5. CASE clear_queue
  <2> DEFINE msg == [type |-> "ClearQueue"]
  <2>1. msg \in Message /\ Untried(msg) /\ Send(msg)
    BY <1>5 DEF clear_queue, Message, Untried
  <2> QED
    BY <1>1, <1>2, <2>1, SendAttempts
<1>6. ASSUME NEW l \in Listeners, events(l) PROVE AttemptsInv'
  <2> DEFINE msg == [type |-> "AddEventListener", tx |-> l]
  <2>1. msg \in Message /\ Untried(msg) /\ Send(msg)
    BY <1>6 DEF events, Message, Untried
  <2> QED
    BY <1>1, <1>2, <2>1, SendAttempts
<1>7. ASSUME UNCHANGED from_handle PROVE AttemptsInv'
  <2>1. Enqueued' = Enqueued
    BY <1>1 DEF Enqueued, queueVars
  <2> QED
    BY <1>1, <1>2, <1>7, <2>1, AttemptsKept
<1> QED
  BY <1>3, <1>4, <1>5, <1>6, <1>7
  DEF HandleStep, send_bundle_simulation, add_bundle_simulation, SubmitToDroppedService,
      CancelAdd, DropEventStream

LEMMA MessageAttempts ==
  ASSUME TypeOK, AttemptsInv, OnMessage, [Next]_vars
  PROVE  AttemptsInv'
<1>1. UNCHANGED <<ready, simulations, simulator_calls>>
  BY DEF OnMessage, OnUpdateBlockNumber, OnClearQueue, OnAddEventListener,
         OnAddSimulation, Receive, simVars
<1>2. \A r \in Requests : reply[r] # "none" => reply'[r] # "none"
  BY RepliesStay
<1>3. ToSet(from_handle') \subseteq ToSet(from_handle) /\ Head(from_handle) \in ToSet(from_handle)
  <2>1. from_handle \in Seq(Message) /\ from_handle # <<>> /\ from_handle' = Tail(from_handle)
    BY DEF OnMessage, OnUpdateBlockNumber, OnClearQueue, OnAddEventListener,
           OnAddSimulation, Receive, TypeOK
  <2> QED
    BY <2>1, ContentsTail
<1>4. CASE OnUpdateBlockNumber \/ OnAddEventListener
  <2> DEFINE event == [type |-> "BlockNumberUpdated", old |-> current_block_number,
                       current |-> current_block_number]
  <2>1. UNCHANGED queueVars /\ (UNCHANGED mailbox \/ Notify(event))
    BY <1>4 DEF OnUpdateBlockNumber, OnAddEventListener, listenerVars
  <2>2. event \in SimulationEvent /\ Accounted(event)
    BY DEF TypeOK, SimulationEvent, Accounted
  <2>3. Enqueued' = Enqueued
    BY <2>1 DEF Enqueued, queueVars
  <2> HIDE DEF event
  <2>4. \A l \in Listeners : ToSet(mailbox'[l]) \subseteq ToSet(mailbox[l]) \cup {event}
    BY <2>1, <2>2, NotifyContents
  <2> QED
    BY <1>1, <1>2, <1>3, <2>2, <2>3, <2>4, AttemptsKept
<1>5. CASE OnClearQueue
  <2>1. high_priority_queue' = <<>> /\ normal_priority_queue' = <<>> /\ UNCHANGED mailbox
    BY <1>5 DEF OnClearQueue, listenerVars
  <2>2. Enqueued' = {}
    BY <2>1 DEF Enqueued, ToSet
  <2> QED
    BY <1>1, <1>2, <1>3, <2>1, <2>2, AttemptsKept
<1>6. CASE OnAddSimulation
  <2> DEFINE req == Head(from_handle).request
  <2>1. UNCHANGED mailbox /\ (UNCHANGED queueVars \/ PushBack(req))
    BY <1>6 DEF OnAddSimulation, listenerVars
  <2>2. req \in SimulationRequest /\ Head(from_handle).type = "AddSimulation"
    BY <1>6, ReceivedMessage DEF OnAddSimulation, Receive
  <2>3. Tried(req)
    BY <1>3, <2>2, ConfigAssumption DEF AttemptsInv, Untried, Tried
  <2> HIDE DEF req
  <2>4. Enqueued' \subseteq Enqueued \cup {req}
    BY <2>1, <2>2, PushBackContents DEF Enqueued, queueVars
  <2> QED
    BY <1>1, <1>2, <1>3, <2>1, <2>3, <2>4, AttemptsKept
<1> QED
  BY <1>4, <1>5, <1>6 DEF OnMessage

LEMMA OutcomeAttempts ==
  ASSUME TypeOK, AttemptsInv, NEW s \in simulations, NEW answer \in RelayAnswer,
         OnSimulationOutcome(s, answer)
  PROVE  AttemptsInv'
<1> DEFINE sim        == [s.request EXCEPT !.retries = @ + 1]
           result(ok) == [type |-> "SimulatedBundle", id |-> s.request.id, ok |-> ok,
                          retries |-> s.request.retries]
           exceeded   == [type |-> "ExceededMaxRetries", id |-> sim.id]
<1>1. s.request \in SimulationRequest
  BY DEF TypeOK, Simulation
<1>2. /\ sim \in SimulationRequest /\ sim.id = s.request.id
      /\ sim.retries = s.request.retries + 1 /\ sim.retries \in Nat
      /\ s.request.id \in Requests /\ s.request.retries \in Nat
  BY <1>1 DEF SimulationRequest
<1>3. UNCHANGED <<from_handle, ready, simulator_calls, reply>> /\ simulations' = simulations \ {s}
  BY DEF OnSimulationOutcome, PollSimulation, handleVars
<1>4. /\ simulator_calls[s.request.id] = s.request.retries + 1
      /\ s.request.retries <= max_retries /\ max_retries \in Nat
  BY ConfigAssumption DEF AttemptsInv, BeingTried
<1>5. \A ok \in BOOLEAN : result(ok) \in SimulationEvent /\ Accounted(result(ok))
  BY <1>2, <1>4 DEF SimulationEvent, Accounted
<1>6. exceeded \in SimulationEvent /\ (exceeds_max_retries(sim) => Accounted(exceeded))
  <2>1. exceeded \in SimulationEvent
    BY <1>2 DEF SimulationEvent
  <2>2. ASSUME exceeds_max_retries(sim) PROVE simulator_calls[s.request.id] = max_retries + 1
    BY <1>2, <1>4, <2>2 DEF exceeds_max_retries
  <2> QED
    BY <1>2, <2>1, <2>2 DEF Accounted
<1>7. ~exceeds_max_retries(sim) => Tried(sim)
  BY <1>2, <1>4 DEF exceeds_max_retries, Tried
<1>8. \/ UNCHANGED queueVars /\ \E ok \in BOOLEAN : Notify(result(ok))
      \/ UNCHANGED queueVars /\ exceeds_max_retries(sim) /\ Notify(exceeded)
      \/ ~exceeds_max_retries(sim) /\ PushBack(sim) /\ UNCHANGED mailbox
  BY DEF OnSimulationOutcome, OnSuccess, OnFatal, OnReschedule, listenerVars
<1> HIDE DEF sim, result, exceeded
<1>9. ASSUME NEW event \in SimulationEvent, Notify(event), Accounted(event),
             UNCHANGED queueVars
      PROVE  AttemptsInv'
  <2>1. Enqueued' = Enqueued
    BY <1>9 DEF Enqueued, queueVars
  <2>2. \A l \in Listeners : ToSet(mailbox'[l]) \subseteq ToSet(mailbox[l]) \cup {event}
    BY <1>9, NotifyContents
  <2> QED
    BY <1>3, <1>9, <2>1, <2>2, AttemptsKept
<1>10. ASSUME Tried(sim), PushBack(sim), UNCHANGED mailbox PROVE AttemptsInv'
  <2>1. Enqueued' = Enqueued \cup {sim}
    BY <1>2, <1>10, PushBackContents
  <2> QED
    BY <1>3, <1>10, <2>1, AttemptsKept
<1> QED
  BY <1>5, <1>6, <1>7, <1>8, <1>9, <1>10

LEMMA PopAttempts ==
  ASSUME TypeOK, AttemptsInv, PopNextReady
  PROVE  AttemptsInv'
<1>1. PICK pos \in DOMAIN Waiting :
        /\ Dequeue(pos)
        /\ \/ /\ Notify([type |-> "OutdatedRequest", id |-> Waiting[pos].id,
                         inclusion |-> Waiting[pos].inclusion, next_block |-> NextBlock])
              /\ UNCHANGED ready
           \/ /\ ready' = Append(ready, Waiting[pos])
              /\ UNCHANGED mailbox
  BY DEF PopNextReady, listenerVars
<1> DEFINE item  == Waiting[pos]
           event == [type |-> "OutdatedRequest", id |-> item.id,
                     inclusion |-> item.inclusion, next_block |-> NextBlock]
<1>2. item \in SimulationRequest /\ item \in Enqueued
  BY ContentsType
<1>3. event \in SimulationEvent /\ Accounted(event)
  <2>1. NextBlock \in Nat
    BY DEF NextBlock, TypeOK
  <2> QED
    BY <1>2, <2>1 DEF SimulationEvent, SimulationRequest, Accounted
<1>4. UNCHANGED <<from_handle, simulations, simulator_calls, reply>>
  BY DEF PopNextReady, handleVars
<1>5. Enqueued' \subseteq Enqueued
  BY <1>1, DequeueContents
<1> HIDE DEF item
<1>6. ToSet(ready') \subseteq ToSet(ready) \cup {item}
  <2>1. ToSet(Append(ready, item)) = ToSet(ready) \cup {item}
    BY <1>2, ContentsAppend DEF TypeOK
  <2> QED
    BY <1>1, <2>1 DEF item
<1>7. UNCHANGED mailbox \/ Notify(event)
  BY <1>1 DEF item
<1> HIDE DEF event
<1>8. \A l \in Listeners : ToSet(mailbox'[l]) \subseteq ToSet(mailbox[l]) \cup {event}
  BY <1>3, <1>7, NotifyContents
<1> QED
  BY <1>2, <1>3, <1>4, <1>5, <1>6, <1>8, AttemptsKept

\* The one call of the simulator.  It changes the account of one request, which
\* is nowhere else and of which no listener has heard.
LEMMA StartAttempts ==
  ASSUME TypeOK, IsFiniteSet(simulations), PlaceInv, AttemptsInv, StartSimulation
  PROVE  AttemptsInv'
<1> DEFINE s == [request |-> Head(ready), poll |-> "unpolled"]
<1>0. PICK x : x = Head(ready).id
  OBVIOUS
<1>1. /\ ready # <<>> /\ ready \in Seq(SimulationRequest)
      /\ ready' = Tail(ready) /\ simulations' = simulations \cup {s}
      /\ simulator_calls' = [simulator_calls EXCEPT ![x] = @ + 1]
      /\ UNCHANGED <<from_handle, queueVars, mailbox, reply>>
  BY <1>0 DEF StartSimulation, TypeOK, listenerVars, handleVars
<1>2. /\ ToSet(Tail(ready)) \subseteq ToSet(ready) /\ Head(ready) \in ToSet(ready)
      /\ Head(ready) \in SimulationRequest /\ Tail(ready) \in Seq(SimulationRequest)
  BY <1>1, ContentsTail, HeadTailProperties
<1>3. x \in Requests
  BY <1>0, <1>2 DEF SimulationRequest
<1>4. /\ Offered(x) = 0 /\ Queued(x) = 0 /\ Popped(x)' = 0 /\ Running(x) = 0
      /\ \A l \in Listeners : Heard(l, x) = 0
  <2>1. IsReady(x) /\ Moves(x, 0, 0, -1, 1)
    BY <1>0, StartMoves DEF PlaceInv
  <2>2. /\ Popped(x) # 0 /\ Offered(x) \in Nat /\ Queued(x) \in Nat
        /\ Popped(x) \in Nat /\ Running(x) \in Nat
        /\ \A l \in Listeners : Heard(l, x) \in Nat
    BY <1>3, <2>1, PlacesType
  <2>3. Places(x) <= 1 /\ \A l \in Listeners : Places(x) + Heard(l, x) <= 1
    BY <1>3 DEF PlaceInv
  <2>4. Popped(x)' = Popped(x) - 1
    BY <1>3, <2>1, <2>2 DEF Moves
  <2> QED
    BY <2>2, <2>3, <2>4 DEF Places
<1>5. Tried(Head(ready)) /\ simulator_calls \in [Requests -> Nat]
  BY <1>2 DEF AttemptsInv, TypeOK
<1> HIDE DEF s
<1>6. \A r \in Requests : simulator_calls'[r] =
        IF r = x THEN simulator_calls[r] + 1 ELSE simulator_calls[r]
  BY <1>1, <1>5
<1>7. ASSUME NEW msg \in ToSet(from_handle') PROVE Untried(msg)'
  <2>1. msg \in ToSet(from_handle) /\ msg \in Message /\ Untried(msg)
    BY <1>1, <1>7, ContentsType DEF AttemptsInv
  <2>2. msg \notin AddOf(x)
    BY <1>4, <2>1, NotContained DEF TypeOK, Offered
  <2> QED
    BY <1>6, <2>1, <2>2 DEF AddOf, Untried, Message, SimulationRequest
<1>8. ASSUME NEW req \in Enqueued' \cup ToSet(ready') PROVE Tried(req)'
  <2>1. req \in SimulationRequest /\ Tried(req)
    BY <1>1, <1>2, <1>8, ContentsType DEF AttemptsInv, Enqueued, queueVars
  <2>2. req \notin RequestOf(x)
    <3>1. CASE req \in Enqueued'
      <4>1. req \in ToSet(high_priority_queue) \/ req \in ToSet(normal_priority_queue)
        BY <1>1, <3>1 DEF Enqueued, queueVars
      <4>2. /\ Count(high_priority_queue, RequestOf(x)) \in Nat
            /\ Count(normal_priority_queue, RequestOf(x)) \in Nat
        BY CountType DEF TypeOK
      <4>3. /\ Count(high_priority_queue, RequestOf(x)) = 0
            /\ Count(normal_priority_queue, RequestOf(x)) = 0
        BY <1>4, <4>2 DEF Queued
      <4> QED
        BY <4>1, <4>3, NotContained DEF TypeOK
    <3>2. CASE req \in ToSet(ready')
      <4>1. Count(Tail(ready), RequestOf(x)) = 0
        BY <1>1, <1>4 DEF Popped
      <4> QED
        BY <1>1, <1>2, <3>2, <4>1, NotContained
    <3> QED
      BY <1>8, <3>1, <3>2
  <2> QED
    BY <1>6, <2>1, <2>2 DEF RequestOf, Tried, SimulationRequest
<1>9. ASSUME NEW t \in simulations' PROVE BeingTried(t)'
  <2>1. CASE t = s
    <3>1. t.request = Head(ready) /\ x = Head(ready).id
      BY <1>0, <2>1 DEF s
    <3> QED
      BY <1>3, <1>5, <1>6, <3>1 DEF Tried, BeingTried
  <2>2. CASE t \in simulations
    <3>1. t.request.id # x
      BY <1>3, <1>4, <2>2, PlacesType DEF InFlight
    <3>2. t.request.id \in Requests /\ BeingTried(t)
      BY <2>2 DEF TypeOK, Simulation, SimulationRequest, AttemptsInv
    <3> QED
      BY <1>6, <3>1, <3>2 DEF BeingTried
  <2> QED
    BY <1>1, <1>9, <2>1, <2>2
<1>10. ASSUME NEW l \in Listeners, NEW event \in ToSet(mailbox'[l]) PROVE Accounted(event)'
  <2>1. mailbox[l] \in Seq(SimulationEvent) /\ event \in ToSet(mailbox[l])
    BY <1>1, <1>10 DEF TypeOK
  <2>2. event \in SimulationEvent /\ Accounted(event)
    BY <2>1, ContentsType DEF AttemptsInv
  <2>3. event \notin VerdictOn(x)
    BY <1>4, <2>1, NotContained DEF Heard
  <2> QED
    BY <1>6, <2>2, <2>3 DEF VerdictOn, IsVerdict, Accounted, SimulationEvent
<1>11. ASSUME NEW r \in Requests
       PROVE  /\ simulator_calls'[r] <= max_retries + 1
              /\ reply'[r] = "none" => simulator_calls'[r] = 0
  <2>1. /\ simulator_calls[r] <= max_retries + 1
        /\ reply[r] = "none" => simulator_calls[r] = 0
        /\ reply' = reply
    BY <1>1 DEF AttemptsInv
  <2>2. CASE r = x
    <3>1. simulator_calls[x] <= max_retries /\ simulator_calls[x] \in Nat
      BY <1>0, <1>3, <1>5 DEF Tried
    <3>2. reply[x] # "none"
      <4>1. IsReady(x)
        BY <1>0, StartMoves DEF PlaceInv
      <4>2. /\ Popped(x) # 0 /\ Offered(x) \in Nat /\ Queued(x) \in Nat
            /\ Popped(x) \in Nat /\ Running(x) \in Nat
        BY <1>3, <4>1, PlacesType
      <4>3. reply[x] = "none" => Places(x) = 0
        BY <1>3 DEF PlaceInv
      <4> QED
        BY <4>2, <4>3 DEF Places
    <3> QED
      BY <1>6, <2>1, <2>2, <3>1, <3>2, ConfigAssumption
  <2>3. CASE r # x
    BY <1>6, <2>1, <2>3
  <2> QED
    BY <2>2, <2>3
<1> QED
  BY <1>7, <1>8, <1>9, <1>10, <1>11 DEF AttemptsInv

LEMMA FutureAttempts ==
  ASSUME TypeOK, AttemptsInv, NEW s \in simulations,
         SimulationPending(s) \/ SimulationWakes(s)
  PROVE  AttemptsInv'
<1>1. \A p : [s EXCEPT !.poll = p].request = s.request
  BY DEF TypeOK, Simulation
<1>2. PICK p : simulations' = (simulations \ {s}) \cup {[s EXCEPT !.poll = p]}
  BY DEF SimulationPending, SimulationWakes
<1>3. BeingTried([s EXCEPT !.poll = p])
  BY <1>1 DEF AttemptsInv, BeingTried
<1>4. UNCHANGED <<from_handle, queueVars, ready, simulator_calls, mailbox, reply>>
  BY DEF SimulationPending, PollSimulation, SimulationWakes, handleVars, listenerVars
<1>5. Enqueued' = Enqueued
  BY <1>4 DEF Enqueued, queueVars
<1> QED
  BY <1>2, <1>3, <1>4, <1>5, AttemptsKept

LEMMA TaskAttempts ==
  ASSUME AttemptsInv, BeginPoll \/ MessagesDrained \/ CoopYield \/ OutcomesDrained
                        \/ PopBestRequestsDone \/ UNCHANGED vars
  PROVE  AttemptsInv'
<1>1. UNCHANGED <<from_handle, queueVars, ready, simulations, simulator_calls, mailbox, reply>>
  BY DEF BeginPoll, MessagesDrained, CoopYield, OutcomesDrained, PopBestRequestsDone, vars,
         handleVars, simVars, listenerVars
<1>2. Enqueued' = Enqueued
  BY <1>1 DEF Enqueued, queueVars
<1> QED
  BY <1>1, <1>2, AttemptsKept

LEMMA DropAttempts ==
  ASSUME TypeOK, AttemptsInv, DropService, [Next]_vars
  PROVE  AttemptsInv'
<1>1. /\ from_handle' = <<>> /\ high_priority_queue' = <<>> /\ normal_priority_queue' = <<>>
      /\ simulations' = {} /\ UNCHANGED <<ready, mailbox, simulator_calls>>
  BY DEF DropService
<1>2. Enqueued' = {} /\ ToSet(from_handle') = {}
  BY <1>1 DEF Enqueued, ToSet
<1> QED
  BY <1>1, <1>2, RepliesStay, AttemptsKept

LEMMA NextAttempts ==
  ASSUME TypeOK, IsFiniteSet(simulations), PlaceInv, AttemptsInv, [Next]_vars
  PROVE  AttemptsInv'
BY HandleAttempts, MessageAttempts, OutcomeAttempts, PopAttempts, StartAttempts,
   FutureAttempts, TaskAttempts, DropAttempts
DEF Next, PollStep, Wakes

LEMMA AttemptsAlways == Spec => []AttemptsInv
<1>1. Init => AttemptsInv
  BY ConfigAssumption DEF Init, AttemptsInv, Enqueued, ToSet
<1>2. TypeOK /\ SlotsInv /\ PlaceInv /\ AttemptsInv /\ [Next]_vars => AttemptsInv'
  BY NextAttempts DEF SlotsInv
<1> QED
  BY <1>1, <1>2, TypeCorrect, SlotsAlways, PlacesAlways, PTL DEF Spec

\* The retries of a request are the calls of the simulator that were made for it,
\* wherever it is and whatever is reported of it, and no request is simulated more
\* than max_retries + 1 times.
THEOREM RetriesAccounted == Spec => []RetryAccounting
<1>1. TypeOK /\ AttemptsInv => RetryAccounting
  <2> SUFFICES ASSUME TypeOK, AttemptsInv PROVE RetryAccounting
    OBVIOUS
  <2>1. \A i \in DOMAIN from_handle : from_handle[i].type = "AddSimulation" =>
          simulator_calls[from_handle[i].request.id] = 0
    BY DEF AttemptsInv, ToSet, Untried
  <2>2. \A i \in DOMAIN Waiting : simulator_calls[Waiting[i].id] = Waiting[i].retries
    BY ContentsType DEF AttemptsInv, Tried
  <2>3. \A i \in DOMAIN ready : simulator_calls[ready[i].id] = ready[i].retries
    BY DEF AttemptsInv, ToSet, Tried
  <2>4. \A s \in simulations : simulator_calls[s.request.id] = s.request.retries + 1
    BY DEF AttemptsInv, BeingTried
  <2>5. \A l \in Listeners : \A i \in DOMAIN mailbox[l] : Accounted(mailbox[l][i])
    BY DEF AttemptsInv, ToSet
  <2> QED
    BY <2>1, <2>2, <2>3, <2>4, <2>5 DEF AttemptsInv, Accounted, RetryAccounting
<1> QED
  BY <1>1, TypeCorrect, AttemptsAlways, PTL
-----------------------------------------------------------------------------
(* The answers and the events.                                             *)

AnswerInv ==
  \A r \in Requests :
    /\ reply[r] = "Awaiting" => alive /\ Offered(r) # 0
    /\ reply[r] \in {"QueueFull", "ServiceUnavailable"} =>
         Places(r) = 0 /\ simulator_calls[r] = 0 /\ \A l \in Listeners : Heard(l, r) = 0

\* The step is about other requests than r.
Untouched(r) ==
  /\ Offered(r)' = Offered(r) /\ Places(r)' = Places(r)
  /\ \A l \in Listeners : Heard(l, r)' = Heard(l, r)
  /\ simulator_calls'[r] = simulator_calls[r]

LEMMA StayUntouched ==
  ASSUME Stay, Silent, UNCHANGED simulator_calls
  PROVE  \A r \in Requests : Untouched(r)
BY DEF Stay, Silent, Places, Untouched

LEMMA OthersUntouched ==
  ASSUME TypeOK, IsFiniteSet(simulations), NEW x \in Requests, NEW o \in Int, NEW q \in Int,
         NEW p \in Int, NEW f \in Int, Moves(x, o, q, p, f), Silent \/ Tells(x),
         \A r \in Requests : r # x => simulator_calls'[r] = simulator_calls[r]
  PROVE  \A r \in Requests : r # x => Untouched(r)
<1> SUFFICES ASSUME NEW r \in Requests, r # x PROVE Untouched(r)
  OBVIOUS
<1>1. /\ Offered(r) \in Nat /\ Queued(r) \in Nat /\ Popped(r) \in Nat
      /\ Running(r) \in Nat /\ \A l \in Listeners : Heard(l, r) \in Nat
  BY PlacesType
<1>2. /\ Offered(r)' = Offered(r) /\ Queued(r)' = Queued(r)
      /\ Popped(r)' = Popped(r) /\ Running(r)' = Running(r)
  BY <1>1 DEF Moves
<1>3. \A l \in Listeners : Heard(l, r)' = Heard(l, r)
  BY <1>1 DEF Silent, Tells
<1> QED
  BY <1>2, <1>3 DEF Places, Untouched

\* A request is in one place, so one that has left the channel is not awaited,
\* and one that is anywhere was not refused.
LEMMA AdmittedAnswers ==
  ASSUME TypeOK, IsFiniteSet(simulations), PlaceInv, AnswerInv, NEW x \in Requests
  PROVE  /\ InService(x) => reply[x] \notin {"none", "QueueFull", "ServiceUnavailable"}
         /\ IsQueued(x) \/ IsReady(x) \/ InFlight(x) =>
              Offered(x) = 0 /\ reply[x] # "Awaiting"
<1>1. /\ Offered(x) \in Nat /\ Queued(x) \in Nat /\ Popped(x) \in Nat /\ Running(x) \in Nat
      /\ InChannel(x) <=> Offered(x) # 0
      /\ IsQueued(x) <=> Queued(x) # 0
      /\ IsReady(x) <=> Popped(x) # 0
      /\ InFlight(x) <=> Running(x) # 0
  BY PlacesType
<1>2. Places(x) = Offered(x) + Queued(x) + Popped(x) + Running(x) /\ Places(x) <= 1
  BY DEF Places, PlaceInv
<1>3. InService(x) => Places(x) # 0
  BY InServiceCounted
<1>4. IsQueued(x) \/ IsReady(x) \/ InFlight(x) => Offered(x) = 0
  BY <1>1, <1>2
<1> QED
  BY <1>3, <1>4 DEF PlaceInv, AnswerInv

\* The steps that tell no caller anything.
LEMMA AnswersKept ==
  ASSUME AnswerInv, UNCHANGED alive, NEW x,
         \A r \in Requests : r # x => Untouched(r) /\ reply'[r] = reply[r],
         x \in Requests => reply'[x] \notin {"Awaiting", "QueueFull", "ServiceUnavailable"}
  PROVE  AnswerInv'
BY DEF AnswerInv, Untouched

LEMMA HandleAnswers ==
  ASSUME TypeOK, IsFiniteSet(simulations), PlaceInv, AttemptsInv, AnswerInv, HandleStep
  PROVE  AnswerInv'
<1>1. UNCHANGED <<alive, simulator_calls>>
  BY DEF HandleStep, send_bundle_simulation, add_bundle_simulation, Submit,
         SubmitToDroppedService, CancelAdd, update_block_number, clear_queue, events,
         DropEventStream, taskVars, simVars
<1>2. ASSUME NEW x \in Requests, NEW told \in {"Sent", "Awaiting"}, Submit(x, told)
      PROVE  AnswerInv'
  <2>1. Moves(x, 1, 0, 0, 0) /\ Silent
    BY <1>2, SubmitMoves
  <2>2. \A r \in Requests : r # x => Untouched(r) /\ reply'[r] = reply[r]
    <3>1. \A r \in Requests : r # x => Untouched(r)
      BY <1>1, <2>1, OthersUntouched
    <3> QED
      BY <1>2, <3>1 DEF Submit, TypeOK
  <2>3. reply'[x] = told /\ alive' /\ Offered(x)' # 0
    <3>1. Offered(x) \in Nat
      BY PlacesType
    <3>2. Offered(x)' = Offered(x) + 1
      BY <2>1 DEF Moves
    <3> QED
      BY <1>1, <1>2, <3>1, <3>2 DEF Submit, TypeOK
  <2> QED
    BY <1>1, <2>2, <2>3 DEF AnswerInv, Untouched
<1>3. ASSUME \/ \E r \in Requests : SubmitToDroppedService(r) \/ CancelAdd(r)
             \/ \E num \in BlockNumbers : update_block_number(num)
             \/ clear_queue
             \/ \E l \in Listeners : events(l) \/ DropEventStream(l)
      PROVE  \A r \in Requests : Untouched(r)
  BY <1>1, <1>3, OtherHandleStepsStay, StayUntouched
<1>4. ASSUME NEW x \in Requests, SubmitToDroppedService(x) PROVE AnswerInv'
  <2>1. Places(x) = 0 /\ simulator_calls[x] = 0 /\ \A l \in Listeners : Heard(l, x) = 0
    BY <1>4 DEF SubmitToDroppedService, PlaceInv, AttemptsInv
  <2>2. \A r \in Requests :
          reply'[r] = IF r = x THEN "ServiceUnavailable" ELSE reply[r]
    BY <1>4 DEF SubmitToDroppedService, TypeOK
  <2>3. \A r \in Requests : Untouched(r)
    BY <1>3, <1>4
  <2> QED
    BY <1>1, <2>1, <2>2, <2>3 DEF AnswerInv, Untouched
<1>5. ASSUME NEW x \in Requests, CancelAdd(x) PROVE AnswerInv'
  <2>1. \A r \in Requests : reply'[r] = IF r = x THEN "Cancelled" ELSE reply[r]
    BY <1>5 DEF CancelAdd, TypeOK
  <2>2. \A r \in Requests : Untouched(r)
    BY <1>3, <1>5
  <2> QED
    BY <1>1, <2>1, <2>2, AnswersKept
<1>6. CASE \/ \E num \in BlockNumbers : update_block_number(num)
           \/ clear_queue
           \/ \E l \in Listeners : events(l) \/ DropEventStream(l)
  <2>1. UNCHANGED reply
    BY <1>6 DEF update_block_number, clear_queue, events, DropEventStream, handleVars
  <2>2. \A r \in Requests : Untouched(r)
    BY <1>3, <1>6
  <2> QED
    BY <1>1, <2>1, <2>2 DEF AnswerInv, Untouched
<1> QED
  BY <1>2, <1>4, <1>5, <1>6
  DEF HandleStep, send_bundle_simulation, add_bundle_simulation

LEMMA AddAnswers ==
  ASSUME TypeOK, IsFiniteSet(simulations), PlaceInv, AttemptsInv, AnswerInv, OnAddSimulation
  PROVE  AnswerInv'
<1>1. UNCHANGED <<alive, simulator_calls>>
  BY DEF OnAddSimulation, Receive, simVars
<1>2. PICK x : x = Head(from_handle).request.id
  OBVIOUS
<1>3. /\ x \in Requests /\ InChannel(x) /\ Silent
      /\ \/ Moves(x, -1, 1, 0, 0) /\ Answer(x, "Ok")
         \/ Moves(x, -1, 0, 0, 0) /\ Answer(x, "QueueFull")
  BY <1>2, AddMoves
<1>4. \A r \in Requests : r # x => Untouched(r) /\ reply'[r] = reply[r]
  <2>1. \A r \in Requests : r # x => Untouched(r)
    BY <1>1, <1>3, OthersUntouched
  <2> QED
    BY <1>3, <2>1 DEF Answer, TypeOK
<1>5. reply[x] \notin {"none", "QueueFull", "ServiceUnavailable"}
  BY <1>3, AdmittedAnswers DEF InService
<1>6. CASE Moves(x, -1, 1, 0, 0) /\ Answer(x, "Ok")
  <2>1. reply'[x] \notin {"Awaiting", "QueueFull", "ServiceUnavailable"}
    BY <1>3, <1>5, <1>6 DEF Answer, TypeOK
  <2> QED
    BY <1>1, <1>4, <2>1, AnswersKept
<1>7. CASE Moves(x, -1, 0, 0, 0) /\ Answer(x, "QueueFull")
  <2>1. /\ Offered(x) # 0 /\ Offered(x) \in Nat /\ Queued(x) \in Nat
        /\ Popped(x) \in Nat /\ Running(x) \in Nat
        /\ \A l \in Listeners : Heard(l, x) \in Nat
    BY <1>3, PlacesType
  <2>2. /\ Offered(x)' = Offered(x) - 1 /\ Queued(x)' = Queued(x)
        /\ Popped(x)' = Popped(x) /\ Running(x)' = Running(x)
        /\ \A l \in Listeners : Heard(l, x)' = Heard(l, x)
    BY <1>3, <1>7, <2>1 DEF Moves, Silent
  <2>3. Places(x) <= 1 /\ \A l \in Listeners : Places(x) + Heard(l, x) <= 1
    BY <1>3 DEF PlaceInv
  <2>4. Places(x)' = 0 /\ \A l \in Listeners : Heard(l, x)' = 0
    BY <2>1, <2>2, <2>3 DEF Places
  <2>5. simulator_calls[x] = 0
    <3>1. from_handle \in Seq(Message) /\ from_handle # <<>>
      BY DEF OnAddSimulation, Receive, TypeOK
    <3>2. Head(from_handle) \in ToSet(from_handle)
      BY <3>1, ContentsTail
    <3> QED
      BY <1>2, <3>2 DEF AttemptsInv, Untried, OnAddSimulation, Receive
  <2>6. reply'[x] # "Awaiting"
    BY <1>3, <1>7 DEF Answer, TypeOK
  <2> QED
    BY <1>1, <1>4, <2>4, <2>5, <2>6 DEF AnswerInv, Untouched
<1> QED
  BY <1>3, <1>6, <1>7

\* The receivers of the answers that are still owed see the service go.
LEMMA DropAnswers ==
  ASSUME TypeOK, IsFiniteSet(simulations), PlaceInv, AttemptsInv, AnswerInv, DropService
  PROVE  AnswerInv'
<1> SUFFICES ASSUME NEW r \in Requests
             PROVE  /\ reply'[r] # "Awaiting"
                    /\ reply'[r] \in {"QueueFull", "ServiceUnavailable"} =>
                         /\ Places(r)' = 0 /\ simulator_calls'[r] = 0
                         /\ \A l \in Listeners : Heard(l, r)' = 0
  BY DEF AnswerInv
<1>1. reply'[r] = IF reply[r] = "Awaiting" /\ InChannel(r) THEN "ServiceUnavailable" ELSE reply[r]
  BY DEF DropService, InChannel
<1>2. /\ InChannel(r) <=> Offered(r) # 0
      /\ Offered(r) \in Nat /\ Queued(r) \in Nat /\ Popped(r) \in Nat /\ Running(r) \in Nat
      /\ \A l \in Listeners : Heard(l, r) \in Nat
  BY PlacesType
<1>3. /\ Offered(r)' = 0 /\ Queued(r)' = 0 /\ Running(r)' = 0 /\ Popped(r)' = Popped(r)
      /\ \A l \in Listeners : Heard(l, r)' = Heard(l, r)
      /\ simulator_calls' = simulator_calls
  BY DropMoves DEF Silent, DropService
<1>4. Places(r) <= 1 /\ \A l \in Listeners : Places(r) + Heard(l, r) <= 1
  BY DEF PlaceInv
<1>5. ASSUME reply[r] = "Awaiting"
      PROVE  /\ InChannel(r) /\ Places(r)' = 0 /\ simulator_calls[r] = 0
             /\ \A l \in Listeners : Heard(l, r) = 0
  <2>1. InChannel(r)
    BY <1>2, <1>5 DEF AnswerInv
  <2>2. simulator_calls[r] = 0
    BY <2>1 DEF InChannel, AttemptsInv, Untried, ToSet
  <2> QED
    BY <1>2, <1>3, <1>4, <2>1, <2>2 DEF Places
<1>6. ASSUME reply[r] \in {"QueueFull", "ServiceUnavailable"}
      PROVE  /\ Places(r)' = 0 /\ simulator_calls[r] = 0
             /\ \A l \in Listeners : Heard(l, r) = 0
  BY <1>2, <1>3, <1>6 DEF AnswerInv, Places
<1> QED
  BY <1>1, <1>3, <1>5, <1>6

LEMMA ClearAnswers ==
  ASSUME TypeOK, IsFiniteSet(simulations), AnswerInv, OnClearQueue
  PROVE  AnswerInv'
<1> SUFFICES ASSUME NEW r \in Requests
             PROVE  /\ reply'[r] = "Awaiting" => alive' /\ Offered(r)' # 0
                    /\ reply'[r] \in {"QueueFull", "ServiceUnavailable"} =>
                         /\ Places(r)' = 0 /\ simulator_calls'[r] = 0
                         /\ \A l \in Listeners : Heard(l, r)' = 0
  BY DEF AnswerInv
<1>1. UNCHANGED <<reply, alive, simulator_calls>>
  BY DEF OnClearQueue, Receive, simVars
<1>2. /\ Offered(r) \in Nat /\ Queued(r) \in Nat /\ Popped(r) \in Nat /\ Running(r) \in Nat
      /\ Offered(r)' = Offered(r) /\ Queued(r)' = 0 /\ Popped(r)' = Popped(r)
      /\ Running(r)' = Running(r) /\ \A l \in Listeners : Heard(l, r)' = Heard(l, r)
  BY PlacesType, ClearMoves DEF Silent
<1>3. Places(r) = 0 => Places(r)' = 0
  BY <1>2 DEF Places
<1> QED
  BY <1>1, <1>2, <1>3 DEF AnswerInv

LEMMA OutcomeAnswers ==
  ASSUME TypeOK, IsFiniteSet(simulations), PlaceInv, AnswerInv, NEW s \in simulations,
         NEW answer \in RelayAnswer, OnSimulationOutcome(s, answer)
  PROVE  AnswerInv'
<1>1. UNCHANGED <<reply, alive, simulator_calls>>
  BY DEF OnSimulationOutcome, PollSimulation, handleVars
<1>2. PICK x \in Requests :
        /\ InFlight(x)
        /\ \/ Moves(x, 0, 0, 0, -1) /\ Tells(x)
           \/ Moves(x, 0, 1, 0, -1) /\ Silent
  BY OutcomeMoves
<1>3. \A r \in Requests : r # x => Untouched(r)
  BY <1>1, <1>2, OthersUntouched
<1> QED
  BY <1>1, <1>2, <1>3, AdmittedAnswers, AnswersKept DEF InService

LEMMA PopAnswers ==
  ASSUME TypeOK, IsFiniteSet(simulations), PlaceInv, AnswerInv, PopNextReady
  PROVE  AnswerInv'
<1>1. UNCHANGED <<reply, alive, simulator_calls>>
  BY DEF PopNextReady, handleVars, taskVars
<1>2. PICK x \in Requests :
        /\ IsQueued(x)
        /\ \/ Moves(x, 0, -1, 1, 0) /\ Silent
           \/ Moves(x, 0, -1, 0, 0) /\ Tells(x)
  BY PopMoves
<1>3. \A r \in Requests : r # x => Untouched(r)
  BY <1>1, <1>2, OthersUntouched
<1> QED
  BY <1>1, <1>2, <1>3, AdmittedAnswers, AnswersKept DEF InService

LEMMA StartAnswers ==
  ASSUME TypeOK, IsFiniteSet(simulations), PlaceInv, AnswerInv, StartSimulation
  PROVE  AnswerInv'
<1>1. PICK x \in Requests : /\ x = Head(ready).id /\ IsReady(x)
                            /\ Moves(x, 0, 0, -1, 1) /\ Silent
  BY StartMoves DEF PlaceInv
<1>2. UNCHANGED <<reply, alive>>
  BY DEF StartSimulation, handleVars
<1>3. \A r \in Requests : r # x => simulator_calls'[r] = simulator_calls[r]
  BY <1>1 DEF StartSimulation, TypeOK
<1>4. \A r \in Requests : r # x => Untouched(r)
  BY <1>1, <1>3, OthersUntouched
<1> QED
  BY <1>1, <1>2, <1>4, AdmittedAnswers, AnswersKept DEF InService

LEMMA NextAnswers ==
  ASSUME TypeOK, IsFiniteSet(simulations), PlaceInv, AttemptsInv, AnswerInv, [Next]_vars
  PROVE  AnswerInv'
<1>1. ASSUME Stay, Silent, UNCHANGED <<simulator_calls, reply, alive>> PROVE AnswerInv'
  BY <1>1, StayUntouched DEF AnswerInv, Untouched
<1>2. CASE OnUpdateBlockNumber \/ OnAddEventListener
  <2>1. UNCHANGED <<simulator_calls, reply, alive>>
    BY <1>2 DEF OnUpdateBlockNumber, OnAddEventListener, Receive, simVars
  <2> QED
    BY <1>1, <1>2, <2>1, OtherMessagesStay
<1>3. ASSUME NEW s \in simulations, SimulationPending(s) \/ SimulationWakes(s)
      PROVE  AnswerInv'
  <2>1. UNCHANGED <<simulator_calls, reply, alive>>
    BY <1>3 DEF SimulationPending, PollSimulation, SimulationWakes, handleVars
  <2> QED
    BY <1>1, <1>3, <2>1, FutureStays DEF PlaceInv
<1>4. CASE \/ BeginPoll \/ MessagesDrained \/ CoopYield \/ OutcomesDrained
           \/ PopBestRequestsDone \/ UNCHANGED vars
  <2>1. UNCHANGED <<simulator_calls, reply, alive>>
    BY <1>4 DEF BeginPoll, MessagesDrained, CoopYield, OutcomesDrained,
                PopBestRequestsDone, vars, handleVars, taskVars, simVars
  <2> QED
    BY <1>1, <1>4, <2>1, TaskStays
<1> QED
  BY <1>2, <1>3, <1>4, HandleAnswers, AddAnswers, ClearAnswers, OutcomeAnswers, PopAnswers,
     StartAnswers, DropAnswers DEF Next, PollStep, OnMessage, Wakes

LEMMA AnswersAlways == Spec => []AnswerInv
<1>1. Init => AnswerInv
  BY DEF Init, AnswerInv
<1>2. TypeOK /\ SlotsInv /\ PlaceInv /\ AttemptsInv /\ AnswerInv /\ [Next]_vars => AnswerInv'
  BY NextAnswers DEF SlotsInv
<1> QED
  BY <1>1, <1>2, TypeCorrect, SlotsAlways, PlacesAlways, AttemptsAlways, PTL DEF Spec

\* A bundle is reported as outdated for a block that is past its window.
OutdatedIsPast(event) ==
  event.type = "OutdatedRequest" => exceeds_target_block(event, event.next_block)

OutdatedInv == \A l \in Listeners : \A event \in ToSet(mailbox[l]) : OutdatedIsPast(event)

LEMMA NextOutdated ==
  ASSUME TypeOK, OutdatedInv, [Next]_vars
  PROVE  OutdatedInv'
<1>1. ASSUME NEW event \in SimulationEvent, Notify(event), OutdatedIsPast(event)
      PROVE  OutdatedInv'
  <2>1. \A l \in Listeners : ToSet(mailbox'[l]) \subseteq ToSet(mailbox[l]) \cup {event}
    BY <1>1, NotifyContents
  <2> QED
    BY <1>1, <2>1 DEF OutdatedInv
<1>2. ASSUME UNCHANGED mailbox PROVE OutdatedInv'
  BY <1>2 DEF OutdatedInv
<1>3. CASE OnUpdateBlockNumber
  <2> DEFINE event == [type |-> "BlockNumberUpdated", old |-> current_block_number,
                       current |-> current_block_number]
  <2>1. UNCHANGED mailbox \/ Notify(event)
    BY <1>3 DEF OnUpdateBlockNumber, listenerVars
  <2>2. event \in SimulationEvent /\ OutdatedIsPast(event)
    BY DEF TypeOK, SimulationEvent, OutdatedIsPast
  <2> HIDE DEF event
  <2> QED
    BY <1>1, <1>2, <2>1, <2>2
<1>4. ASSUME NEW s \in simulations, NEW answer \in RelayAnswer,
             OnSimulationOutcome(s, answer)
      PROVE  OutdatedInv'
  <2> DEFINE sim        == [s.request EXCEPT !.retries = @ + 1]
             result(ok) == [type |-> "SimulatedBundle", id |-> s.request.id, ok |-> ok,
                            retries |-> s.request.retries]
             exceeded   == [type |-> "ExceededMaxRetries", id |-> sim.id]
  <2>1. s.request \in SimulationRequest
    BY DEF TypeOK, Simulation
  <2>2. /\ \A ok \in BOOLEAN : result(ok) \in SimulationEvent /\ OutdatedIsPast(result(ok))
        /\ exceeded \in SimulationEvent /\ OutdatedIsPast(exceeded)
    BY <2>1 DEF SimulationEvent, SimulationRequest, OutdatedIsPast
  <2>3. UNCHANGED mailbox \/ (\E ok \in BOOLEAN : Notify(result(ok))) \/ Notify(exceeded)
    BY <1>4 DEF OnSimulationOutcome, OnSuccess, OnFatal, OnReschedule, listenerVars
  <2> HIDE DEF sim, result, exceeded
  <2> QED
    BY <1>1, <1>2, <2>2, <2>3
<1>5. CASE PopNextReady
  <2>1. PICK pos \in DOMAIN Waiting :
          \/ /\ exceeds_target_block(Waiting[pos], NextBlock)
             /\ Notify([type |-> "OutdatedRequest", id |-> Waiting[pos].id,
                        inclusion |-> Waiting[pos].inclusion, next_block |-> NextBlock])
          \/ UNCHANGED mailbox
    BY <1>5 DEF PopNextReady, listenerVars
  <2> DEFINE event == [type |-> "OutdatedRequest", id |-> Waiting[pos].id,
                       inclusion |-> Waiting[pos].inclusion, next_block |-> NextBlock]
  <2>2. event \in SimulationEvent
    <3>1. Waiting[pos] \in SimulationRequest
      BY ContentsType
    <3>2. NextBlock \in Nat
      BY DEF NextBlock, TypeOK
    <3> QED
      BY <3>1, <3>2 DEF SimulationEvent, SimulationRequest
  <2>3. exceeds_target_block(Waiting[pos], NextBlock) => OutdatedIsPast(event)
    BY DEF exceeds_target_block, OutdatedIsPast
  <2> QED
    BY <1>1, <1>2, <2>1, <2>2, <2>3
<1>6. CASE \/ HandleStep \/ OnClearQueue \/ OnAddEventListener \/ OnAddSimulation
           \/ BeginPoll \/ MessagesDrained \/ CoopYield \/ OutcomesDrained
           \/ PopBestRequestsDone \/ StartSimulation \/ DropService \/ UNCHANGED vars
           \/ \E s \in simulations : SimulationPending(s) \/ SimulationWakes(s)
  <2>1. UNCHANGED mailbox
    BY <1>6
    DEF HandleStep, send_bundle_simulation, add_bundle_simulation, Submit,
        SubmitToDroppedService, CancelAdd, update_block_number, clear_queue, events,
        DropEventStream, OnClearQueue, OnAddEventListener, OnAddSimulation, BeginPoll,
        MessagesDrained, CoopYield, OutcomesDrained, PopBestRequestsDone, StartSimulation,
        DropService, SimulationPending, SimulationWakes, vars, listenerVars
  <2> QED
    BY <1>2, <2>1
<1> QED
  BY <1>3, <1>4, <1>5, <1>6 DEF Next, PollStep, OnMessage, Wakes

\* A caller that still waits will find its message answered, one that was refused
\* is right to think that its bundle is not simulated, not even later, and what is
\* reported as outdated is.
THEOREM AnswersAreTrue == Spec => []AnswersTruthful
<1>1. Init => OutdatedInv
  BY DEF Init, OutdatedInv, ToSet
<1>2. TypeOK /\ OutdatedInv /\ [Next]_vars => OutdatedInv'
  BY NextOutdated
<1>3. TypeOK /\ SlotsInv /\ AnswerInv /\ OutdatedInv => AnswersTruthful
  <2> SUFFICES ASSUME TypeOK, IsFiniteSet(simulations), AnswerInv, OutdatedInv
               PROVE  AnswersTruthful
    BY DEF SlotsInv
  <2>1. ASSUME NEW r \in Requests, reply[r] = "Awaiting" PROVE alive /\ InChannel(r)
    BY <2>1, PlacesType DEF AnswerInv
  <2>2. ASSUME NEW r \in Requests, reply[r] \in {"QueueFull", "ServiceUnavailable"}
        PROVE  /\ ~InService(r) /\ simulator_calls[r] = 0
               /\ \A l \in Listeners : Verdicts(l, r) = {}
    <3>1. Places(r) = 0 /\ simulator_calls[r] = 0 /\ \A l \in Listeners : Heard(l, r) = 0
      BY <2>2 DEF AnswerInv
    <3>2. ~InService(r)
      BY <3>1, InServiceCounted
    <3> QED
      BY <3>1, <3>2, CopiesCounted
  <2>3. \A l \in Listeners : \A i \in DOMAIN mailbox[l] : OutdatedIsPast(mailbox[l][i])
    BY DEF OutdatedInv, ToSet
  <2> QED
    BY <2>1, <2>2, <2>3 DEF AnswersTruthful, OutdatedIsPast
<1> QED
  BY <1>1, <1>2, <1>3, TypeCorrect, SlotsAlways, AnswersAlways, PTL DEF Spec
-----------------------------------------------------------------------------
(* The listeners.  The handle announces a listener through the channel of   *)
(* the requests, so the service knows it before it sees any request that    *)
(* was made after the subscription.                                        *)

Announces(l) == [type |-> "AddEventListener", tx |-> l]

Announced(l) == \E j \in DOMAIN from_handle : from_handle[j] = Announces(l)

AnnouncedBefore(l, r) ==
  \E i, j \in DOMAIN from_handle :
    /\ j < i
    /\ from_handle[j] = Announces(l)
    /\ from_handle[i] \in AddOf(r)

ChannelInv ==
  /\ alive => \A l \in Listeners : receiver[l] = "open" => l \in listeners \/ Announced(l)
  /\ alive => \A r \in Requests, l \in Listeners :
       l \in heard_by[r] /\ receiver[l] = "open" => l \in listeners \/ AnnouncedBefore(l, r)
  /\ \A r \in Requests, l \in Listeners : l \in heard_by[r] => receiver[l] # "none"
  /\ clears = 0 => \A i \in DOMAIN from_handle : from_handle[i].type # "ClearQueue"

\* A sent message is the last one, and receiving one moves the others up.
LEMMA SentLast ==
  ASSUME TypeOK, NEW msg \in Message, Send(msg)
  PROVE  /\ \A i \in DOMAIN from_handle : /\ i \in DOMAIN from_handle'
                                         /\ i \in Nat /\ i < Len(from_handle) + 1
                                         /\ from_handle'[i] = from_handle[i]
         /\ Len(from_handle) + 1 \in DOMAIN from_handle'
         /\ from_handle'[Len(from_handle) + 1] = msg
         /\ \A i \in DOMAIN from_handle' :
              i \in DOMAIN from_handle \/ i = Len(from_handle) + 1
<1>1. from_handle \in Seq(Message) /\ from_handle' = Append(from_handle, msg)
  BY DEF TypeOK, Send
<1>2. /\ DOMAIN from_handle = 1 .. Len(from_handle) /\ Len(from_handle) \in Nat
      /\ DOMAIN from_handle' = 1 .. Len(from_handle) + 1
  BY <1>1, LenProperties, AppendProperties
<1> QED
  BY <1>1, <1>2, AppendProperties

LEMMA ReceivedFirst ==
  ASSUME TypeOK, NEW type, Receive(type)
  PROVE  /\ \A i \in DOMAIN from_handle :
              \/ i = 1 /\ from_handle[i] = Head(from_handle)
              \/ /\ i - 1 \in DOMAIN from_handle'
                 /\ from_handle'[i - 1] = from_handle[i]
         /\ \A i \in DOMAIN from_handle' :
              i + 1 \in DOMAIN from_handle /\ from_handle'[i] = from_handle[i + 1]
         /\ DOMAIN from_handle \subseteq Nat \ {0}
<1>1. /\ from_handle \in Seq(Message) /\ from_handle # <<>>
      /\ from_handle' = Tail(from_handle)
  BY DEF TypeOK, Receive
<1>2. /\ DOMAIN from_handle = 1 .. Len(from_handle) /\ Len(from_handle) \in Nat
      /\ Tail(from_handle) \in Seq(Message)
      /\ Len(Tail(from_handle)) = Len(from_handle) - 1
      /\ Head(from_handle) = from_handle[1]
  BY <1>1, LenProperties, HeadTailProperties, EmptySeq
<1>3. DOMAIN from_handle' = 1 .. Len(from_handle) - 1
  BY <1>1, <1>2, LenProperties
<1>4. \A i \in 1 .. Len(from_handle) - 1 : from_handle'[i] = from_handle[i + 1]
  BY <1>1, <1>2, HeadTailProperties
<1> QED
  BY <1>2, <1>3, <1>4

\* What a step does to the listeners: the service forgets none that listens, and
\* none is added to those a request was made after.
ListenersStep ==
  /\ alive' => alive
  /\ alive' => \A l \in listeners : receiver[l] = "open" => l \in listeners'
  /\ \A l \in Listeners : receiver[l] # "none" => receiver'[l] # "none"
  /\ \A l \in Listeners : receiver'[l] = "open" => receiver[l] \in {"none", "open"}
  /\ \A r \in Requests : reply[r] # "none" => heard_by'[r] = heard_by[r]
  /\ clears' = 0 => clears = 0

LEMMA NextListeners ==
  ASSUME TypeOK, [Next]_vars
  PROVE  ListenersStep
<1>1. CASE HandleStep
  <2>1. UNCHANGED <<alive, listeners>>
    BY <1>1 DEF HandleStep, send_bundle_simulation, add_bundle_simulation, Submit,
                SubmitToDroppedService, CancelAdd, update_block_number, clear_queue, events,
                DropEventStream, taskVars, listenerVars
  <2>2. /\ \A l \in Listeners : receiver[l] # "none" => receiver'[l] # "none"
        /\ \A l \in Listeners : receiver'[l] = "open" => receiver[l] \in {"none", "open"}
    BY <1>1 DEF HandleStep, send_bundle_simulation, add_bundle_simulation, Submit,
                SubmitToDroppedService, CancelAdd, update_block_number, clear_queue, events,
                DropEventStream, TypeOK
  <2>3. \A r \in Requests : reply[r] # "none" => heard_by'[r] = heard_by[r]
    BY <1>1 DEF HandleStep, send_bundle_simulation, add_bundle_simulation, Submit,
                SubmitToDroppedService, CancelAdd, update_block_number, clear_queue, events,
                DropEventStream, handleVars, TypeOK
  <2>4. clears' = clears \/ clears' = clears + 1
    BY <1>1 DEF HandleStep, send_bundle_simulation, add_bundle_simulation, Submit,
                SubmitToDroppedService, CancelAdd, update_block_number, clear_queue, events,
                DropEventStream, handleVars
  <2>5. clears' = 0 => clears = 0
    BY <2>4 DEF TypeOK
  <2>6. /\ alive' => alive
        /\ alive' => \A l \in listeners : receiver[l] = "open" => l \in listeners'
    BY <2>1
  <2> QED
    BY <2>2, <2>3, <2>5, <2>6 DEF ListenersStep
<1>2. ASSUME UNCHANGED <<receiver, heard_by, clears>>,
             \/ ~alive'
             \/ UNCHANGED <<alive, listeners>>
             \/ UNCHANGED alive /\ \E event : Notify(event)
             \/ UNCHANGED alive /\ listeners \subseteq listeners'
      PROVE  ListenersStep
  BY <1>2 DEF ListenersStep, Notify
<1>3. CASE OnMessage
  BY <1>2, <1>3 DEF OnMessage, OnUpdateBlockNumber, OnClearQueue, OnAddEventListener,
                    OnAddSimulation, Receive, listenerVars
<1>4. ASSUME NEW s \in simulations, NEW answer \in RelayAnswer,
             OnSimulationOutcome(s, answer)
      PROVE  ListenersStep
  BY <1>2, <1>4 DEF OnSimulationOutcome, PollSimulation, OnSuccess, OnFatal, OnReschedule,
                    handleVars, listenerVars
<1>5. CASE PopNextReady
  BY <1>2, <1>5 DEF PopNextReady, handleVars, taskVars, listenerVars
<1>6. CASE DropService
  BY <1>2, <1>6 DEF DropService
<1>7. CASE \/ BeginPoll \/ MessagesDrained \/ CoopYield \/ OutcomesDrained
           \/ PopBestRequestsDone \/ StartSimulation \/ UNCHANGED vars
           \/ \E s \in simulations : SimulationPending(s) \/ SimulationWakes(s)
  BY <1>2, <1>7 DEF BeginPoll, MessagesDrained, CoopYield, OutcomesDrained,
                    PopBestRequestsDone, StartSimulation, SimulationPending, PollSimulation,
                    SimulationWakes, vars, handleVars, taskVars, listenerVars
<1> QED
  BY <1>1, <1>3, <1>4, <1>5, <1>6, <1>7 DEF Next, PollStep, Wakes

\* What was announced stays announced, or becomes known to the service.
LEMMA AnnouncementsSent ==
  ASSUME TypeOK, NEW msg \in Message, Send(msg), NEW l, NEW r
  PROVE  /\ Announced(l) => Announced(l)'
         /\ msg = Announces(l) => Announced(l)'
         /\ AnnouncedBefore(l, r) => AnnouncedBefore(l, r)'
         /\ Announced(l) /\ msg \in AddOf(r) => AnnouncedBefore(l, r)'
<1>1. ASSUME Announced(l) PROVE Announced(l)'
  BY <1>1, SentLast DEF Announced, Announces
<1>2. ASSUME msg = Announces(l) PROVE Announced(l)'
  BY <1>2, SentLast DEF Announced, Announces
<1>3. ASSUME AnnouncedBefore(l, r) PROVE AnnouncedBefore(l, r)'
  BY <1>3, SentLast DEF AnnouncedBefore, Announces, AddOf
<1>4. ASSUME Announced(l), msg \in AddOf(r) PROVE AnnouncedBefore(l, r)'
  BY <1>4, SentLast DEF Announced, AnnouncedBefore, Announces, AddOf
<1> QED
  BY <1>1, <1>2, <1>3, <1>4

LEMMA AnnouncementsReceived ==
  ASSUME TypeOK, NEW type, Receive(type), NEW l, NEW r
  PROVE  /\ Announced(l) => Announced(l)' \/ Head(from_handle) = Announces(l)
         /\ AnnouncedBefore(l, r) => AnnouncedBefore(l, r)' \/ Head(from_handle) = Announces(l)
<1>1. ASSUME Announced(l), Head(from_handle) # Announces(l) PROVE Announced(l)'
  BY <1>1, ReceivedFirst DEF Announced, Announces
<1>2. ASSUME AnnouncedBefore(l, r), Head(from_handle) # Announces(l)
      PROVE  AnnouncedBefore(l, r)'
  <2>1. PICK i, j \in DOMAIN from_handle : /\ j < i /\ from_handle[j] = Announces(l)
                                           /\ from_handle[i] \in AddOf(r)
    BY <1>2 DEF AnnouncedBefore
  <2>2. i \in Nat /\ j \in Nat /\ j # 0 /\ i # 1
    BY <2>1, ReceivedFirst
  <2>3. /\ i - 1 \in DOMAIN from_handle' /\ from_handle'[i - 1] = from_handle[i]
        /\ j - 1 \in DOMAIN from_handle' /\ from_handle'[j - 1] = from_handle[j]
    BY <1>2, <2>1, <2>2, ReceivedFirst
  <2>4. j - 1 < i - 1
    BY <2>1, <2>2
  <2> QED
    BY <2>1, <2>3, <2>4 DEF AnnouncedBefore, Announces, AddOf
<1> QED
  BY <1>1, <1>2

LEMMA AnnouncementsStay ==
  ASSUME UNCHANGED from_handle, NEW l, NEW r
  PROVE  /\ Announced(l) => Announced(l)'
         /\ AnnouncedBefore(l, r) => AnnouncedBefore(l, r)'
BY DEF Announced, AnnouncedBefore, Announces, AddOf

\* A step that is no call of a handle: what it receives, if anything, is not lost.
LEMMA ServiceKeepsChannel ==
  ASSUME TypeOK, ChannelInv, ListenersStep, UNCHANGED <<receiver, heard_by, clears>>,
         \/ ~alive' /\ from_handle' = <<>>
         \/ UNCHANGED from_handle
         \/ OnMessage
  PROVE  ChannelInv'
<1>1. CASE ~alive' /\ from_handle' = <<>>
  BY <1>1 DEF ChannelInv
<1>2. CASE UNCHANGED from_handle
  <2>1. \A l \in Listeners : alive' /\ receiver'[l] = "open" => l \in listeners' \/ Announced(l)'
    BY <1>2, AnnouncementsStay DEF ChannelInv, ListenersStep
  <2>2. \A r \in Requests, l \in Listeners :
          alive' /\ l \in heard_by'[r] /\ receiver'[l] = "open" =>
            l \in listeners' \/ AnnouncedBefore(l, r)'
    BY <1>2, AnnouncementsStay DEF ChannelInv, ListenersStep
  <2> QED
    BY <1>2, <2>1, <2>2 DEF ChannelInv
<1>3. CASE OnMessage
  <2>1. PICK type : Receive(type)
    BY <1>3 DEF OnMessage, OnUpdateBlockNumber, OnClearQueue, OnAddEventListener,
                OnAddSimulation
  <2>2. \A l \in Listeners : Head(from_handle) = Announces(l) => l \in listeners'
    BY <1>3 DEF OnMessage, OnUpdateBlockNumber, OnClearQueue, OnAddEventListener,
                OnAddSimulation, Receive, Announces
  <2>3. \A l \in Listeners : alive' /\ receiver'[l] = "open" => l \in listeners' \/ Announced(l)'
    BY <2>1, <2>2, AnnouncementsReceived DEF ChannelInv, ListenersStep
  <2>4. \A r \in Requests, l \in Listeners :
          alive' /\ l \in heard_by'[r] /\ receiver'[l] = "open" =>
            l \in listeners' \/ AnnouncedBefore(l, r)'
    BY <2>1, <2>2, AnnouncementsReceived DEF ChannelInv, ListenersStep
  <2>5. clears' = 0 => \A i \in DOMAIN from_handle' : from_handle'[i].type # "ClearQueue"
    BY <2>1, ReceivedFirst DEF ChannelInv
  <2>6. \A r \in Requests, l \in Listeners : l \in heard_by'[r] => receiver'[l] # "none"
    BY DEF ChannelInv
  <2> QED
    BY <2>3, <2>4, <2>5, <2>6 DEF ChannelInv
<1> QED
  BY <1>1, <1>2, <1>3

LEMMA SubmitKeepsChannel ==
  ASSUME TypeOK, ChannelInv, NEW x \in Requests, NEW told \in {"Sent", "Awaiting"},
         Submit(x, told)
  PROVE  ChannelInv'
<1>1. PICK prio \in Priority, inclusion \in Inclusions :
        Send([type |-> "AddSimulation", request |-> NewRequest(x, prio, inclusion)])
  BY DEF Submit
<1> DEFINE msg == [type |-> "AddSimulation", request |-> NewRequest(x, prio, inclusion)]
<1>2. msg \in Message /\ msg \in AddOf(x) /\ msg.type # "ClearQueue"
  <2>1. NewRequest(x, prio, inclusion) \in SimulationRequest
    BY InputAssumption DEF NewRequest, SimulationRequest
  <2>2. msg \in Message
    BY <2>1 DEF Message
  <2> QED
    BY <2>2 DEF AddOf, NewRequest
<1> HIDE DEF msg
<1>3. Send(msg)
  BY <1>1 DEF msg
<1>4. /\ UNCHANGED <<alive, listeners, receiver, clears>>
      /\ \A r \in Requests : heard_by'[r] = IF r = x THEN {l \in Listeners : receiver[l] # "none"}
                                                    ELSE heard_by[r]
  BY DEF Submit, listenerVars, TypeOK
<1>5. \A l \in Listeners : alive' /\ receiver'[l] = "open" => l \in listeners' \/ Announced(l)'
  BY <1>2, <1>3, <1>4, AnnouncementsSent DEF ChannelInv
<1>6. ASSUME NEW r \in Requests, NEW l \in Listeners, alive', l \in heard_by'[r],
             receiver'[l] = "open"
      PROVE  l \in listeners' \/ AnnouncedBefore(l, r)'
  <2>1. CASE r = x
    BY <1>2, <1>3, <1>4, <1>6, <2>1, AnnouncementsSent DEF ChannelInv
  <2>2. CASE r # x
    BY <1>2, <1>3, <1>4, <1>6, <2>2, AnnouncementsSent DEF ChannelInv
  <2> QED
    BY <2>1, <2>2
<1>7. \A r \in Requests, l \in Listeners : l \in heard_by'[r] => receiver'[l] # "none"
  BY <1>4 DEF ChannelInv
<1>8. clears' = 0 => \A i \in DOMAIN from_handle' : from_handle'[i].type # "ClearQueue"
  BY <1>2, <1>3, <1>4, SentLast DEF ChannelInv
<1> QED
  BY <1>5, <1>6, <1>7, <1>8 DEF ChannelInv

\* The other calls of the handles.
LEMMA HandleKeepsChannel ==
  ASSUME TypeOK, ChannelInv, ListenersStep, UNCHANGED heard_by, UNCHANGED listeners,
         \/ \E r \in Requests : SubmitToDroppedService(r) \/ CancelAdd(r)
         \/ \E num \in BlockNumbers : update_block_number(num)
         \/ clear_queue
         \/ \E l \in Listeners : events(l) \/ DropEventStream(l)
  PROVE  ChannelInv'
<1>1. ASSUME NEW msg \in Message, Send(msg), msg.type # "ClearQueue" \/ clears' # 0,
             \A l \in Listeners : receiver'[l] = "open" =>
                receiver[l] = "open" \/ msg = Announces(l)
      PROVE  ChannelInv'
  <2>1. \A l \in Listeners : alive' /\ receiver'[l] = "open" => l \in listeners' \/ Announced(l)'
    BY <1>1, AnnouncementsSent DEF ChannelInv, ListenersStep
  <2>2. \A r \in Requests, l \in Listeners :
          alive' /\ l \in heard_by'[r] /\ receiver'[l] = "open" =>
            l \in listeners' \/ AnnouncedBefore(l, r)'
    BY <1>1, AnnouncementsSent DEF ChannelInv, ListenersStep
  <2>3. clears' = 0 => \A i \in DOMAIN from_handle' : from_handle'[i].type # "ClearQueue"
    BY <1>1, SentLast DEF ChannelInv, ListenersStep
  <2>4. \A r \in Requests, l \in Listeners : l \in heard_by'[r] => receiver'[l] # "none"
    BY DEF ChannelInv, ListenersStep
  <2> QED
    BY <2>1, <2>2, <2>3, <2>4 DEF ChannelInv
<1>2. ASSUME NEW num \in BlockNumbers, update_block_number(num) PROVE ChannelInv'
  <2> DEFINE msg == [type |-> "UpdateBlockNumber", num |-> num]
  <2>1. msg \in Message /\ msg.type # "ClearQueue" /\ Send(msg) /\ UNCHANGED receiver
    BY <1>2, InputAssumption DEF update_block_number, Message
  <2> HIDE DEF msg
  <2> QED
    BY <1>1, <2>1
<1>3. CASE clear_queue
  <2> DEFINE msg == [type |-> "ClearQueue"]
  <2>1. msg \in Message /\ clears' # 0 /\ Send(msg) /\ UNCHANGED receiver
    BY <1>3 DEF clear_queue, Message, TypeOK
  <2> HIDE DEF msg
  <2> QED
    BY <1>1, <2>1
<1>4. ASSUME NEW l \in Listeners, events(l) PROVE ChannelInv'
  <2> DEFINE msg == Announces(l)
  <2>1. msg \in Message /\ msg.type # "ClearQueue"
    BY DEF Announces, Message
  <2>2. Send(msg) /\ \A k \in Listeners : receiver'[k] = "open" => receiver[k] = "open" \/ k = l
    BY <1>4 DEF events, Announces, TypeOK
  <2> HIDE DEF msg
  <2> QED
    BY <1>1, <2>1, <2>2 DEF msg
<1>5. CASE \/ \E r \in Requests : SubmitToDroppedService(r) \/ CancelAdd(r)
           \/ \E l \in Listeners : DropEventStream(l)
  <2>1. /\ UNCHANGED <<from_handle, alive, clears>>
        /\ \A k \in Listeners : receiver'[k] = "open" => receiver[k] = "open"
    BY <1>5 DEF SubmitToDroppedService, CancelAdd, DropEventStream, handleVars, taskVars, TypeOK
  <2>2. \A l \in Listeners : alive' /\ receiver'[l] = "open" => l \in listeners' \/ Announced(l)'
    BY <2>1, AnnouncementsStay DEF ChannelInv
  <2>3. \A r \in Requests, l \in Listeners :
          alive' /\ l \in heard_by'[r] /\ receiver'[l] = "open" =>
            l \in listeners' \/ AnnouncedBefore(l, r)'
    BY <2>1, AnnouncementsStay DEF ChannelInv
  <2>4. \A r \in Requests, l \in Listeners : l \in heard_by'[r] => receiver'[l] # "none"
    BY DEF ChannelInv, ListenersStep
  <2> QED
    BY <2>1, <2>2, <2>3, <2>4 DEF ChannelInv
<1> QED
  BY <1>2, <1>3, <1>4, <1>5

LEMMA NextChannel ==
  ASSUME TypeOK, ChannelInv, [Next]_vars
  PROVE  ChannelInv'
<1>1. ListenersStep
  BY NextListeners
<1>2. CASE HandleStep
  <2>1. ASSUME NEW x \in Requests, SubmitToDroppedService(x) \/ CancelAdd(x)
        PROVE  ChannelInv'
    <3>1. UNCHANGED heard_by /\ UNCHANGED listeners
      BY <2>1 DEF SubmitToDroppedService, CancelAdd, listenerVars
    <3> QED
      BY <1>1, <2>1, <3>1, HandleKeepsChannel
  <2>2. CASE \/ \E num \in BlockNumbers : update_block_number(num)
             \/ clear_queue
             \/ \E l \in Listeners : events(l) \/ DropEventStream(l)
    <3>1. UNCHANGED heard_by /\ UNCHANGED listeners
      BY <2>2 DEF update_block_number, clear_queue, events, DropEventStream, handleVars,
                  listenerVars
    <3> QED
      BY <1>1, <2>2, <3>1, HandleKeepsChannel
  <2> QED
    BY <1>2, <2>1, <2>2, SubmitKeepsChannel
    DEF HandleStep, send_bundle_simulation, add_bundle_simulation
<1>3. CASE OnMessage
  <2>1. UNCHANGED <<receiver, heard_by, clears>>
    BY <1>3 DEF OnMessage, OnUpdateBlockNumber, OnClearQueue, OnAddEventListener,
                OnAddSimulation, Receive
  <2> QED
    BY <1>1, <1>3, <2>1, ServiceKeepsChannel
<1>4. CASE DropService
  <2>1. UNCHANGED <<receiver, heard_by, clears>> /\ ~alive' /\ from_handle' = <<>>
    BY <1>4 DEF DropService
  <2> QED
    BY <1>1, <2>1, ServiceKeepsChannel
<1>5. CASE \/ BeginPoll \/ MessagesDrained \/ CoopYield \/ OutcomesDrained \/ PopNextReady
           \/ PopBestRequestsDone \/ StartSimulation \/ UNCHANGED vars
           \/ \E s \in simulations : SimulationPending(s) \/ SimulationWakes(s)
           \/ \E s \in simulations, answer \in RelayAnswer : OnSimulationOutcome(s, answer)
  <2>1. UNCHANGED <<receiver, heard_by, clears, from_handle>>
    BY <1>5 DEF BeginPoll, MessagesDrained, CoopYield, OutcomesDrained, PopNextReady,
                PopBestRequestsDone, StartSimulation, SimulationPending, SimulationWakes,
                OnSimulationOutcome, PollSimulation, vars, handleVars
  <2> QED
    BY <1>1, <2>1, ServiceKeepsChannel
<1> QED
  BY <1>2, <1>3, <1>4, <1>5 DEF Next, PollStep, Wakes

LEMMA ChannelAlways == Spec => []ChannelInv
<1>1. Init => ChannelInv
  BY DEF Init, ChannelInv
<1>2. TypeOK /\ ChannelInv /\ [Next]_vars => ChannelInv'
  BY NextChannel
<1> QED
  BY <1>1, <1>2, TypeCorrect, PTL DEF Spec

\* A caller is told Ok by the step that queues its request, and no other.
AcceptedInv == \A r \in Requests : reply[r] = "Ok" => Offered(r) = 0

OkStep ==
  \A r \in Requests : reply'[r] = "Ok" =>
    \/ reply[r] = "Ok" /\ ~InChannel(r)
    \/ Offered(r)' = 0 /\ Places(r)' # 0

LEMMA NextOk ==
  ASSUME TypeOK, IsFiniteSet(simulations), PlaceInv, AcceptedInv, [Next]_vars
  PROVE  OkStep
<1>0. \A r \in Requests : reply[r] = "Ok" => ~InChannel(r)
  BY PlacesType DEF AcceptedInv
<1>1. CASE OnAddSimulation
  <2>1. PICK x : x = Head(from_handle).request.id
    OBVIOUS
  <2>2. /\ x \in Requests /\ InChannel(x)
        /\ \/ Moves(x, -1, 1, 0, 0) /\ Answer(x, "Ok")
           \/ Moves(x, -1, 0, 0, 0) /\ Answer(x, "QueueFull")
    BY <1>1, <2>1, AddMoves
  <2>3. \A r \in Requests : r # x => reply'[r] = reply[r]
    BY <2>2 DEF Answer, TypeOK
  <2>4. reply[x] # "Ok"
    BY <1>0, <2>2
  <2>5. ASSUME Answer(x, "QueueFull") PROVE reply'[x] # "Ok"
    BY <2>2, <2>4, <2>5 DEF Answer, TypeOK
  <2>6. ASSUME Moves(x, -1, 1, 0, 0) PROVE Offered(x)' = 0 /\ Places(x)' # 0
    <3>1. /\ Offered(x) # 0 /\ Offered(x) \in Nat /\ Queued(x) \in Nat
          /\ Popped(x) \in Nat /\ Running(x) \in Nat
      BY <2>2, PlacesType
    <3>2. /\ Offered(x)' = Offered(x) - 1 /\ Queued(x)' = Queued(x) + 1
          /\ Popped(x)' = Popped(x) /\ Running(x)' = Running(x)
      BY <2>2, <2>6, <3>1 DEF Moves
    <3>3. Places(x) <= 1
      BY <2>2 DEF PlaceInv
    <3> QED
      BY <3>1, <3>2, <3>3 DEF Places
  <2> QED
    BY <1>0, <2>2, <2>3, <2>5, <2>6 DEF OkStep
<1>2. CASE HandleStep
  <2>1. \A r \in Requests : reply'[r] = "Ok" => reply[r] = "Ok"
    BY <1>2 DEF HandleStep, send_bundle_simulation, add_bundle_simulation, Submit,
                SubmitToDroppedService, CancelAdd, update_block_number, clear_queue, events,
                DropEventStream, handleVars, TypeOK
  <2> QED
    BY <1>0, <2>1 DEF OkStep
<1>3. CASE DropService
  <2>1. \A r \in Requests : reply'[r] = "Ok" => reply[r] = "Ok"
    BY <1>3 DEF DropService
  <2> QED
    BY <1>0, <2>1 DEF OkStep
<1>4. CASE \/ BeginPoll \/ MessagesDrained \/ CoopYield \/ OutcomesDrained \/ PopNextReady
           \/ PopBestRequestsDone \/ StartSimulation \/ UNCHANGED vars
           \/ OnUpdateBlockNumber \/ OnClearQueue \/ OnAddEventListener
           \/ \E s \in simulations : SimulationPending(s) \/ SimulationWakes(s)
           \/ \E s \in simulations, answer \in RelayAnswer : OnSimulationOutcome(s, answer)
  <2>1. UNCHANGED reply
    BY <1>4 DEF BeginPoll, MessagesDrained, CoopYield, OutcomesDrained, PopNextReady,
                PopBestRequestsDone, StartSimulation, SimulationPending, SimulationWakes,
                OnSimulationOutcome, PollSimulation, OnUpdateBlockNumber, OnClearQueue,
                OnAddEventListener, vars, handleVars
  <2> QED
    BY <1>0, <2>1 DEF OkStep
<1> QED
  BY <1>1, <1>2, <1>3, <1>4 DEF Next, PollStep, OnMessage, Wakes

LEMMA AcceptedInductive ==
  ASSUME TypeOK, IsFiniteSet(simulations), AcceptedInv, PlacesStep, OkStep
  PROVE  AcceptedInv'
<1> SUFFICES ASSUME NEW r \in Requests, reply'[r] = "Ok", reply[r] = "Ok", ~InChannel(r)
             PROVE  Offered(r)' = 0
  BY DEF AcceptedInv, OkStep
<1>1. Offered(r) = 0
  BY DEF AcceptedInv
<1>2. CASE Stay
  BY <1>1, <1>2 DEF Stay
<1>3. ASSUME NEW x \in Requests, reply[x] = "none", Moves(x, 1, 0, 0, 0)
      PROVE  Offered(r)' = 0
  BY <1>1, <1>3 DEF Moves
<1>4. ASSUME NEW x \in Requests, InChannel(x),
             Moves(x, -1, 1, 0, 0) \/ Moves(x, -1, 0, 0, 0)
      PROVE  Offered(r)' = 0
  BY <1>1, <1>4 DEF Moves
<1>5. ASSUME NEW x \in Requests,
             \/ Moves(x, 0, -1, 1, 0) \/ Moves(x, 0, 0, -1, 1) \/ Moves(x, 0, 1, 0, -1)
             \/ Moves(x, 0, -1, 0, 0) \/ Moves(x, 0, 0, 0, -1)
      PROVE  Offered(r)' = 0
  BY <1>1, <1>5 DEF Moves
<1>6. CASE \A q \in Requests : Offered(q)' \in {0, Offered(q)}
  BY <1>1, <1>6
<1> QED
  BY <1>2, <1>3, <1>4, <1>5, <1>6 DEF PlacesStep

\* What is accepted is in the service, or those who wanted to know have heard of it.
HeardInv ==
  alive /\ clears = 0 => \A r \in Requests : reply[r] = "Ok" =>
    \/ Places(r) # 0
    \/ \A l \in Listeners : l \in heard_by[r] /\ receiver[l] = "open" => Heard(l, r) # 0

LEMMA HeardInductive ==
  ASSUME TypeOK, IsFiniteSet(simulations), PlaceInv, AnswerInv, ChannelInv, AcceptedInv,
         HeardInv, PlacesStep, ListenersStep, OkStep
  PROVE  HeardInv'
<1> SUFFICES ASSUME NEW r \in Requests, alive', clears' = 0, reply[r] = "Ok",
                    Places(r)' = 0, NEW l \in Listeners, l \in heard_by[r],
                    receiver'[l] = "open"
             PROVE  Heard(l, r)' # 0
  <2> SUFFICES ASSUME alive', clears' = 0, NEW r \in Requests, reply'[r] = "Ok",
                      ~(Places(r)' # 0), NEW l \in Listeners, l \in heard_by'[r],
                      receiver'[l] = "open"
               PROVE  Heard(l, r)' # 0
    BY DEF HeardInv
  <2>1. reply[r] = "Ok"
    BY DEF OkStep
  <2>2. heard_by'[r] = heard_by[r]
    BY <2>1 DEF ListenersStep
  <2> QED
    BY <2>1, <2>2
<1>1. /\ Offered(r) \in Nat /\ Queued(r) \in Nat /\ Popped(r) \in Nat /\ Running(r) \in Nat
      /\ Heard(l, r) \in Nat
  BY PlacesType
<1>2. /\ Places(r) = Offered(r) + Queued(r) + Popped(r) + Running(r)
      /\ Places(r)' = Offered(r)' + Queued(r)' + Popped(r)' + Running(r)'
  BY DEF Places
<1>3. alive /\ clears = 0 /\ receiver[l] = "open"
  BY DEF ListenersStep, ChannelInv
<1>4. Places(r) # 0 \/ Heard(l, r) # 0
  BY <1>3 DEF HeardInv
<1>5. Offered(r) = 0
  BY DEF AcceptedInv
<1>6. l \in listeners'
  <2>1. ~AnnouncedBefore(l, r)
    <3>1. ~InChannel(r)
      BY <1>5, PlacesType
    <3> QED
      BY <3>1 DEF AnnouncedBefore, InChannel, AddOf
  <2>2. l \in listeners
    BY <1>3, <2>1 DEF ChannelInv
  <2> QED
    BY <1>3, <2>2 DEF ListenersStep
<1>7. CASE Stay /\ Silent
  <2>1. Places(r)' = Places(r) /\ Heard(l, r)' = Heard(l, r)
    BY <1>7 DEF Stay, Silent, Places
  <2> QED
    BY <1>4, <2>1
<1>8. ASSUME NEW x \in Requests, reply[x] = "none", Moves(x, 1, 0, 0, 0), Silent
      PROVE  Heard(l, r)' # 0
  <2>1. Places(r)' = Places(r) /\ Heard(l, r)' = Heard(l, r)
    BY <1>1, <1>2, <1>8 DEF Moves, Silent
  <2> QED
    BY <1>4, <2>1
<1>9. ASSUME NEW x \in Requests, InChannel(x),
             Moves(x, -1, 1, 0, 0) \/ Moves(x, -1, 0, 0, 0), Silent
      PROVE  Heard(l, r)' # 0
  <2>1. r # x
    BY <1>5, <1>9, PlacesType
  <2>2. Places(r)' = Places(r) /\ Heard(l, r)' = Heard(l, r)
    BY <1>1, <1>2, <1>9, <2>1 DEF Moves, Silent
  <2> QED
    BY <1>4, <2>2
<1>10. ASSUME NEW x \in Requests, Silent,
              \/ Moves(x, 0, -1, 1, 0) \/ Moves(x, 0, 0, -1, 1) \/ Moves(x, 0, 1, 0, -1)
       PROVE  Heard(l, r)' # 0
  <2>1. Places(r)' = Places(r) /\ Heard(l, r)' = Heard(l, r)
    BY <1>1, <1>2, <1>10 DEF Moves, Silent
  <2> QED
    BY <1>4, <2>1
<1>11. ASSUME NEW x \in Requests, Tells(x), Moves(x, 0, -1, 0, 0) \/ Moves(x, 0, 0, 0, -1)
       PROVE  Heard(l, r)' # 0
  <2>1. CASE r = x
    <3>1. Heard(l, r)' = Heard(l, r) + 1
      BY <1>6, <1>11, <2>1 DEF Tells
    <3> QED
      BY <1>1, <3>1
  <2>2. CASE r # x
    <3>1. Places(r)' = Places(r) /\ Heard(l, r)' = Heard(l, r)
      BY <1>1, <1>2, <1>11, <2>2 DEF Moves, Tells
    <3> QED
      BY <1>4, <3>1
  <2> QED
    BY <2>1, <2>2
<1>12. ~(OnClearQueue \/ DropService)
  <2>1. ASSUME OnClearQueue PROVE FALSE
    <3>1. /\ from_handle \in Seq(Message) /\ from_handle # <<>>
          /\ Head(from_handle).type = "ClearQueue"
      BY <2>1 DEF OnClearQueue, Receive, TypeOK
    <3>2. 1 \in DOMAIN from_handle /\ from_handle[1] = Head(from_handle)
      BY <3>1, EmptySeq, LenProperties
    <3> QED
      BY <1>3, <3>1, <3>2 DEF ChannelInv
  <2> QED
    BY <2>1 DEF DropService
<1> QED
  BY <1>7, <1>8, <1>9, <1>10, <1>11, <1>12 DEF PlacesStep

\* An accepted request does not vanish: until the queues are cleared or the service
\* is dropped, every listener that was there first, and still is, hears what became
\* of it before it leaves the service.
THEOREM NothingLost == Spec => []NoSilentLoss
<1>1. Init => AcceptedInv /\ HeardInv
  BY DEF Init, AcceptedInv, HeardInv
<1>2. /\ TypeOK /\ SlotsInv /\ PlaceInv /\ AnswerInv /\ ChannelInv /\ AcceptedInv /\ HeardInv
      /\ [Next]_vars
      => AcceptedInv' /\ HeardInv'
  <2> SUFFICES ASSUME TypeOK, IsFiniteSet(simulations), PlaceInv, AnswerInv, ChannelInv,
                      AcceptedInv, HeardInv, [Next]_vars
               PROVE  AcceptedInv' /\ HeardInv'
    BY DEF SlotsInv
  <2>1. PlacesStep /\ ListenersStep /\ OkStep
    BY NextPlaces, NextListeners, NextOk
  <2> QED
    BY <2>1, AcceptedInductive, HeardInductive
<1>3. TypeOK /\ SlotsInv /\ HeardInv => NoSilentLoss
  <2> SUFFICES ASSUME TypeOK, IsFiniteSet(simulations), HeardInv, alive, clears = 0,
                      NEW r \in Requests, reply[r] = "Ok", ~InService(r),
                      NEW l \in heard_by[r], receiver[l] = "open"
               PROVE  Verdicts(l, r) # {}
    BY DEF SlotsInv, NoSilentLoss
  <2>1. l \in Listeners
    BY DEF TypeOK
  <2>2. Places(r) = 0
    BY InServiceCounted
  <2>3. Heard(l, r) # 0
    BY <2>1, <2>2 DEF HeardInv
  <2> QED
    BY <2>1, <2>3, CopiesCounted
<1> QED
  BY <1>1, <1>2, <1>3, TypeCorrect, SlotsAlways, PlacesAlways, AnswersAlways, ChannelAlways,
     PTL DEF Spec

\* A verdict that is the only one decides what results() yields about the request.
LEMMA OneVerdictOneResult ==
  ASSUME TypeOK, IsFiniteSet(simulations), OneVerdict, RetryAccounting,
         NEW r \in Requests, NEW l \in Listeners, Verdicts(l, r) # {}
  PROVE  \/ Cardinality(ResultsFor(l, r)) = 1
         \/ /\ ResultsFor(l, r) = {}
            /\ \/ simulator_calls[r] = max_retries + 1
               \/ \E i \in Verdicts(l, r) : mailbox[l][i].type = "OutdatedRequest"
<1>1. PICK v : Verdicts(l, r) = {v}
  <2>1. Verdicts(l, r) = Where(mailbox[l], VerdictOn(r))
    BY CopiesCounted
  <2>2. IsFiniteSet(Verdicts(l, r)) /\ Cardinality(Verdicts(l, r)) \in Nat
    BY <2>1, CountType, FS_CardinalityType DEF TypeOK
  <2>3. Copies(r) \in Nat /\ Copies(r) + Cardinality(Verdicts(l, r)) <= 1
    <3>1. Copies(r) = Places(r) /\ Places(r) \in Nat
      BY CopiesCounted, PlacesType DEF Places
    <3> QED
      BY <3>1 DEF OneVerdict
  <2>4. Cardinality(Verdicts(l, r)) # 0
    BY <2>2, FS_EmptySet
  <2>5. Cardinality(Verdicts(l, r)) = 1
    BY <2>2, <2>3, <2>4
  <2> QED
    BY <2>2, <2>5, FS_Singleton
<1>2. /\ v \in DOMAIN mailbox[l] /\ mailbox[l][v] \in SimulationEvent
      /\ mailbox[l][v].type # "BlockNumberUpdated" /\ mailbox[l][v].id = r
  <2>1. v \in DOMAIN mailbox[l] /\ IsVerdict(mailbox[l][v], r)
    BY <1>1 DEF Verdicts
  <2>2. mailbox[l] \in Seq(SimulationEvent)
    BY DEF TypeOK
  <2> QED
    BY <2>1, <2>2, LenProperties, ElementOfSeq DEF IsVerdict
<1>3. ResultsFor(l, r) = {i \in Verdicts(l, r) : mailbox[l][i].type = "SimulatedBundle"}
  BY DEF ResultsFor, results, Verdicts, IsVerdict
<1>4. CASE mailbox[l][v].type = "SimulatedBundle"
  <2>1. ResultsFor(l, r) = {v}
    BY <1>1, <1>3, <1>4
  <2> QED
    BY <2>1, FS_Singleton
<1>5. CASE mailbox[l][v].type = "OutdatedRequest"
  <2>1. ResultsFor(l, r) = {}
    BY <1>1, <1>3, <1>5
  <2> QED
    BY <1>1, <1>5, <2>1
<1>6. CASE mailbox[l][v].type = "ExceededMaxRetries"
  <2>1. ResultsFor(l, r) = {}
    BY <1>1, <1>3, <1>6
  <2>2. simulator_calls[r] = max_retries + 1
    BY <1>2, <1>6 DEF RetryAccounting
  <2> QED
    BY <2>1, <2>2
<1> QED
  BY <1>2, <1>4, <1>5, <1>6 DEF SimulationEvent

\* A consumer of results() can account for every bundle: it has one result, or has
\* used up its retries, or was outdated.
THEOREM ResultsAccounted == Spec => []ResultsExplained
<1>1. TypeOK /\ SlotsInv /\ OneVerdict /\ RetryAccounting /\ NoSilentLoss => ResultsExplained
  <2> SUFFICES ASSUME TypeOK, IsFiniteSet(simulations), OneVerdict, RetryAccounting,
                      NoSilentLoss, NEW r \in Requests,
                      alive, clears = 0, reply[r] = "Ok", ~InService(r),
                      NEW l \in heard_by[r], receiver[l] = "open"
               PROVE  \/ Cardinality(ResultsFor(l, r)) = 1
                      \/ /\ ResultsFor(l, r) = {}
                         /\ \/ simulator_calls[r] = max_retries + 1
                            \/ \E i \in Verdicts(l, r) :
                                 mailbox[l][i].type = "OutdatedRequest"
    BY DEF SlotsInv, ResultsExplained
  <2>1. l \in Listeners /\ Verdicts(l, r) # {}
    BY DEF NoSilentLoss, TypeOK
  <2> QED
    BY <2>1, OneVerdictOneResult
<1> QED
  BY <1>1, TypeCorrect, SlotsAlways, VerdictsAreFinal, RetriesAccounted, NothingLost, PTL
-----------------------------------------------------------------------------
(* The refinement.  The status of a request is what the counts say, so a    *)
(* step of the service moves it along the lifecycle.                        *)

Status == [r \in Requests |-> StatusOf(r)]

StatusKnown ==
  \A r \in Requests : StatusOf(r) =
    IF reply[r] = "none" THEN "new"
    ELSE IF Offered(r) # 0 THEN "offered"
    ELSE IF Queued(r) # 0 \/ Popped(r) # 0 THEN "queued"
    ELSE IF Running(r) # 0 THEN "running"
    ELSE "done"

LEMMA StatusCounted ==
  ASSUME TypeOK, SlotsInv, PlaceInv
  PROVE  StatusKnown
<1> SUFFICES ASSUME NEW r \in Requests
             PROVE  StatusOf(r) =
                      IF reply[r] = "none" THEN "new"
                      ELSE IF Offered(r) # 0 THEN "offered"
                      ELSE IF Queued(r) # 0 \/ Popped(r) # 0 THEN "queued"
                      ELSE IF Running(r) # 0 THEN "running"
                      ELSE "done"
  BY DEF StatusKnown
<1>1. /\ Offered(r) \in Nat /\ Queued(r) \in Nat /\ Popped(r) \in Nat /\ Running(r) \in Nat
  BY PlacesType DEF SlotsInv
<1>2. /\ InChannel(r) <=> Offered(r) # 0
      /\ IsQueued(r) <=> Queued(r) # 0
      /\ IsReady(r) <=> Popped(r) # 0
      /\ InFlight(r) <=> Running(r) # 0
  BY PlacesType DEF SlotsInv
<1>3. /\ Offered(r) + Queued(r) + Popped(r) + Running(r) <= 1
      /\ reply[r] = "none" => Offered(r) + Queued(r) + Popped(r) + Running(r) = 0
  BY DEF PlaceInv, Places
<1>4. CASE reply[r] = "none"
  <2>1. Offered(r) = 0 /\ Queued(r) = 0 /\ Popped(r) = 0 /\ Running(r) = 0
    BY <1>1, <1>3, <1>4
  <2>2. ~InChannel(r) /\ ~IsQueued(r) /\ ~IsReady(r) /\ ~InFlight(r)
    BY <1>2, <2>1
  <2> QED
    BY <1>4, <2>2 DEF StatusOf
<1>5. CASE reply[r] # "none" /\ Offered(r) # 0
  <2>1. Queued(r) = 0 /\ Popped(r) = 0 /\ Running(r) = 0
    BY <1>1, <1>3, <1>5
  <2>2. InChannel(r) /\ ~IsQueued(r) /\ ~IsReady(r) /\ ~InFlight(r)
    BY <1>2, <1>5, <2>1
  <2> QED
    BY <1>5, <2>2 DEF StatusOf
<1>6. CASE reply[r] # "none" /\ Offered(r) = 0 /\ (Queued(r) # 0 \/ Popped(r) # 0)
  <2>1. Running(r) = 0
    BY <1>1, <1>3, <1>6
  <2>2. ~InChannel(r) /\ (IsQueued(r) \/ IsReady(r)) /\ ~InFlight(r)
    BY <1>2, <1>6, <2>1
  <2> QED
    BY <1>6, <2>2 DEF StatusOf
<1>7. CASE reply[r] # "none" /\ Offered(r) = 0 /\ Queued(r) = 0 /\ Popped(r) = 0
  <2>1. ~InChannel(r) /\ ~IsQueued(r) /\ ~IsReady(r) /\ (InFlight(r) <=> Running(r) # 0)
    BY <1>2, <1>7
  <2>2. CASE InFlight(r)
    BY <1>7, <2>1, <2>2 DEF StatusOf
  <2>3. CASE ~InFlight(r)
    BY <1>7, <2>1, <2>3 DEF StatusOf
  <2> QED
    BY <2>2, <2>3
<1> QED
  BY <1>4, <1>5, <1>6, <1>7

\* No call of a handle submits a request in this step.
NoneSubmitted == \A r \in Requests : reply'[r] = "none" <=> reply[r] = "none"

LEMMA NobodySubmits ==
  ASSUME TypeOK, [Next]_vars,
         ~\E r \in Requests : \/ send_bundle_simulation(r) \/ add_bundle_simulation(r)
                              \/ SubmitToDroppedService(r)
  PROVE  NoneSubmitted
<1>1. ASSUME NEW x \in Requests, NEW told \in {"Ok", "QueueFull"}, Answer(x, told)
      PROVE  NoneSubmitted
  BY <1>1 DEF Answer, TypeOK, NoneSubmitted
<1>2. CASE HandleStep
  BY <1>2 DEF HandleStep, CancelAdd, update_block_number, clear_queue, events,
              DropEventStream, handleVars, TypeOK, NoneSubmitted
<1>3. CASE OnMessage
  <2>1. CASE OnAddSimulation
    <3>1. Head(from_handle).request.id \in Requests
      BY <2>1, ReceivedMessage DEF OnAddSimulation, SimulationRequest
    <3> QED
      BY <1>1, <2>1, <3>1 DEF OnAddSimulation
  <2> QED
    BY <1>3, <2>1
    DEF OnMessage, OnUpdateBlockNumber, OnClearQueue, OnAddEventListener, NoneSubmitted
<1>4. CASE DropService
  BY <1>4 DEF DropService, TypeOK, NoneSubmitted
<1>5. CASE \/ BeginPoll \/ MessagesDrained \/ CoopYield \/ OutcomesDrained \/ PopNextReady
           \/ PopBestRequestsDone \/ StartSimulation \/ UNCHANGED vars
           \/ \E s \in simulations : SimulationPending(s) \/ SimulationWakes(s)
           \/ \E s \in simulations, answer \in RelayAnswer : OnSimulationOutcome(s, answer)
  <2>1. UNCHANGED reply
    BY <1>5 DEF BeginPoll, MessagesDrained, CoopYield, OutcomesDrained, PopNextReady,
                PopBestRequestsDone, StartSimulation, vars, SimulationPending, SimulationWakes,
                OnSimulationOutcome, PollSimulation, handleVars
  <2> QED
    BY <2>1 DEF NoneSubmitted
<1> QED
  BY <1>2, <1>3, <1>4, <1>5 DEF Next, PollStep, Wakes

LEMMA StatusStays ==
  ASSUME StatusKnown, StatusKnown', Stay, NoneSubmitted
  PROVE  Status' = Status
<1>1. ASSUME NEW r \in Requests PROVE StatusOf(r)' = StatusOf(r)
  BY DEF StatusKnown, Stay, NoneSubmitted
<1> QED
  BY <1>1 DEF Status

\* A request that moves is the only one whose status changes.
LEMMA OneMoves ==
  ASSUME TypeOK, SlotsInv, StatusKnown, StatusKnown', NEW x \in Requests,
         NEW o, NEW q, NEW p, NEW f, Moves(x, o, q, p, f),
         \A r \in Requests : r # x => (reply'[r] = "none" <=> reply[r] = "none")
  PROVE  Status' = [Status EXCEPT ![x] = StatusOf(x)']
<1>1. ASSUME NEW r \in Requests, r # x PROVE StatusOf(r)' = StatusOf(r)
  <2>1. /\ Offered(r)' = Offered(r) /\ Queued(r)' = Queued(r)
        /\ Popped(r)' = Popped(r) /\ Running(r)' = Running(r)
    <3>1. /\ Offered(r) \in Nat /\ Queued(r) \in Nat /\ Popped(r) \in Nat
          /\ Running(r) \in Nat
      BY PlacesType DEF SlotsInv
    <3> QED
      BY <1>1, <3>1 DEF Moves
  <2> QED
    BY <1>1, <2>1 DEF StatusKnown
<1> QED
  BY <1>1 DEF Status

LEMMA OneOfFour ==
  ASSUME NEW a \in Nat, NEW b \in Nat, NEW c \in Nat, NEW d \in Nat, a + b + c + d <= 1
  PROVE  /\ a # 0 => a = 1 /\ b = 0 /\ c = 0 /\ d = 0
         /\ b # 0 => a = 0 /\ b = 1 /\ c = 0 /\ d = 0
         /\ c # 0 => a = 0 /\ b = 0 /\ c = 1 /\ d = 0
         /\ d # 0 => a = 0 /\ b = 0 /\ c = 0 /\ d = 1
OBVIOUS

\* Where a request is tells its status, and what the others' counts are.
LEMMA OnePlace ==
  ASSUME TypeOK, SlotsInv, PlaceInv, StatusKnown, NEW x \in Requests
  PROVE  /\ InService(x) => reply[x] # "none"
         /\ InChannel(x) => /\ StatusOf(x) = "offered" /\ Offered(x) = 1
                            /\ Queued(x) = 0 /\ Popped(x) = 0 /\ Running(x) = 0
         /\ IsQueued(x) => /\ StatusOf(x) = "queued" /\ Queued(x) = 1
                           /\ Offered(x) = 0 /\ Popped(x) = 0 /\ Running(x) = 0
         /\ IsReady(x) => /\ StatusOf(x) = "queued" /\ Popped(x) = 1
                          /\ Offered(x) = 0 /\ Queued(x) = 0 /\ Running(x) = 0
         /\ InFlight(x) => /\ StatusOf(x) = "running" /\ Running(x) = 1
                           /\ Offered(x) = 0 /\ Queued(x) = 0 /\ Popped(x) = 0
<1>1. /\ Offered(x) \in Nat /\ Queued(x) \in Nat /\ Popped(x) \in Nat /\ Running(x) \in Nat
  BY PlacesType DEF SlotsInv
<1>2. /\ InChannel(x) <=> Offered(x) # 0
      /\ IsQueued(x) <=> Queued(x) # 0
      /\ IsReady(x) <=> Popped(x) # 0
      /\ InFlight(x) <=> Running(x) # 0
  BY PlacesType DEF SlotsInv
<1>3. Offered(x) + Queued(x) + Popped(x) + Running(x) <= 1
  BY DEF PlaceInv, Places
<1>4. /\ Offered(x) # 0 => Offered(x) = 1 /\ Queued(x) = 0 /\ Popped(x) = 0 /\ Running(x) = 0
      /\ Queued(x) # 0 => Offered(x) = 0 /\ Queued(x) = 1 /\ Popped(x) = 0 /\ Running(x) = 0
      /\ Popped(x) # 0 => Offered(x) = 0 /\ Queued(x) = 0 /\ Popped(x) = 1 /\ Running(x) = 0
      /\ Running(x) # 0 => Offered(x) = 0 /\ Queued(x) = 0 /\ Popped(x) = 0 /\ Running(x) = 1
  BY <1>1, <1>3, OneOfFour, Zenon
<1>5. reply[x] = "none" => Offered(x) + Queued(x) + Popped(x) + Running(x) = 0
  BY DEF PlaceInv, Places
<1>6. StatusOf(x) =
        IF reply[x] = "none" THEN "new"
        ELSE IF Offered(x) # 0 THEN "offered"
        ELSE IF Queued(x) # 0 \/ Popped(x) # 0 THEN "queued"
        ELSE IF Running(x) # 0 THEN "running"
        ELSE "done"
  BY DEF StatusKnown
<1>7. ASSUME InChannel(x)
      PROVE  /\ reply[x] # "none" /\ StatusOf(x) = "offered" /\ Offered(x) = 1
             /\ Queued(x) = 0 /\ Popped(x) = 0 /\ Running(x) = 0
  <2>1. Offered(x) # 0
    BY <1>2, <1>7
  <2>2. Offered(x) = 1 /\ Queued(x) = 0 /\ Popped(x) = 0 /\ Running(x) = 0
    BY <1>4, <2>1
  <2> QED
    BY <1>6, <1>5, <2>2
<1>8. ASSUME IsQueued(x)
      PROVE  /\ reply[x] # "none" /\ StatusOf(x) = "queued" /\ Queued(x) = 1
             /\ Offered(x) = 0 /\ Popped(x) = 0 /\ Running(x) = 0
  <2>1. Queued(x) # 0
    BY <1>2, <1>8
  <2>2. Queued(x) = 1 /\ Offered(x) = 0 /\ Popped(x) = 0 /\ Running(x) = 0
    BY <1>4, <2>1
  <2> QED
    BY <1>6, <1>5, <2>2
<1>9. ASSUME IsReady(x)
      PROVE  /\ reply[x] # "none" /\ StatusOf(x) = "queued" /\ Popped(x) = 1
             /\ Offered(x) = 0 /\ Queued(x) = 0 /\ Running(x) = 0
  <2>1. Popped(x) # 0
    BY <1>2, <1>9
  <2>2. Popped(x) = 1 /\ Offered(x) = 0 /\ Queued(x) = 0 /\ Running(x) = 0
    BY <1>4, <2>1
  <2> QED
    BY <1>6, <1>5, <2>2
<1>10. ASSUME InFlight(x)
      PROVE  /\ reply[x] # "none" /\ StatusOf(x) = "running" /\ Running(x) = 1
             /\ Offered(x) = 0 /\ Queued(x) = 0 /\ Popped(x) = 0
  <2>1. Running(x) # 0
    BY <1>2, <1>10
  <2>2. Running(x) = 1 /\ Offered(x) = 0 /\ Queued(x) = 0 /\ Popped(x) = 0
    BY <1>4, <2>1
  <2> QED
    BY <1>6, <1>5, <2>2
<1> QED
  BY <1>7, <1>8, <1>9, <1>10, Zenon DEF InService

LEMMA SubmitRefines ==
  ASSUME TypeOK, SlotsInv, PlaceInv, StatusKnown, StatusKnown', NEW x \in Requests,
         NEW told \in {"Sent", "Awaiting"}, Submit(x, told)
  PROVE  Lifecycle!Offer(x)
<1>1. Moves(x, 1, 0, 0, 0)
  BY SubmitMoves DEF SlotsInv
<1>2. \A r \in Requests : r # x => (reply'[r] = "none" <=> reply[r] = "none")
  BY DEF Submit, TypeOK
<1>3. /\ reply[x] = "none" /\ reply'[x] # "none" /\ alive
      /\ UNCHANGED <<alive, simulator_calls, relay_answers>>
  BY DEF Submit, TypeOK, simVars
<1>4. StatusOf(x) = "new"
  BY <1>3 DEF StatusKnown
<1>5. Offered(x)' # 0
  BY <1>1, PlacesType DEF Moves, SlotsInv
<1>6. StatusOf(x)' = "offered"
  BY <1>3, <1>5 DEF StatusKnown
<1>7. Status' = [Status EXCEPT ![x] = "offered"]
  BY <1>1, <1>2, <1>6, OneMoves
<1> QED
  BY <1>3, <1>4, <1>7 DEF Lifecycle!Offer, Lifecycle!Move, Status

LEMMA RefusalRefines ==
  ASSUME TypeOK, SlotsInv, PlaceInv, StatusKnown, StatusKnown', NEW x \in Requests,
         SubmitToDroppedService(x)
  PROVE  Lifecycle!Refuse(x)
<1>1. Stay
  BY OtherHandleStepsStay DEF SlotsInv
<1>2. \A r \in Requests : r # x => (reply'[r] = "none" <=> reply[r] = "none")
  BY DEF SubmitToDroppedService, TypeOK
<1>3. /\ reply[x] = "none" /\ reply'[x] # "none" /\ ~alive
      /\ UNCHANGED <<alive, simulator_calls, relay_answers>>
  BY DEF SubmitToDroppedService, TypeOK, simVars, taskVars
<1>4. StatusOf(x) = "new"
  BY <1>3 DEF StatusKnown
<1>5. Offered(x)' = 0 /\ Queued(x)' = 0 /\ Popped(x)' = 0 /\ Running(x)' = 0
  <2>1. Places(x) = 0
    BY <1>3 DEF PlaceInv
  <2>2. Offered(x) = 0 /\ Queued(x) = 0 /\ Popped(x) = 0 /\ Running(x) = 0
    BY <2>1, PlacesType DEF Places, SlotsInv
  <2> QED
    BY <1>1, <2>2 DEF Stay
<1>6. StatusOf(x)' = "done"
  BY <1>3, <1>5 DEF StatusKnown
<1>7. Status' = [Status EXCEPT ![x] = "done"]
  <2>1. \A r \in Requests : r # x => StatusOf(r)' = StatusOf(r)
    BY <1>1, <1>2 DEF StatusKnown, Stay
  <2> QED
    BY <1>6, <2>1 DEF Status
<1> QED
  BY <1>3, <1>4, <1>7 DEF Lifecycle!Refuse, Lifecycle!Move, Status

\* What a move makes of the status of the request that moves.
LEMMA MovedStatus ==
  ASSUME TypeOK, SlotsInv, PlaceInv, StatusKnown, StatusKnown', NoneSubmitted,
         NEW x \in Requests, InService(x)
  PROVE  /\ InChannel(x) /\ Moves(x, -1, 1, 0, 0) => Status' = [Status EXCEPT ![x] = "queued"]
         /\ InChannel(x) /\ Moves(x, -1, 0, 0, 0) => Status' = [Status EXCEPT ![x] = "done"]
         /\ IsQueued(x) /\ Moves(x, 0, -1, 1, 0) => Status' = [Status EXCEPT ![x] = "queued"]
         /\ IsQueued(x) /\ Moves(x, 0, -1, 0, 0) => Status' = [Status EXCEPT ![x] = "done"]
         /\ IsReady(x) /\ Moves(x, 0, 0, -1, 1) => Status' = [Status EXCEPT ![x] = "running"]
         /\ InFlight(x) /\ Moves(x, 0, 1, 0, -1) => Status' = [Status EXCEPT ![x] = "queued"]
         /\ InFlight(x) /\ Moves(x, 0, 0, 0, -1) => Status' = [Status EXCEPT ![x] = "done"]
<1>1. \A r \in Requests : r # x => (reply'[r] = "none" <=> reply[r] = "none")
  BY DEF NoneSubmitted
<1>2. reply'[x] # "none"
  BY OnePlace DEF NoneSubmitted
<1>3. StatusOf(x)' =
        IF Offered(x)' # 0 THEN "offered"
        ELSE IF Queued(x)' # 0 \/ Popped(x)' # 0 THEN "queued"
        ELSE IF Running(x)' # 0 THEN "running"
        ELSE "done"
  BY <1>2 DEF StatusKnown
<1>4. ASSUME InChannel(x), NEW q \in {0, 1}, Moves(x, -1, q, 0, 0)
      PROVE  Status' = [Status EXCEPT ![x] = IF q = 1 THEN "queued" ELSE "done"]
  <2>1. Offered(x) = 1 /\ Queued(x) = 0 /\ Popped(x) = 0 /\ Running(x) = 0
    BY <1>4, OnePlace
  <2>2. Offered(x)' = 0 /\ Queued(x)' = q /\ Popped(x)' = 0 /\ Running(x)' = 0
    BY <1>4, <2>1 DEF Moves
  <2>3. StatusOf(x)' = IF q = 1 THEN "queued" ELSE "done"
    BY <1>3, <2>2
  <2> QED
    BY <1>1, <1>4, <2>3, OneMoves
<1>5. ASSUME IsQueued(x), NEW p \in {0, 1}, Moves(x, 0, -1, p, 0)
      PROVE  Status' = [Status EXCEPT ![x] = IF p = 1 THEN "queued" ELSE "done"]
  <2>1. Offered(x) = 0 /\ Queued(x) = 1 /\ Popped(x) = 0 /\ Running(x) = 0
    BY <1>5, OnePlace
  <2>2. Offered(x)' = 0 /\ Queued(x)' = 0 /\ Popped(x)' = p /\ Running(x)' = 0
    BY <1>5, <2>1 DEF Moves
  <2>3. StatusOf(x)' = IF p = 1 THEN "queued" ELSE "done"
    BY <1>3, <2>2
  <2> QED
    BY <1>1, <1>5, <2>3, OneMoves
<1>6. ASSUME IsReady(x), Moves(x, 0, 0, -1, 1)
      PROVE  Status' = [Status EXCEPT ![x] = "running"]
  <2>1. Offered(x) = 0 /\ Queued(x) = 0 /\ Popped(x) = 1 /\ Running(x) = 0
    BY <1>6, OnePlace
  <2>2. Offered(x)' = 0 /\ Queued(x)' = 0 /\ Popped(x)' = 0 /\ Running(x)' = 1
    BY <1>6, <2>1 DEF Moves
  <2>3. StatusOf(x)' = "running"
    BY <1>3, <2>2
  <2> QED
    BY <1>1, <1>6, <2>3, OneMoves
<1>7. ASSUME InFlight(x), NEW q \in {0, 1}, Moves(x, 0, q, 0, -1)
      PROVE  Status' = [Status EXCEPT ![x] = IF q = 1 THEN "queued" ELSE "done"]
  <2>1. Offered(x) = 0 /\ Queued(x) = 0 /\ Popped(x) = 0 /\ Running(x) = 1
    BY <1>7, OnePlace
  <2>2. Offered(x)' = 0 /\ Queued(x)' = q /\ Popped(x)' = 0 /\ Running(x)' = 0
    BY <1>7, <2>1 DEF Moves
  <2>3. StatusOf(x)' = IF q = 1 THEN "queued" ELSE "done"
    BY <1>3, <2>2
  <2> QED
    BY <1>1, <1>7, <2>3, OneMoves
<1> QED
  BY <1>4, <1>5, <1>6, <1>7

\* Whether there is room for the first request of the channel is a matter of its
\* queue, because the same request is not in the channel again.
LEMMA RoomKnown ==
  ASSUME TypeOK, SlotsInv, PlaceInv, OnAddSimulation
  PROVE  RoomFor(Head(from_handle).request) <=> Head(from_handle).request.id \notin NoRoom
<1> DEFINE req == Head(from_handle).request
           x == req.id
           AddsX(i) == from_handle[i].type = "AddSimulation" /\ from_handle[i].request.id = x
<1>1. Receive("AddSimulation") /\ from_handle # <<>> /\ Head(from_handle).type = "AddSimulation"
  BY DEF OnAddSimulation, Receive
<1>2. /\ req \in SimulationRequest /\ x \in Requests
      /\ req.priority \in Priority
  BY <1>1, ReceivedMessage DEF SimulationRequest
<1>3. 1 \in DOMAIN from_handle /\ from_handle[1] = Head(from_handle)
  BY <1>1, EmptySeq, LenProperties DEF TypeOK
<1>4. ASSUME NEW i \in DOMAIN from_handle, AddsX(i) PROVE i = 1
  <2>1. \A j \in DOMAIN from_handle : from_handle[j] \in Message
    BY LenProperties, ElementOfSeq DEF TypeOK
  <2>2. from_handle[1] \in AddOf(x) /\ from_handle[i] \in AddOf(x)
    BY <1>1, <1>3, <1>4, <2>1 DEF AddOf
  <2>3. Count(from_handle, AddOf(x)) <= 1
    <3>1. /\ Offered(x) \in Nat /\ Queued(x) \in Nat
          /\ Popped(x) \in Nat /\ Running(x) \in Nat
      BY <1>2, PlacesType DEF SlotsInv
    <3>2. Places(x) <= 1
      BY <1>2 DEF PlaceInv
    <3> QED
      BY <3>1, <3>2 DEF Places, Offered
  <2> HIDE DEF x
  <2> QED
    BY <1>3, <2>2, <2>3, CountAtMostOne DEF TypeOK
<1>5. x \in NoRoom <=> Full(req.priority)
  <2>1. x \in NoRoom <=>
          \E i \in DOMAIN from_handle : AddsX(i) /\ Full(from_handle[i].request.priority)
    BY <1>2 DEF NoRoom
  <2>2. AddsX(1) /\ from_handle[1].request = req
    BY <1>1, <1>3
  <2> HIDE DEF req, x, AddsX
  <2> QED
    BY <1>3, <1>4, <2>1, <2>2
<1>6. RoomFor(req) <=> ~Full(req.priority)
  <2>1. Len(high_priority_queue) \in Nat /\ Len(normal_priority_queue) \in Nat
    BY LenProperties DEF TypeOK
  <2> QED
    BY <1>2, <2>1, ConfigAssumption
    DEF RoomFor, Full, is_high, Priority, has_high_priority_capacity,
        has_normal_priority_capacity
<1> QED
  BY <1>5, <1>6

LEMMA AddRefines ==
  ASSUME TypeOK, SlotsInv, PlaceInv, StatusKnown, StatusKnown', NoneSubmitted,
         OnAddSimulation
  PROVE  \E x \in Requests : Lifecycle!Accept(x) \/ Lifecycle!Reject(x)
<1>1. PICK x : x = Head(from_handle).request.id
  OBVIOUS
<1>2. /\ x \in Requests /\ InChannel(x)
      /\ \/ Moves(x, -1, 1, 0, 0) /\ x \notin NoRoom
         \/ Moves(x, -1, 0, 0, 0) /\ x \in NoRoom
  BY <1>1, AddMoves, RoomKnown DEF SlotsInv
<1>3. StatusOf(x) = "offered" /\ InService(x)
  BY <1>2, OnePlace DEF InService
<1>4. \/ Status' = [Status EXCEPT ![x] = "queued"] /\ x \notin NoRoom
      \/ Status' = [Status EXCEPT ![x] = "done"] /\ x \in NoRoom
  BY <1>2, <1>3, MovedStatus
<1>5. UNCHANGED <<alive, simulator_calls, relay_answers>>
  BY DEF OnAddSimulation, Receive, simVars
<1> QED
  BY <1>2, <1>3, <1>4, <1>5 DEF Lifecycle!Accept, Lifecycle!Reject, Lifecycle!Move, Status

LEMMA ClearRefines ==
  ASSUME TypeOK, SlotsInv, PlaceInv, StatusKnown, StatusKnown', NoneSubmitted,
         ReadyOnlyInRound, OnClearQueue
  PROVE  Lifecycle!Clear
<1>1. phase = "messages" /\ UNCHANGED <<alive, simulator_calls, relay_answers>>
  BY DEF OnClearQueue, Receive, simVars
<1>4. \E i \in DOMAIN from_handle : from_handle[i].type = "ClearQueue"
  <2>1. from_handle # <<>> /\ Head(from_handle).type = "ClearQueue"
    BY DEF OnClearQueue, Receive
  <2>2. 1 \in DOMAIN from_handle /\ from_handle[1] = Head(from_handle)
    BY <2>1, EmptySeq, LenProperties DEF TypeOK
  <2> QED
    BY <2>1, <2>2
<1>2. ready = <<>>
  BY <1>1 DEF ReadyOnlyInRound
<1>3. ASSUME NEW r \in Requests
      PROVE  StatusOf(r)' = IF StatusOf(r) = "queued" THEN "done" ELSE StatusOf(r)
  <2>1. /\ Offered(r)' = Offered(r) /\ Queued(r)' = 0
        /\ Popped(r)' = Popped(r) /\ Running(r)' = Running(r)
    BY ClearMoves DEF SlotsInv
  <2>2. Popped(r) = 0
    BY <1>2, CountEmpty DEF Popped
  <2>3. Queued(r) # 0 => reply[r] # "none" /\ Offered(r) = 0 /\ Running(r) = 0
    <3>1. Queued(r) # 0 => IsQueued(r)
      BY PlacesType DEF SlotsInv
    <3> QED
      BY <3>1, OnePlace DEF InService
  <2> QED
    BY <2>1, <2>2, <2>3 DEF StatusKnown, NoneSubmitted
<1> QED
  BY <1>1, <1>3, <1>4 DEF Lifecycle!Clear, Status

LEMMA OutcomeRefines ==
  ASSUME TypeOK, SlotsInv, PlaceInv, StatusKnown, StatusKnown', NoneSubmitted, AttemptsInv,
         NEW s \in simulations, NEW answer \in RelayAnswer, OnSimulationOutcome(s, answer)
  PROVE  \E x \in Requests : Lifecycle!Finish(x) \/ Lifecycle!Reschedule(x)
<1>1. PICK x : x = s.request.id
  OBVIOUS
<1> DEFINE last == exceeds_max_retries([s.request EXCEPT !.retries = @ + 1])
<1>2. /\ x \in Requests /\ InFlight(x)
      /\ \/ Moves(x, 0, 0, 0, -1) /\ (~is_nonce_too_low(answer) \/ last)
         \/ Moves(x, 0, 1, 0, -1) /\ is_nonce_too_low(answer) /\ ~last
  BY <1>1, OutcomeMoves DEF SlotsInv
<1>3. StatusOf(x) = "running" /\ InService(x)
  BY <1>2, OnePlace DEF InService
<1>4. /\ UNCHANGED <<alive, simulator_calls>>
      /\ relay_answers' = [relay_answers EXCEPT ![x] = Append(@, Kind(answer))]
  BY <1>1 DEF OnSimulationOutcome, PollSimulation
<1>5. /\ ~last => simulator_calls[x] < max_retries + 1
      /\ last => simulator_calls[x] = max_retries + 1
  <2>1. s.request \in SimulationRequest
    BY DEF TypeOK, Simulation
  <2>2. last <=> s.request.retries + 1 > max_retries
    BY <2>1 DEF exceeds_max_retries, SimulationRequest
  <2>3. simulator_calls[x] = s.request.retries + 1 /\ s.request.retries <= max_retries
    BY <1>1 DEF AttemptsInv, BeingTried
  <2>4. s.request.retries \in Nat
    BY <2>1 DEF SimulationRequest
  <2> QED
    BY <2>2, <2>3, <2>4, ConfigAssumption
<1>6. CASE Moves(x, 0, 0, 0, -1) /\ (~is_nonce_too_low(answer) \/ last)
  <2>1. Status' = [Status EXCEPT ![x] = "done"]
    BY <1>2, <1>3, <1>6, MovedStatus
  <2>2. \/ Lifecycle!Answered(x, "final")
        \/ Lifecycle!Answered(x, "retryable") /\ simulator_calls[x] = max_retries + 1
    BY <1>4, <1>5, <1>6 DEF Lifecycle!Answered, Kind, is_nonce_too_low
  <2> QED
    BY <1>2, <1>3, <1>4, <2>1, <2>2 DEF Lifecycle!Finish, Lifecycle!Move, Status
<1>7. CASE Moves(x, 0, 1, 0, -1) /\ is_nonce_too_low(answer) /\ ~last
  <2>1. Status' = [Status EXCEPT ![x] = "queued"]
    BY <1>2, <1>3, <1>7, MovedStatus
  <2>2. simulator_calls[x] < max_retries + 1 /\ Lifecycle!Answered(x, "retryable")
    BY <1>4, <1>5, <1>7 DEF Lifecycle!Answered, Kind, is_nonce_too_low
  <2> QED
    BY <1>2, <1>3, <1>4, <2>1, <2>2 DEF Lifecycle!Reschedule, Lifecycle!Move, Status
<1> QED
  BY <1>2, <1>6, <1>7

LEMMA PopRefines ==
  ASSUME TypeOK, SlotsInv, PlaceInv, StatusKnown, StatusKnown', NoneSubmitted, PopNextReady
  PROVE  \/ \E x \in Requests : Lifecycle!Expire(x)
         \/ UNCHANGED <<alive, Status, simulator_calls, relay_answers>>
<1>1. PICK x \in Requests :
        /\ IsQueued(x)
        /\ \/ Moves(x, 0, -1, 1, 0)
           \/ /\ Moves(x, 0, -1, 0, 0)
              /\ \E pos \in DOMAIN Waiting :
                   Waiting[pos].id = x /\ exceeds_target_block(Waiting[pos], NextBlock)
  BY PopMoves DEF SlotsInv
<1>2. StatusOf(x) = "queued" /\ InService(x)
  BY <1>1, OnePlace DEF InService
<1>3. UNCHANGED <<alive, simulator_calls, relay_answers>>
  BY DEF PopNextReady, taskVars
<1>4. CASE Moves(x, 0, -1, 1, 0)
  <2>1. Status' = [Status EXCEPT ![x] = "queued"]
    BY <1>1, <1>2, <1>4, MovedStatus
  <2>2. Status' = Status
    BY <1>2, <2>1 DEF Status
  <2> QED
    BY <1>3, <2>2
<1>5. CASE /\ Moves(x, 0, -1, 0, 0)
           /\ \E pos \in DOMAIN Waiting :
                Waiting[pos].id = x /\ exceeds_target_block(Waiting[pos], NextBlock)
  <2>1. Status' = [Status EXCEPT ![x] = "done"]
    BY <1>1, <1>2, <1>5, MovedStatus
  <2>2. x \in Outdated
    BY <1>5 DEF Outdated, exceeds_target_block, NextBlock
  <2> QED
    BY <1>2, <1>3, <2>1, <2>2 DEF Lifecycle!Expire, Lifecycle!Move, Status
<1> QED
  BY <1>1, <1>4, <1>5

LEMMA StartRefines ==
  ASSUME TypeOK, SlotsInv, PlaceInv, StatusKnown, StatusKnown', NoneSubmitted, AttemptsInv,
         StartSimulation
  PROVE  \E x \in Requests : Lifecycle!Start(x)
<1>1. PICK x : x = Head(ready).id
  OBVIOUS
<1>2. x \in Requests /\ IsReady(x) /\ Moves(x, 0, 0, -1, 1)
  BY <1>1, StartMoves DEF SlotsInv, PlaceInv
<1>3. StatusOf(x) = "queued" /\ InService(x)
  BY <1>2, OnePlace DEF InService
<1>4. Status' = [Status EXCEPT ![x] = "running"]
  BY <1>2, <1>3, MovedStatus
<1>5. /\ UNCHANGED <<alive, relay_answers>>
      /\ simulator_calls' = [simulator_calls EXCEPT ![x] = @ + 1]
  BY <1>1 DEF StartSimulation
<1>6. simulator_calls[x] < max_retries + 1
  <2>1. Head(ready) \in ToSet(ready) /\ Head(ready) \in SimulationRequest
    BY ContentsTail, HeadTailProperties DEF StartSimulation, TypeOK
  <2>2. Tried(Head(ready))
    BY <2>1 DEF AttemptsInv
  <2> QED
    BY <1>1, <2>1, <2>2, ConfigAssumption DEF Tried, SimulationRequest
<1> QED
  BY <1>2, <1>3, <1>4, <1>5, <1>6 DEF Lifecycle!Start, Lifecycle!Move, Status

LEMMA DropRefines ==
  ASSUME TypeOK, SlotsInv, PlaceInv, StatusKnown, StatusKnown', NoneSubmitted,
         ReadyOnlyInRound, DropService
  PROVE  Lifecycle!Close
<1>1. /\ phase = "parked" /\ alive /\ alive' = FALSE
      /\ UNCHANGED <<simulator_calls, relay_answers>>
  BY DEF DropService
<1>2. ready = <<>>
  BY <1>1 DEF ReadyOnlyInRound
<1>3. ASSUME NEW r \in Requests
      PROVE  StatusOf(r)' = IF StatusOf(r) = "new" THEN "new" ELSE "done"
  <2>1. Offered(r)' = 0 /\ Queued(r)' = 0 /\ Popped(r)' = Popped(r) /\ Running(r)' = 0
    BY DropMoves
  <2>2. Popped(r) = 0
    BY <1>2, CountEmpty DEF Popped
  <2> QED
    BY <2>1, <2>2 DEF StatusKnown, NoneSubmitted
<1> QED
  BY <1>1, <1>3 DEF Lifecycle!Close, Status

LEMMA LifecycleStep ==
  ASSUME TypeOK, SlotsInv, PlaceInv, RoundInv, AttemptsInv, StatusKnown, StatusKnown',
         [Next]_vars
  PROVE  [Lifecycle!Next]_(Lifecycle!vars)
<1> SUFFICES Lifecycle!Next \/ UNCHANGED <<alive, Status, simulator_calls, relay_answers>>
  BY DEF Lifecycle!vars, Status
<1>1. IsFiniteSet(simulations) /\ (\A r \in Requests : Places(r) <= 1) /\ ReadyOnlyInRound
  BY DEF SlotsInv, PlaceInv, RoundInv
<1>2. CASE \E r \in Requests : \/ send_bundle_simulation(r) \/ add_bundle_simulation(r)
                               \/ SubmitToDroppedService(r)
  BY <1>2, SubmitRefines, RefusalRefines
  DEF send_bundle_simulation, add_bundle_simulation, Lifecycle!Next
<1>3. CASE ~\E r \in Requests : \/ send_bundle_simulation(r) \/ add_bundle_simulation(r)
                                \/ SubmitToDroppedService(r)
  <2>1. NoneSubmitted
    BY <1>3, NobodySubmits
  <2>2. CASE OnAddSimulation
    BY <2>1, <2>2, AddRefines DEF Lifecycle!Next
  <2>3. CASE OnClearQueue
    BY <1>1, <2>1, <2>3, ClearRefines DEF Lifecycle!Next
  <2>4. ASSUME NEW s \in simulations, NEW answer \in RelayAnswer, OnSimulationOutcome(s, answer)
        PROVE  Lifecycle!Next
    BY <2>1, <2>4, OutcomeRefines DEF Lifecycle!Next
  <2>5. CASE PopNextReady
    BY <2>1, <2>5, PopRefines DEF Lifecycle!Next
  <2>6. CASE StartSimulation
    BY <2>1, <2>6, StartRefines DEF Lifecycle!Next
  <2>7. CASE DropService
    BY <1>1, <2>1, <2>7, DropRefines DEF Lifecycle!Next
  <2>8. CASE \/ \E r \in Requests : CancelAdd(r)
             \/ \E num \in BlockNumbers : update_block_number(num)
             \/ clear_queue
             \/ \E l \in Listeners : events(l) \/ DropEventStream(l)
    <3>1. Stay
      BY <1>1, <2>8, OtherHandleStepsStay
    <3>2. UNCHANGED <<alive, simulator_calls, relay_answers>>
      BY <2>8 DEF CancelAdd, update_block_number, clear_queue, events, DropEventStream,
                  taskVars, simVars
    <3> QED
      BY <2>1, <3>1, <3>2, StatusStays
  <2>9. CASE OnUpdateBlockNumber \/ OnAddEventListener
    <3>1. Stay
      BY <1>1, <2>9, OtherMessagesStay
    <3>2. UNCHANGED <<alive, simulator_calls, relay_answers>>
      BY <2>9 DEF OnUpdateBlockNumber, OnAddEventListener, Receive, simVars
    <3> QED
      BY <2>1, <3>1, <3>2, StatusStays
  <2>10. ASSUME NEW s \in simulations, SimulationPending(s) \/ SimulationWakes(s)
         PROVE  UNCHANGED <<alive, Status, simulator_calls, relay_answers>>
    <3>1. Stay
      BY <1>1, <2>10, FutureStays
    <3>2. UNCHANGED <<alive, simulator_calls, relay_answers>>
      BY <2>10 DEF SimulationPending, PollSimulation, SimulationWakes
    <3> QED
      BY <2>1, <3>1, <3>2, StatusStays
  <2>11. CASE \/ BeginPoll \/ MessagesDrained \/ CoopYield \/ OutcomesDrained
              \/ PopBestRequestsDone \/ UNCHANGED vars
    <3>1. Stay
      BY <2>11, TaskStays
    <3>2. UNCHANGED <<alive, simulator_calls, relay_answers>>
      BY <2>11 DEF BeginPoll, MessagesDrained, CoopYield, OutcomesDrained, PopBestRequestsDone,
                   vars, taskVars, simVars
    <3> QED
      BY <2>1, <3>1, <3>2, StatusStays
  <2> QED
    BY <1>3, <2>2, <2>3, <2>4, <2>5, <2>6, <2>7, <2>8, <2>9, <2>10, <2>11
    DEF Next, PollStep, OnMessage, HandleStep, Wakes
<1> QED
  BY <1>2, <1>3

\* The service implements its lifecycle: seen from the outside, the channel, the two
\* queues, the slots and the retries are a bundle that is offered, queued or rejected
\* by a full queue, simulated at most max_retries + 1 times and by one simulation at a
\* time, again only when the relay asked for it, and done for a reason and for good.
THEOREM ImplementsLifecycle == Spec => LifecycleImplemented
<1>1. TypeOK /\ SlotsInv /\ PlaceInv => StatusKnown
  BY StatusCounted
<1>2. Init /\ StatusKnown => Lifecycle!Init
  <2> SUFFICES ASSUME Init, StatusKnown PROVE Lifecycle!Init
    OBVIOUS
  <2>1. Status = [r \in Requests |-> "new"]
    BY DEF Init, StatusKnown, Status
  <2> QED
    BY <2>1 DEF Init, Lifecycle!Init, Status
<1>3. /\ TypeOK /\ SlotsInv /\ PlaceInv /\ RoundInv /\ AttemptsInv
      /\ StatusKnown /\ StatusKnown' /\ [Next]_vars
      => [Lifecycle!Next]_(Lifecycle!vars)
  BY LifecycleStep
<1> QED
  BY <1>1, <1>2, <1>3, TypeCorrect, SlotsAlways, PlacesAlways, RoundAlways, AttemptsAlways,
     PTL DEF Spec, LifecycleImplemented, Lifecycle!Spec
=============================================================================
