----------------------- MODULE BundleSimulatorProofs -----------------------
(***************************************************************************)
(* Theorems about BundleSimulatorService.  They hold for every value of the *)
(* constants that satisfies ConfigAssumption and InputAssumption.           *)
(***************************************************************************)
EXTENDS BundleSimulatorService, SequenceTheorems, FiniteSetTheorems, TLAPS
-----------------------------------------------------------------------------
(* What the building blocks of the actions return.                         *)

LEMMA RemoveAtProperties ==
  ASSUME NEW S, NEW s \in Seq(S), NEW i \in 1 .. Len(s)
  PROVE  /\ RemoveAt(s, i) \in Seq(S)
         /\ Len(RemoveAt(s, i)) = Len(s) - 1
         /\ \A j \in 1 .. Len(s) - 1 :
              RemoveAt(s, i)[j] = IF j < i THEN s[j] ELSE s[j + 1]
<1> DEFINE front == SubSeq(s, 1, i - 1)
           back  == SubSeq(s, i + 1, Len(s))
<1>1. Len(s) \in Nat /\ i \in Nat /\ 1 <= i /\ i <= Len(s)
  BY LenProperties
<1>2. /\ front \in Seq(S) /\ Len(front) = i - 1
      /\ \A j \in 1 .. i - 1 : front[j] = s[j]
  BY <1>1
<1>3. /\ back \in Seq(S) /\ Len(back) = Len(s) - i
      /\ \A j \in 1 .. Len(s) - i : back[j] = s[j + i]
  BY <1>1
<1>4. /\ front \o back \in Seq(S)
      /\ Len(front \o back) = Len(front) + Len(back)
      /\ \A j \in 1 .. Len(front) + Len(back) : (front \o back)[j] =
                  IF j <= Len(front) THEN front[j] ELSE back[j - Len(front)]
  BY <1>2, <1>3, ConcatProperties
<1> HIDE DEF front, back
<1>5. ASSUME NEW j \in 1 .. Len(s) - 1
      PROVE  (front \o back)[j] = IF j < i THEN s[j] ELSE s[j + 1]
  <2>1. CASE j < i
    BY <1>1, <1>2, <1>3, <1>4, <2>1
  <2>2. CASE j >= i
    <3>1. PICK k \in 1 .. Len(s) - i : j = k + (i - 1)
      <4>1. j - (i - 1) \in 1 .. Len(s) - i /\ j = (j - (i - 1)) + (i - 1)
        BY <1>1, <2>2
      <4> QED
        BY <4>1
    <3>4. j - Len(front) = k /\ k + i = j + 1 /\ ~(j <= Len(front)) /\ ~(j < i)
      BY <1>1, <1>2, <2>2, <3>1
    <3>5. j \in 1 .. Len(front) + Len(back)
      BY <1>1, <1>2, <1>3
    <3>2. (front \o back)[j] = back[j - Len(front)]
      BY <1>4, <3>4, <3>5
    <3>3. back[k] = s[k + i]
      BY <1>3
    <3>6. (front \o back)[j] = s[j + 1]
      BY <3>2, <3>3, <3>4, Zenon
    <3> QED
      BY <3>4, <3>6, Zenon
  <2>3. j < i \/ j >= i
    BY <1>1
  <2> QED
    BY <2>1, <2>2, <2>3, Zenon
<1>6. RemoveAt(s, i) = front \o back
  BY DEF RemoveAt, front, back
<1>7. Len(front \o back) = Len(s) - 1
  BY <1>1, <1>2, <1>3, <1>4
<1> QED
  BY <1>4, <1>5, <1>6, <1>7

LEMMA SendType ==
  ASSUME TypeOK, NEW msg \in Message, Send(msg)
  PROVE  from_handle' \in Seq(Message) /\ notified' \in BOOLEAN /\ rx_waker' \in BOOLEAN
BY AppendProperties DEF TypeOK, Send

LEMMA NotifyType ==
  ASSUME TypeOK, NEW event \in SimulationEvent, Notify(event)
  PROVE  /\ listeners' \in SUBSET Listeners
         /\ mailbox' \in [Listeners -> Seq(SimulationEvent)]
BY DEF TypeOK, Notify

LEMMA PushBackType ==
  ASSUME TypeOK, NEW req \in SimulationRequest, PushBack(req)
  PROVE  /\ high_priority_queue' \in Seq(SimulationRequest)
         /\ normal_priority_queue' \in Seq(SimulationRequest)
<1>1. Append(high_priority_queue, req) \in Seq(SimulationRequest)
  BY DEF TypeOK
<1>2. Append(normal_priority_queue, req) \in Seq(SimulationRequest)
  BY DEF TypeOK
<1> QED
  BY <1>1, <1>2 DEF TypeOK, PushBack

LEMMA AnswerType ==
  ASSUME TypeOK, NEW r \in Requests, NEW verdict \in Reply, Answer(r, verdict)
  PROVE  reply' \in [Requests -> Reply]
BY DEF TypeOK, Answer

LEMMA WaitingProperties ==
  ASSUME TypeOK
  PROVE  /\ Waiting \in Seq(SimulationRequest)
         /\ DOMAIN Waiting = 1 .. Len(high_priority_queue) + Len(normal_priority_queue)
         /\ \A pos \in DOMAIN Waiting :
              Waiting[pos] = IF pos <= Len(high_priority_queue)
                             THEN high_priority_queue[pos]
                             ELSE normal_priority_queue[pos - Len(high_priority_queue)]
BY ConcatProperties DEF TypeOK, Waiting

LEMMA DequeueType ==
  ASSUME TypeOK, NEW pos \in DOMAIN Waiting, Dequeue(pos)
  PROVE  /\ high_priority_queue' \in Seq(SimulationRequest)
         /\ normal_priority_queue' \in Seq(SimulationRequest)
<1>1. pos \in 1 .. Len(high_priority_queue) + Len(normal_priority_queue)
  BY WaitingProperties
<1>2. CASE pos <= Len(high_priority_queue)
  BY <1>1, <1>2, RemoveAtProperties DEF TypeOK, Dequeue
<1>3. CASE pos > Len(high_priority_queue)
  <2>1. pos - Len(high_priority_queue) \in 1 .. Len(normal_priority_queue)
    BY <1>1, <1>3 DEF TypeOK
  <2> QED
    BY <1>1, <1>3, <2>1, RemoveAtProperties DEF TypeOK, Dequeue
<1> QED
  BY <1>1, <1>2, <1>3 DEF TypeOK

\* A message is what its type says.
LEMMA ReceivedMessage ==
  ASSUME TypeOK, NEW type, Receive(type)
  PROVE  /\ from_handle' \in Seq(Message)
         /\ type = "AddSimulation" => Head(from_handle).request \in SimulationRequest
         /\ type = "UpdateBlockNumber" => Head(from_handle).num \in Nat
         /\ type = "AddEventListener" => Head(from_handle).tx \in Listeners
<1>1. from_handle # <<>> /\ Head(from_handle).type = type /\ from_handle' = Tail(from_handle)
  BY DEF Receive
<1>2. Head(from_handle) \in Message /\ Tail(from_handle) \in Seq(Message)
  BY <1>1 DEF TypeOK
<1> QED
  BY <1>1, <1>2 DEF Message
-----------------------------------------------------------------------------
(* Type correctness, one step per action.                                  *)

LEMMA InitType == Init => TypeOK
<1> SUFFICES ASSUME Init PROVE TypeOK
  OBVIOUS
<1>1. /\ from_handle \in Seq(Message)
      /\ high_priority_queue \in Seq(SimulationRequest)
      /\ normal_priority_queue \in Seq(SimulationRequest)
      /\ ready \in Seq(SimulationRequest)
  BY DEF Init
<1>2. mailbox \in [Listeners -> Seq(SimulationEvent)]
  BY DEF Init
<1>3. /\ reply \in [Requests -> Reply]
      /\ heard_by \in [Requests -> SUBSET Listeners]
      /\ simulator_calls \in [Requests -> Nat]
      /\ receiver \in [Listeners -> {"none", "open", "closed"}]
  BY DEF Init, Reply
<1>4. /\ simulations \in SUBSET Simulation
      /\ listeners \in SUBSET Listeners
      /\ current_block_number \in Nat
  BY InputAssumption DEF Init
<1>5. relay_answers \in [Requests -> Seq({"retryable", "final"})]
  BY DEF Init
<1> QED
  BY <1>1, <1>2, <1>3, <1>4, <1>5 DEF Init, TypeOK

LEMMA HandleType ==
  ASSUME TypeOK, HandleStep
  PROVE  TypeOK'
<1> USE DEF handleVars, taskVars, queueVars, simVars, innerVars, listenerVars
<1>1. ASSUME NEW r \in Requests, NEW told \in {"Sent", "Awaiting"}, Submit(r, told)
      PROVE  TypeOK'
  <2>1. PICK prio \in Priority, inclusion \in Inclusions :
          Send([type |-> "AddSimulation", request |-> NewRequest(r, prio, inclusion)])
    BY <1>1 DEF Submit
  <2>2. NewRequest(r, prio, inclusion) \in SimulationRequest
    BY InputAssumption DEF NewRequest, SimulationRequest
  <2>3. from_handle' \in Seq(Message) /\ notified' \in BOOLEAN /\ rx_waker' \in BOOLEAN
    BY <2>1, <2>2, SendType DEF Message
  <2> QED
    BY <1>1, <2>3 DEF Submit, TypeOK, Reply
<1>2. ASSUME NEW r \in Requests, SubmitToDroppedService(r) PROVE TypeOK'
  BY <1>2 DEF SubmitToDroppedService, TypeOK, Reply
<1>3. ASSUME NEW r \in Requests, CancelAdd(r) PROVE TypeOK'
  BY <1>3 DEF CancelAdd, TypeOK, Reply
<1>4. ASSUME NEW num \in BlockNumbers, update_block_number(num) PROVE TypeOK'
  <2>1. from_handle' \in Seq(Message) /\ notified' \in BOOLEAN /\ rx_waker' \in BOOLEAN
    BY <1>4, SendType, InputAssumption DEF update_block_number, Message
  <2> QED
    BY <1>4, <2>1 DEF update_block_number, TypeOK
<1>5. ASSUME clear_queue PROVE TypeOK'
  <2>1. from_handle' \in Seq(Message) /\ notified' \in BOOLEAN /\ rx_waker' \in BOOLEAN
    BY <1>5, SendType DEF clear_queue, Message
  <2> QED
    BY <1>5, <2>1 DEF clear_queue, TypeOK
<1>6. ASSUME NEW l \in Listeners, events(l) PROVE TypeOK'
  <2>1. from_handle' \in Seq(Message) /\ notified' \in BOOLEAN /\ rx_waker' \in BOOLEAN
    BY <1>6, SendType DEF events, Message
  <2> QED
    BY <1>6, <2>1 DEF events, TypeOK
<1>7. ASSUME NEW l \in Listeners, DropEventStream(l) PROVE TypeOK'
  BY <1>7 DEF DropEventStream, TypeOK
<1> QED
  BY <1>1, <1>2, <1>3, <1>4, <1>5, <1>6, <1>7
  DEF HandleStep, send_bundle_simulation, add_bundle_simulation

LEMMA MessageType ==
  ASSUME TypeOK, OnMessage
  PROVE  TypeOK'
<1> USE DEF handleVars, taskVars, queueVars, simVars, innerVars, listenerVars
<1>1. CASE OnUpdateBlockNumber
  <2>1. Head(from_handle).num \in Nat /\ from_handle' \in Seq(Message)
    BY <1>1, ReceivedMessage DEF OnUpdateBlockNumber
  <2>2. CASE UNCHANGED <<current_block_number, listenerVars>>
    BY <1>1, <2>1, <2>2 DEF OnUpdateBlockNumber, Receive, TypeOK
  <2>3. CASE /\ current_block_number' = Head(from_handle).num
             /\ Notify([type |-> "BlockNumberUpdated", old |-> current_block_number,
                        current |-> current_block_number])
    <3>1. /\ listeners' \in SUBSET Listeners
          /\ mailbox' \in [Listeners -> Seq(SimulationEvent)]
      BY <2>3, NotifyType DEF TypeOK, SimulationEvent
    <3> QED
      BY <1>1, <2>1, <2>3, <3>1 DEF OnUpdateBlockNumber, Receive, TypeOK
  <2> QED
    BY <1>1, <2>2, <2>3 DEF OnUpdateBlockNumber
<1>2. CASE OnClearQueue
  BY <1>2, ReceivedMessage DEF OnClearQueue, Receive, TypeOK
<1>3. CASE OnAddEventListener
  BY <1>3, ReceivedMessage DEF OnAddEventListener, Receive, TypeOK
<1>4. CASE OnAddSimulation
  <2> DEFINE req == Head(from_handle).request
  <2>1. req \in SimulationRequest /\ from_handle' \in Seq(Message)
    BY <1>4, ReceivedMessage DEF OnAddSimulation
  <2>2. req.id \in Requests
    BY <2>1 DEF SimulationRequest
  <2>3. /\ high_priority_queue' \in Seq(SimulationRequest)
        /\ normal_priority_queue' \in Seq(SimulationRequest)
    <3>1. PushBack(req) \/ UNCHANGED queueVars
      BY <1>4 DEF OnAddSimulation
    <3> QED
      BY <2>1, <3>1, PushBackType DEF TypeOK
  <2>4. reply' \in [Requests -> Reply]
    <3>1. Answer(req.id, "Ok") \/ Answer(req.id, "QueueFull")
      BY <1>4 DEF OnAddSimulation
    <3> QED
      BY <2>2, <3>1, AnswerType DEF Reply
  <2> QED
    BY <1>4, <2>1, <2>3, <2>4 DEF OnAddSimulation, Receive, TypeOK
<1> QED
  BY <1>1, <1>2, <1>3, <1>4 DEF OnMessage

LEMMA OutcomeType ==
  ASSUME TypeOK, NEW s \in simulations, NEW answer \in RelayAnswer,
         OnSimulationOutcome(s, answer)
  PROVE  TypeOK'
<1> USE DEF handleVars, taskVars, queueVars, simVars, innerVars, listenerVars
<1>1. s.request \in SimulationRequest
  BY DEF TypeOK, Simulation
<1>2. s.request.id \in Requests /\ s.request.retries \in Nat
  BY <1>1 DEF SimulationRequest
<1>3. OnSuccess(s) \/ OnFatal(s) \/ OnReschedule(s)
  BY DEF OnSimulationOutcome
<1>4. /\ high_priority_queue' \in Seq(SimulationRequest)
      /\ normal_priority_queue' \in Seq(SimulationRequest)
      /\ listeners' \in SUBSET Listeners
      /\ mailbox' \in [Listeners -> Seq(SimulationEvent)]
  <2>1. CASE OnSuccess(s)
    BY <1>2, <2>1, NotifyType DEF OnSuccess, SimulationEvent, TypeOK
  <2>2. CASE OnFatal(s)
    BY <1>2, <2>2, NotifyType DEF OnFatal, SimulationEvent, TypeOK
  <2>3. CASE OnReschedule(s)
    <3> DEFINE sim == [s.request EXCEPT !.retries = @ + 1]
    <3>1. sim \in SimulationRequest /\ sim.id \in Requests
      BY <1>1, <1>2 DEF SimulationRequest
    <3>2. CASE Notify([type |-> "ExceededMaxRetries", id |-> sim.id]) /\ UNCHANGED queueVars
      BY <3>1, <3>2, NotifyType DEF SimulationEvent, TypeOK
    <3>3. CASE PushBack(sim) /\ UNCHANGED listenerVars
      BY <3>1, <3>3, PushBackType DEF TypeOK
    <3> QED
      BY <2>3, <3>2, <3>3 DEF OnReschedule
  <2> QED
    BY <1>3, <2>1, <2>2, <2>3
<1>5. simulations' \in SUBSET Simulation
  BY DEF OnSimulationOutcome, TypeOK
<1>6. relay_answers' \in [Requests -> Seq({"retryable", "final"})]
  <2>1. /\ relay_answers[s.request.id] \in Seq({"retryable", "final"})
        /\ Kind(answer) \in {"retryable", "final"}
    BY <1>2 DEF TypeOK, Kind
  <2>2. Append(relay_answers[s.request.id], Kind(answer)) \in Seq({"retryable", "final"})
    BY <2>1, AppendProperties
  <2> QED
    BY <1>2, <2>2 DEF OnSimulationOutcome, TypeOK
<1> QED
  BY <1>4, <1>5, <1>6 DEF OnSimulationOutcome, PollSimulation, TypeOK

LEMMA PopType ==
  ASSUME TypeOK, PopNextReady
  PROVE  TypeOK'
<1> USE DEF handleVars, taskVars, queueVars, simVars, innerVars, listenerVars
<1>1. PICK pos \in DOMAIN Waiting :
        /\ Dequeue(pos)
        /\ \/ /\ Notify([type |-> "OutdatedRequest", id |-> Waiting[pos].id,
                         inclusion |-> Waiting[pos].inclusion, next_block |-> NextBlock])
              /\ UNCHANGED ready
           \/ /\ ready' = Append(ready, Waiting[pos])
              /\ UNCHANGED listenerVars
  BY DEF PopNextReady
<1>2. Waiting[pos] \in SimulationRequest
  BY WaitingProperties, ElementOfSeq
<1>3. /\ high_priority_queue' \in Seq(SimulationRequest)
      /\ normal_priority_queue' \in Seq(SimulationRequest)
  BY <1>1, DequeueType
<1>4. /\ ready' \in Seq(SimulationRequest)
      /\ listeners' \in SUBSET Listeners
      /\ mailbox' \in [Listeners -> Seq(SimulationEvent)]
  <2>1. [type |-> "OutdatedRequest", id |-> Waiting[pos].id,
         inclusion |-> Waiting[pos].inclusion, next_block |-> NextBlock] \in SimulationEvent
    <3>1. Waiting[pos].id \in Requests /\ Waiting[pos].inclusion \in Window
      BY <1>2 DEF SimulationRequest
    <3>2. NextBlock \in Nat
      BY DEF NextBlock, TypeOK
    <3> QED
      BY <3>1, <3>2 DEF SimulationEvent
  <2> QED
    <3>1. Append(ready, Waiting[pos]) \in Seq(SimulationRequest)
      BY <1>2 DEF TypeOK
    <3> HIDE DEF listenerVars
    <3>2. \/ listeners' \in SUBSET Listeners /\ mailbox' \in [Listeners -> Seq(SimulationEvent)]
          \/ UNCHANGED listenerVars
      BY <1>1, <2>1, NotifyType
    <3>3. ready' = ready \/ ready' = Append(ready, Waiting[pos])
      BY <1>1
    <3> QED
      BY <3>1, <3>2, <3>3 DEF TypeOK, listenerVars
<1> QED
  BY <1>3, <1>4 DEF PopNextReady, TypeOK

LEMMA StartType ==
  ASSUME TypeOK, StartSimulation
  PROVE  TypeOK'
<1> USE DEF handleVars, taskVars, queueVars, simVars, innerVars, listenerVars
<1>1. Head(ready) \in SimulationRequest /\ ready' \in Seq(SimulationRequest)
  BY HeadTailProperties DEF StartSimulation, TypeOK
<1>2. Head(ready).id \in Requests
  BY <1>1 DEF SimulationRequest
<1>3. simulations' \in SUBSET Simulation
  BY <1>1 DEF StartSimulation, TypeOK, Simulation
<1>4. simulator_calls' \in [Requests -> Nat]
  BY <1>2 DEF StartSimulation, TypeOK
<1>5. phase' \in {"messages", "starting"}
  BY DEF StartSimulation, PhaseAfterStart
<1> QED
  BY <1>1, <1>3, <1>4, <1>5 DEF StartSimulation, TypeOK

LEMMA TaskType ==
  ASSUME TypeOK, BeginPoll \/ MessagesDrained \/ CoopYield \/ OutcomesDrained
                   \/ PopBestRequestsDone \/ DropService
  PROVE  TypeOK'
<1> USE DEF handleVars, taskVars, queueVars, simVars, innerVars, listenerVars
<1>1. CASE BeginPoll
  BY <1>1 DEF BeginPoll, TypeOK
<1>2. CASE MessagesDrained
  BY <1>2 DEF MessagesDrained, TypeOK
<1>3. CASE CoopYield
  BY <1>3 DEF CoopYield, TypeOK
<1>4. CASE OutcomesDrained
  BY <1>4 DEF OutcomesDrained, TypeOK
<1>5. CASE PopBestRequestsDone
  BY <1>5 DEF PopBestRequestsDone, TypeOK
<1>6. CASE DropService
  <2>1. reply' \in [Requests -> Reply]
    BY <1>6 DEF DropService, TypeOK, Reply
  <2>2. /\ from_handle' \in Seq(Message)
        /\ high_priority_queue' \in Seq(SimulationRequest)
        /\ normal_priority_queue' \in Seq(SimulationRequest)
        /\ simulations' \in SUBSET Simulation
        /\ listeners' \in SUBSET Listeners
    BY <1>6 DEF DropService
  <2> QED
    BY <1>6, <2>1, <2>2 DEF DropService, TypeOK
<1> QED
  BY <1>1, <1>2, <1>3, <1>4, <1>5, <1>6

LEMMA FutureType ==
  ASSUME TypeOK, NEW s \in simulations, SimulationPending(s) \/ SimulationWakes(s)
  PROVE  TypeOK'
<1> USE DEF handleVars, taskVars, queueVars, simVars, innerVars, listenerVars
<1>1. simulations' \in SUBSET Simulation
  <2>1. \A p \in {"pending", "woken"} : [s EXCEPT !.poll = p] \in Simulation
    BY DEF TypeOK, Simulation
  <2>2. \E p \in {"pending", "woken"} :
          simulations' = (simulations \ {s}) \cup {[s EXCEPT !.poll = p]}
    BY DEF SimulationPending, SimulationWakes
  <2> QED
    BY <2>1, <2>2 DEF TypeOK
<1> QED
  BY <1>1 DEF SimulationPending, PollSimulation, SimulationWakes, TypeOK

LEMMA NextType ==
  ASSUME TypeOK, [Next]_vars
  PROVE  TypeOK'
<1>1. CASE HandleStep
  BY <1>1, HandleType
<1>2. CASE PollStep
  BY <1>2, MessageType, OutcomeType, PopType, StartType, TaskType, FutureType DEF PollStep
<1>3. CASE \E r \in Requests : Wakes(r)
  BY <1>3, FutureType DEF Wakes
<1>4. CASE DropService
  BY <1>4, TaskType
<1>5. CASE UNCHANGED vars
  BY <1>5 DEF vars, handleVars, taskVars, queueVars, simVars, innerVars, listenerVars, TypeOK
<1> QED
  BY <1>1, <1>2, <1>3, <1>4, <1>5 DEF Next

\* Whatever the handles, the simulator and the runtime do, every variable of the
\* service keeps its type.
THEOREM TypeCorrect == Spec => []TypeOK
<1>1. Init => TypeOK
  BY InitType
<1>2. TypeOK /\ [Next]_vars => TypeOK'
  BY NextType
<1> QED
  BY <1>1, <1>2, PTL DEF Spec
-----------------------------------------------------------------------------
(* The concurrency bound.  Cardinality is only meaningful for finite sets,  *)
(* so finiteness is part of the inductive invariant.                        *)

SlotsInv == IsFiniteSet(simulations) /\ ConcurrencyBound

\* All that a step can do to the slots.
SlotsChange ==
  \/ UNCHANGED <<simulations, ready>>
  \/ \E s \in simulations, t \in Simulation :
       simulations' = (simulations \ {s}) \cup {t} /\ UNCHANGED ready
  \/ \E s \in simulations : simulations' = simulations \ {s} /\ UNCHANGED ready
  \/ \E req \in SimulationRequest :
       /\ Len(ready) # Capacity
       /\ ready' = Append(ready, req)
       /\ UNCHANGED simulations
  \/ \E s \in Simulation :
       /\ ready # <<>>
       /\ ready' = Tail(ready)
       /\ simulations' = simulations \cup {s}
  \/ simulations' = {} /\ UNCHANGED ready

LEMMA PopSlots ==
  ASSUME TypeOK, PopNextReady
  PROVE  SlotsChange
<1>1. PICK pos \in DOMAIN Waiting : UNCHANGED ready \/ ready' = Append(ready, Waiting[pos])
  BY DEF PopNextReady
<1>2. Waiting[pos] \in SimulationRequest
  BY WaitingProperties, ElementOfSeq
<1> QED
  BY <1>1, <1>2 DEF PopNextReady, SlotsChange

LEMMA FutureSlots ==
  ASSUME TypeOK, NEW s \in simulations, SimulationPending(s) \/ SimulationWakes(s)
  PROVE  SlotsChange
<1>1. \A p \in {"pending", "woken"} : [s EXCEPT !.poll = p] \in Simulation
  BY DEF TypeOK, Simulation
<1>2. \E p \in {"pending", "woken"} :
        simulations' = (simulations \ {s}) \cup {[s EXCEPT !.poll = p]}
  BY DEF SimulationPending, SimulationWakes
<1>3. UNCHANGED ready
  BY DEF SimulationPending, PollSimulation, SimulationWakes
<1> QED
  BY <1>1, <1>2, <1>3 DEF SlotsChange

LEMMA StartSlots ==
  ASSUME TypeOK, StartSimulation
  PROVE  SlotsChange
<1>1. Head(ready) \in SimulationRequest
  BY DEF StartSimulation, TypeOK
<1>2. [request |-> Head(ready), poll |-> "unpolled"] \in Simulation
  BY <1>1 DEF Simulation
<1> QED
  BY <1>2 DEF StartSimulation, SlotsChange

LEMMA NextSlots ==
  ASSUME TypeOK, [Next]_vars
  PROVE  SlotsChange
<1> USE DEF simVars
<1>1. CASE HandleStep
  BY <1>1 DEF HandleStep, send_bundle_simulation, add_bundle_simulation, Submit,
              SubmitToDroppedService, CancelAdd, update_block_number, clear_queue, events,
              DropEventStream, SlotsChange
<1>2. CASE OnMessage
  BY <1>2 DEF OnMessage, OnUpdateBlockNumber, OnClearQueue, OnAddEventListener,
              OnAddSimulation, Receive, SlotsChange
<1>3. CASE BeginPoll \/ MessagesDrained \/ CoopYield \/ OutcomesDrained
             \/ PopBestRequestsDone \/ DropService
  BY <1>3 DEF BeginPoll, MessagesDrained, CoopYield, OutcomesDrained,
              PopBestRequestsDone, DropService, SlotsChange
<1>4. ASSUME NEW s \in simulations, NEW answer \in RelayAnswer,
             OnSimulationOutcome(s, answer)
      PROVE  SlotsChange
  BY <1>4 DEF OnSimulationOutcome, PollSimulation, SlotsChange
<1>5. CASE UNCHANGED vars
  BY <1>5 DEF vars, SlotsChange
<1> QED
  BY <1>1, <1>2, <1>3, <1>4, <1>5, PopSlots, FutureSlots, StartSlots
  DEF Next, PollStep, Wakes

LEMMA SlotsInductive ==
  ASSUME TypeOK, SlotsInv, SlotsChange
  PROVE  SlotsInv'
<1>1. /\ Cardinality(simulations) \in Nat
      /\ Len(ready) \in Nat
      /\ max_concurrent_simulations \in Nat
      /\ Cardinality(simulations) + Len(ready) <= max_concurrent_simulations
  BY FS_CardinalityType, ConfigAssumption DEF SlotsInv, ConcurrencyBound, TypeOK
<1>2. SUFFICES /\ IsFiniteSet(simulations')
               /\ Cardinality(simulations') + Len(ready') <= max_concurrent_simulations
  BY DEF SlotsInv, ConcurrencyBound
<1>3. CASE UNCHANGED <<simulations, ready>>
  BY <1>3 DEF SlotsInv, ConcurrencyBound
<1>4. ASSUME NEW s \in simulations, NEW t \in Simulation,
             simulations' = (simulations \ {s}) \cup {t}, UNCHANGED ready
      PROVE  /\ IsFiniteSet(simulations')
             /\ Cardinality(simulations') + Len(ready') <= max_concurrent_simulations
  <2>1. /\ IsFiniteSet(simulations \ {s})
        /\ Cardinality(simulations \ {s}) = Cardinality(simulations) - 1
    BY FS_RemoveElement DEF SlotsInv
  <2>2. /\ IsFiniteSet(simulations')
        /\ \/ Cardinality(simulations') = Cardinality(simulations \ {s})
           \/ Cardinality(simulations') = Cardinality(simulations \ {s}) + 1
    BY <1>4, <2>1, FS_AddElement
  <2> QED
    BY <1>1, <1>4, <2>1, <2>2
<1>5. ASSUME NEW s \in simulations, simulations' = simulations \ {s}, UNCHANGED ready
      PROVE  /\ IsFiniteSet(simulations')
             /\ Cardinality(simulations') + Len(ready') <= max_concurrent_simulations
  <2>1. IsFiniteSet(simulations') /\ Cardinality(simulations') = Cardinality(simulations) - 1
    BY <1>5, FS_RemoveElement DEF SlotsInv
  <2> QED
    BY <1>1, <1>5, <2>1
<1>6. ASSUME NEW req \in SimulationRequest, Len(ready) # Capacity,
             ready' = Append(ready, req), UNCHANGED simulations
      PROVE  /\ IsFiniteSet(simulations')
             /\ Cardinality(simulations') + Len(ready') <= max_concurrent_simulations
  <2>1. Len(ready') = Len(ready) + 1
    BY <1>6 DEF TypeOK
  <2>2. Cardinality(simulations) + Len(ready) # max_concurrent_simulations
    BY <1>1, <1>6 DEF Capacity
  <2> QED
    BY <1>1, <1>6, <2>1, <2>2 DEF SlotsInv
<1>7. ASSUME NEW s \in Simulation, ready # <<>>, ready' = Tail(ready),
             simulations' = simulations \cup {s}
      PROVE  /\ IsFiniteSet(simulations')
             /\ Cardinality(simulations') + Len(ready') <= max_concurrent_simulations
  <2>1. Len(ready') = Len(ready) - 1
    BY <1>7 DEF TypeOK
  <2>2. /\ IsFiniteSet(simulations')
        /\ \/ Cardinality(simulations') = Cardinality(simulations)
           \/ Cardinality(simulations') = Cardinality(simulations) + 1
    BY <1>7, FS_AddElement DEF SlotsInv
  <2> QED
    BY <1>1, <2>1, <2>2
<1>8. CASE simulations' = {} /\ UNCHANGED ready
  BY <1>1, <1>8, FS_EmptySet
<1> QED
  BY <1>3, <1>4, <1>5, <1>6, <1>7, <1>8 DEF SlotsChange

\* The service never runs, or has popped for running, more simulations than
\* max_concurrent_simulations.
THEOREM ConcurrencyBounded == Spec => []ConcurrencyBound
<1>1. Init => SlotsInv
  BY FS_EmptySet, ConfigAssumption DEF Init, SlotsInv, ConcurrencyBound
<1>2. TypeOK /\ SlotsInv /\ [Next]_vars => SlotsInv'
  BY NextSlots, SlotsInductive
<1>3. SlotsInv => ConcurrencyBound
  BY DEF SlotsInv
<1> QED
  BY <1>1, <1>2, <1>3, TypeCorrect, PTL DEF Spec
-----------------------------------------------------------------------------
(* No lost wake-up.  NoLostWakeup is not inductive: that the task sleeps    *)
(* with nothing to do says nothing about who will wake it.  The invariant   *)
(* adds, for the channel and for the simulations, that the task is          *)
(* scheduled, or has a waker registered, or is still to look.               *)

StillToLookAtFutures == phase \in {"messages", "outcomes", "starting"}

MessagesSeen == from_handle # <<>> => notified \/ phase = "messages"

ChannelWakes == notified \/ phase = "messages" \/ rx_waker \/ from_handle # <<>>

FuturesSeen ==
  (\E s \in simulations : s.poll # "pending") => notified \/ StillToLookAtFutures

FuturesWake == notified \/ StillToLookAtFutures \/ sim_waker

NothingToStart ==
  \/ Capacity = 0
  \/ \A pos \in DOMAIN Waiting : ~Selectable(Waiting[pos], NextBlock)

SleepsForAReason == phase = "parked" /\ ~notified => NothingToStart

WakeupInv == alive => /\ MessagesSeen /\ ChannelWakes
                      /\ FuturesSeen /\ FuturesWake
                      /\ SleepsForAReason

\* What the last conjunct depends on.
queueInputs == <<high_priority_queue, normal_priority_queue, current_block_number,
                 simulations>>

LEMMA NothingToStartUnchanged ==
  ASSUME UNCHANGED queueInputs
  PROVE  NothingToStart' <=> NothingToStart
BY DEF queueInputs, NothingToStart, Capacity, Waiting, NextBlock, Selectable,
       exceeds_target_block, is_min_block

LEMMA SendKeepsWakeups ==
  ASSUME TypeOK, WakeupInv, NEW msg \in Message, Send(msg),
         UNCHANGED <<alive, phase, sim_waker, queueInputs>>
  PROVE  WakeupInv'
<1>1. from_handle' # <<>>
  BY AppendProperties DEF Send, TypeOK
<1>2. alive => MessagesSeen' /\ ChannelWakes'
  BY <1>1 DEF Send, WakeupInv, MessagesSeen, ChannelWakes
<1>3. alive => FuturesSeen' /\ FuturesWake'
  BY DEF Send, WakeupInv, FuturesSeen, FuturesWake, StillToLookAtFutures, queueInputs
<1>4. alive => SleepsForAReason'
  BY NothingToStartUnchanged DEF Send, WakeupInv, SleepsForAReason
<1> QED
  BY <1>2, <1>3, <1>4 DEF WakeupInv

LEMMA HandleKeepsWakeups ==
  ASSUME TypeOK, WakeupInv, HandleStep
  PROVE  WakeupInv'
<1> USE DEF handleVars, taskVars, queueVars, simVars, innerVars, listenerVars
<1>1. ASSUME NEW r \in Requests, NEW told \in {"Sent", "Awaiting"}, Submit(r, told)
      PROVE  WakeupInv'
  <2>1. PICK prio \in Priority, inclusion \in Inclusions :
          Send([type |-> "AddSimulation", request |-> NewRequest(r, prio, inclusion)])
    BY <1>1 DEF Submit
  <2>2. NewRequest(r, prio, inclusion) \in SimulationRequest
    BY InputAssumption DEF NewRequest, SimulationRequest
  <2> QED
    BY <1>1, <2>1, <2>2, SendKeepsWakeups DEF Submit, Message, queueInputs
<1>2. ASSUME NEW num \in BlockNumbers, update_block_number(num) PROVE WakeupInv'
  BY <1>2, SendKeepsWakeups, InputAssumption DEF update_block_number, Message, queueInputs
<1>3. ASSUME clear_queue PROVE WakeupInv'
  BY <1>3, SendKeepsWakeups DEF clear_queue, Message, queueInputs
<1>4. ASSUME NEW l \in Listeners, events(l) PROVE WakeupInv'
  BY <1>4, SendKeepsWakeups DEF events, Message, queueInputs
<1>5. ASSUME UNCHANGED <<from_handle, taskVars, queueVars, simVars, innerVars>>
      PROVE  WakeupInv'
  <2>1. NothingToStart' <=> NothingToStart
    BY <1>5, NothingToStartUnchanged DEF queueInputs
  <2> QED
    BY <1>5, <2>1 DEF WakeupInv, MessagesSeen, ChannelWakes, FuturesSeen, FuturesWake,
                      StillToLookAtFutures, SleepsForAReason
<1>6. ASSUME NEW r \in Requests, SubmitToDroppedService(r) \/ CancelAdd(r) PROVE WakeupInv'
  BY <1>5, <1>6 DEF SubmitToDroppedService, CancelAdd
<1>7. ASSUME NEW l \in Listeners, DropEventStream(l) PROVE WakeupInv'
  BY <1>5, <1>7 DEF DropEventStream
<1> QED
  BY <1>1, <1>2, <1>3, <1>4, <1>6, <1>7
  DEF HandleStep, send_bundle_simulation, add_bundle_simulation

LEMMA PollKeepsWakeups ==
  ASSUME TypeOK, WakeupInv, PollStep
  PROVE  WakeupInv'
<1> USE DEF handleVars, taskVars, queueVars, simVars, innerVars, listenerVars
<1> USE DEF MessagesSeen, ChannelWakes, FuturesSeen, FuturesWake, StillToLookAtFutures,
            SleepsForAReason, WakeupInv
<1>1. CASE phase' = "messages"
  BY <1>1
<1>2. CASE BeginPoll \/ OnMessage
  BY <1>1, <1>2 DEF BeginPoll, OnMessage, OnUpdateBlockNumber, OnClearQueue,
                    OnAddEventListener, OnAddSimulation, Receive
<1>3. CASE MessagesDrained
  BY <1>3 DEF MessagesDrained
<1>4. CASE CoopYield
  BY <1>4 DEF CoopYield
<1>5. ASSUME NEW s \in simulations, PollSimulation(s) PROVE WakeupInv'
  BY <1>5 DEF PollSimulation
<1>6. CASE OutcomesDrained
  BY <1>6 DEF OutcomesDrained
<1>7. CASE PopNextReady
  BY <1>7 DEF PopNextReady
<1>8. CASE PopBestRequestsDone
  <2>1. CASE ready = <<>>
    <3>1. NothingToStart
      BY <1>8, <2>1 DEF PopBestRequestsDone, NothingToStart
    <3>2. NothingToStart'
      BY <1>8, <3>1, NothingToStartUnchanged DEF PopBestRequestsDone, queueInputs
    <3> QED
      BY <1>8, <3>2 DEF PopBestRequestsDone
  <2>2. CASE ready # <<>>
    BY <1>8, <2>2 DEF PopBestRequestsDone
  <2> QED
    BY <2>1, <2>2
<1>9. CASE StartSimulation
  BY <1>9 DEF StartSimulation, PhaseAfterStart
<1> QED
  BY <1>2, <1>3, <1>4, <1>5, <1>6, <1>7, <1>8, <1>9
  DEF PollStep, SimulationPending, OnSimulationOutcome

LEMMA FutureKeepsWakeups ==
  ASSUME TypeOK, WakeupInv, NEW s \in simulations, SimulationWakes(s)
  PROVE  WakeupInv'
<1>1. alive => notified' \/ StillToLookAtFutures'
  BY DEF SimulationWakes, WakeupInv, FuturesWake, StillToLookAtFutures
<1> QED
  BY <1>1 DEF SimulationWakes, WakeupInv, MessagesSeen, ChannelWakes, FuturesSeen,
              FuturesWake, StillToLookAtFutures, SleepsForAReason

LEMMA NextKeepsWakeups ==
  ASSUME TypeOK, WakeupInv, [Next]_vars
  PROVE  WakeupInv'
<1>1. CASE HandleStep
  BY <1>1, HandleKeepsWakeups
<1>2. CASE PollStep
  BY <1>2, PollKeepsWakeups
<1>3. CASE \E r \in Requests : Wakes(r)
  BY <1>3, FutureKeepsWakeups DEF Wakes
<1>4. CASE DropService
  BY <1>4 DEF DropService, WakeupInv
<1>5. CASE UNCHANGED vars
  <2>1. NothingToStart' <=> NothingToStart
    BY <1>5, NothingToStartUnchanged DEF vars, queueInputs, queueVars, simVars, innerVars
  <2> QED
    BY <1>5, <2>1 DEF vars, taskVars, simVars, WakeupInv, MessagesSeen, ChannelWakes,
                      FuturesSeen, FuturesWake, StillToLookAtFutures, SleepsForAReason
<1> QED
  BY <1>1, <1>2, <1>3, <1>4, <1>5 DEF Next

\* The service never sleeps on work: whenever its task is parked and not
\* scheduled, the channel is empty, no simulation waits to be polled, and no
\* queued request could be started.
THEOREM NoWakeupLost == Spec => []NoLostWakeup
<1>1. Init => WakeupInv
  BY DEF Init, WakeupInv, MessagesSeen, ChannelWakes, FuturesSeen, FuturesWake,
         SleepsForAReason
<1>2. TypeOK /\ WakeupInv /\ [Next]_vars => WakeupInv'
  BY NextKeepsWakeups
<1>3. TypeOK /\ WakeupInv => NoLostWakeup
  BY DEF TypeOK, Simulation, WakeupInv, MessagesSeen, FuturesSeen, StillToLookAtFutures,
         SleepsForAReason, NothingToStart, NoLostWakeup
<1> QED
  BY <1>1, <1>2, <1>3, TypeCorrect, PTL DEF Spec
-----------------------------------------------------------------------------
(* One round of poll().  Neither property is inductive: both rest on        *)
(* requests being popped and started within one round, in which no message  *)
(* is received and no simulation is polled.                                 *)

ReadyOnlyInRound == ready # <<>> => phase \in {"requests", "starting"}

\* Each request is in the queue of its priority.
QueuesSorted ==
  /\ \A pos \in DOMAIN high_priority_queue : is_high(high_priority_queue[pos])
  /\ \A pos \in DOMAIN normal_priority_queue : ~is_high(normal_priority_queue[pos])

RoundInv == /\ ReadyOnlyInRound
            /\ QueuesSorted
            /\ WindowRespected
            /\ NoPriorityInversion

LEMMA PushBackKeepsSorted ==
  ASSUME TypeOK, QueuesSorted, NEW req \in SimulationRequest, PushBack(req)
  PROVE  QueuesSorted'
<1>1. CASE is_high(req)
  <2>1. /\ high_priority_queue' = Append(high_priority_queue, req)
        /\ UNCHANGED normal_priority_queue
    BY <1>1 DEF PushBack
  <2>2. ASSUME NEW pos \in DOMAIN high_priority_queue'
        PROVE  is_high(high_priority_queue'[pos])
    BY <1>1, <2>1, AppendProperties DEF TypeOK, QueuesSorted
  <2> QED
    BY <2>1, <2>2 DEF QueuesSorted, is_high
<1>2. CASE ~is_high(req)
  <2>1. /\ normal_priority_queue' = Append(normal_priority_queue, req)
        /\ UNCHANGED high_priority_queue
    BY <1>2 DEF PushBack
  <2>2. ASSUME NEW pos \in DOMAIN normal_priority_queue'
        PROVE  ~is_high(normal_priority_queue'[pos])
    BY <1>2, <2>1, AppendProperties DEF TypeOK, QueuesSorted
  <2> QED
    BY <2>1, <2>2 DEF QueuesSorted, is_high
<1> QED
  BY <1>1, <1>2

\* A dequeued request leaves the others where they were, in their order.
LEMMA RemoveAtKeeps ==
  ASSUME NEW S, NEW s \in Seq(S), NEW i \in 1 .. Len(s)
  PROVE  \A j \in DOMAIN RemoveAt(s, i) : \E k \in DOMAIN s : RemoveAt(s, i)[j] = s[k]
<1>1. /\ DOMAIN s = 1 .. Len(s) /\ Len(s) \in Nat
      /\ DOMAIN RemoveAt(s, i) = 1 .. Len(s) - 1
  BY RemoveAtProperties, LenProperties
<1>2. ASSUME NEW j \in 1 .. Len(s) - 1
      PROVE  \E k \in 1 .. Len(s) : RemoveAt(s, i)[j] = s[k]
  <2>1. j \in 1 .. Len(s) /\ j + 1 \in 1 .. Len(s)
    BY <1>1
  <2> QED
    BY <2>1, RemoveAtProperties
<1> QED
  BY <1>1, <1>2

LEMMA DequeueKeepsSorted ==
  ASSUME TypeOK, QueuesSorted, NEW pos \in DOMAIN Waiting, Dequeue(pos)
  PROVE  /\ QueuesSorted'
         /\ \A j \in DOMAIN high_priority_queue' : \E k \in DOMAIN high_priority_queue :
              high_priority_queue'[j] = high_priority_queue[k]
<1>1. pos \in 1 .. Len(high_priority_queue) + Len(normal_priority_queue)
  BY WaitingProperties
<1>2. CASE pos <= Len(high_priority_queue)
  <2>1. pos \in 1 .. Len(high_priority_queue)
    BY <1>1, <1>2 DEF TypeOK
  <2>2. /\ high_priority_queue' = RemoveAt(high_priority_queue, pos)
        /\ UNCHANGED normal_priority_queue
    BY <1>1, <1>2 DEF Dequeue, TypeOK
  <2>3. \A j \in DOMAIN high_priority_queue' : \E k \in DOMAIN high_priority_queue :
          high_priority_queue'[j] = high_priority_queue[k]
    BY <2>1, <2>2, RemoveAtKeeps DEF TypeOK
  <2> QED
    BY <2>2, <2>3 DEF QueuesSorted, is_high
<1>3. CASE pos > Len(high_priority_queue)
  <2>1. pos - Len(high_priority_queue) \in 1 .. Len(normal_priority_queue)
    BY <1>1, <1>3 DEF TypeOK
  <2>2. /\ normal_priority_queue' =
             RemoveAt(normal_priority_queue, pos - Len(high_priority_queue))
        /\ UNCHANGED high_priority_queue
    BY <1>1, <1>3 DEF Dequeue, TypeOK
  <2>3. \A j \in DOMAIN normal_priority_queue' : \E k \in DOMAIN normal_priority_queue :
          normal_priority_queue'[j] = normal_priority_queue[k]
    BY <2>1, <2>2, RemoveAtKeeps DEF TypeOK
  <2> QED
    BY <2>2, <2>3 DEF QueuesSorted, is_high
<1> QED
  BY <1>1, <1>2, <1>3 DEF TypeOK
-----------------------------------------------------------------------------
(* The steps outside a round, and those that leave the round alone.         *)

LEMMA NothingReady ==
  ASSUME QueuesSorted', ready' = <<>>
  PROVE  RoundInv'
BY DEF RoundInv, ReadyOnlyInRound, WindowRespected, NoPriorityInversion

LEMMA RoundUntouched ==
  ASSUME RoundInv, UNCHANGED <<ready, queueVars, current_block_number>>,
         ready # <<>> => phase' \in {"requests", "starting"}
  PROVE  RoundInv'
BY DEF RoundInv, ReadyOnlyInRound, QueuesSorted, WindowRespected, NoPriorityInversion,
       NextBlock, queueVars, is_high, is_min_block, exceeds_target_block, Selectable

LEMMA HandleKeepsRound ==
  ASSUME RoundInv, HandleStep
  PROVE  RoundInv'
<1>1. UNCHANGED <<ready, queueVars, current_block_number, phase>>
  BY DEF HandleStep, send_bundle_simulation, add_bundle_simulation, Submit,
         SubmitToDroppedService, CancelAdd, update_block_number, clear_queue, events,
         DropEventStream, taskVars, simVars, innerVars
<1> QED
  BY <1>1, RoundUntouched DEF RoundInv, ReadyOnlyInRound

LEMMA MessageKeepsRound ==
  ASSUME TypeOK, RoundInv, OnMessage
  PROVE  RoundInv'
<1> USE DEF queueVars
<1>1. ready' = <<>>
  BY DEF OnMessage, OnUpdateBlockNumber, OnClearQueue, OnAddEventListener,
         OnAddSimulation, Receive, simVars, RoundInv, ReadyOnlyInRound
<1>2. CASE OnUpdateBlockNumber \/ OnAddEventListener
  BY <1>1, <1>2, NothingReady DEF OnUpdateBlockNumber, OnAddEventListener, RoundInv,
                                  QueuesSorted, is_high
<1>3. CASE OnClearQueue
  BY <1>1, <1>3, NothingReady DEF OnClearQueue, QueuesSorted
<1>4. CASE OnAddSimulation
  <2>1. Head(from_handle).request \in SimulationRequest
    BY <1>4, ReceivedMessage DEF OnAddSimulation
  <2>2. PushBack(Head(from_handle).request) \/ UNCHANGED queueVars
    BY <1>4 DEF OnAddSimulation
  <2>3. QueuesSorted'
    BY <2>1, <2>2, PushBackKeepsSorted DEF RoundInv, QueuesSorted, is_high
  <2> QED
    BY <1>1, <2>3, NothingReady
<1> QED
  BY <1>2, <1>3, <1>4 DEF OnMessage

LEMMA OutcomeKeepsRound ==
  ASSUME TypeOK, RoundInv, NEW s \in simulations, NEW answer \in RelayAnswer,
         OnSimulationOutcome(s, answer)
  PROVE  RoundInv'
<1> DEFINE sim == [s.request EXCEPT !.retries = @ + 1]
<1>1. ready' = <<>>
  BY DEF OnSimulationOutcome, PollSimulation, RoundInv, ReadyOnlyInRound
<1>2. sim \in SimulationRequest
  <2>1. s.request \in SimulationRequest
    BY DEF TypeOK, Simulation
  <2> QED
    BY <2>1 DEF SimulationRequest
<1>3. PushBack(sim) \/ UNCHANGED queueVars
  BY DEF OnSimulationOutcome, OnSuccess, OnFatal, OnReschedule
<1>4. QueuesSorted'
  BY <1>2, <1>3, PushBackKeepsSorted DEF RoundInv, QueuesSorted, is_high, queueVars
<1> QED
  BY <1>1, <1>4, NothingReady

LEMMA TaskKeepsRound ==
  ASSUME RoundInv, BeginPoll \/ MessagesDrained \/ CoopYield \/ OutcomesDrained
                     \/ PopBestRequestsDone \/ DropService
  PROVE  RoundInv'
<1> USE DEF simVars, innerVars
<1>1. CASE BeginPoll \/ MessagesDrained \/ CoopYield \/ OutcomesDrained
  BY <1>1, RoundUntouched DEF BeginPoll, MessagesDrained, CoopYield, OutcomesDrained,
                              RoundInv, ReadyOnlyInRound
<1>2. CASE PopBestRequestsDone
  BY <1>2, RoundUntouched DEF PopBestRequestsDone
<1>3. CASE DropService
  BY <1>3, NothingReady DEF DropService, RoundInv, ReadyOnlyInRound, QueuesSorted
<1> QED
  BY <1>1, <1>2, <1>3

LEMMA FutureKeepsRound ==
  ASSUME RoundInv, NEW s \in simulations, SimulationPending(s) \/ SimulationWakes(s)
  PROVE  RoundInv'
<1>1. UNCHANGED <<ready, queueVars, current_block_number, phase>>
  BY DEF SimulationPending, PollSimulation, SimulationWakes, innerVars
<1> QED
  BY <1>1, RoundUntouched DEF RoundInv, ReadyOnlyInRound
-----------------------------------------------------------------------------
(* The two steps of a round.                                                *)

\* What a request that is not outdated satisfies when it is popped.
LEMMA PoppedRequest ==
  ASSUME TypeOK, QueuesSorted, NEW pos \in DOMAIN Waiting, IsFirstSelectable(pos)
  PROVE  IF is_high(Waiting[pos])
         THEN \E k \in DOMAIN high_priority_queue :
                Selectable(high_priority_queue[k], NextBlock)
         ELSE \A k \in DOMAIN high_priority_queue :
                ~Selectable(high_priority_queue[k], NextBlock)
<1>1. /\ DOMAIN Waiting = 1 .. Len(high_priority_queue) + Len(normal_priority_queue)
      /\ \A p \in DOMAIN Waiting :
           Waiting[p] = IF p <= Len(high_priority_queue)
                        THEN high_priority_queue[p]
                        ELSE normal_priority_queue[p - Len(high_priority_queue)]
  BY WaitingProperties
<1>2. /\ DOMAIN high_priority_queue = 1 .. Len(high_priority_queue)
      /\ DOMAIN normal_priority_queue = 1 .. Len(normal_priority_queue)
      /\ Len(high_priority_queue) \in Nat /\ Len(normal_priority_queue) \in Nat
  BY DEF TypeOK
<1>3. CASE pos <= Len(high_priority_queue)
  <2>1. pos \in DOMAIN high_priority_queue /\ Waiting[pos] = high_priority_queue[pos]
    BY <1>1, <1>2, <1>3
  <2>2. is_high(Waiting[pos])
    BY <2>1 DEF QueuesSorted
  <2>3. Selectable(high_priority_queue[pos], NextBlock)
    BY <2>1 DEF IsFirstSelectable
  <2> QED
    BY <2>1, <2>2, <2>3
<1>4. CASE pos > Len(high_priority_queue)
  <2>1. /\ pos - Len(high_priority_queue) \in DOMAIN normal_priority_queue
        /\ Waiting[pos] = normal_priority_queue[pos - Len(high_priority_queue)]
    BY <1>1, <1>2, <1>4
  <2>2. ~is_high(Waiting[pos])
    BY <2>1 DEF QueuesSorted
  <2>3. ASSUME NEW k \in DOMAIN high_priority_queue
        PROVE  ~Selectable(high_priority_queue[k], NextBlock)
    <3>1. k \in 1 .. pos - 1 /\ k \in DOMAIN Waiting /\ Waiting[k] = high_priority_queue[k]
      BY <1>1, <1>2, <1>4
    <3> QED
      BY <3>1 DEF IsFirstSelectable
  <2> QED
    BY <2>2, <2>3
<1> QED
  BY <1>1, <1>2, <1>3, <1>4

LEMMA PopKeepsRound ==
  ASSUME TypeOK, RoundInv, PopNextReady
  PROVE  RoundInv'
<1>1. PICK pos \in DOMAIN Waiting :
        /\ IsFirstSelectable(pos)
        /\ Dequeue(pos)
        /\ \/ UNCHANGED ready
           \/ /\ ~exceeds_target_block(Waiting[pos], NextBlock)
              /\ ready' = Append(ready, Waiting[pos])
  BY DEF PopNextReady
<1>2. UNCHANGED <<phase, current_block_number>> /\ phase = "requests"
  BY DEF PopNextReady, taskVars, innerVars
<1>3. /\ QueuesSorted'
      /\ \A j \in DOMAIN high_priority_queue' : \E k \in DOMAIN high_priority_queue :
           high_priority_queue'[j] = high_priority_queue[k]
  BY <1>1, DequeueKeepsSorted DEF RoundInv
<1>4. ReadyOnlyInRound'
  BY <1>2 DEF ReadyOnlyInRound
<1>5. CASE UNCHANGED ready
  <2>1. WindowRespected'
    BY <1>2, <1>5 DEF RoundInv, WindowRespected, is_min_block, exceeds_target_block, NextBlock
  <2>2. NoPriorityInversion'
    BY <1>2, <1>3, <1>5 DEF RoundInv, NoPriorityInversion, is_high, Selectable,
                            is_min_block, exceeds_target_block, NextBlock
  <2> QED
    BY <1>3, <1>4, <2>1, <2>2 DEF RoundInv
<1>6. CASE /\ ~exceeds_target_block(Waiting[pos], NextBlock)
           /\ ready' = Append(ready, Waiting[pos])
  <2> DEFINE last == Len(ready) + 1
  <2>1. /\ Len(ready) \in Nat /\ DOMAIN ready = 1 .. Len(ready)
        /\ DOMAIN ready' = 1 .. last
        /\ ready'[last] = Waiting[pos]
        /\ \A i \in 1 .. Len(ready) : ready'[i] = ready[i]
    <3>1. Waiting[pos] \in SimulationRequest
      BY WaitingProperties, ElementOfSeq
    <3> QED
      BY <1>6, <3>1, AppendProperties DEF TypeOK
  <2> HIDE DEF last
  <2>2. \A i \in DOMAIN ready' : i \in DOMAIN ready \/ i = last
    BY <2>1 DEF last
  <2>3. WindowRespected'
    <3>1. /\ is_min_block(Waiting[pos], NextBlock)
          /\ ~exceeds_target_block(Waiting[pos], NextBlock)
      BY <1>1, <1>6 DEF IsFirstSelectable, Selectable
    <3>2. \A i \in DOMAIN ready' : /\ is_min_block(ready'[i], NextBlock)
                                   /\ ~exceeds_target_block(ready'[i], NextBlock)
      BY <2>1, <2>2, <3>1 DEF RoundInv, WindowRespected
    <3> QED
      BY <1>2, <3>2 DEF WindowRespected, NextBlock, is_min_block, exceeds_target_block
  <2>4. NoPriorityInversion'
    <3>1. ASSUME NEW i \in DOMAIN ready', ~is_high(ready'[i])
          PROVE  \A k \in DOMAIN high_priority_queue :
                   ~Selectable(high_priority_queue[k], NextBlock)
      BY <1>1, <2>1, <2>2, <3>1, PoppedRequest DEF RoundInv, NoPriorityInversion
    <3>2. ASSUME NEW i \in DOMAIN ready', ~is_high(ready'[i]),
                 NEW j \in DOMAIN ready', j > i
          PROVE  ~is_high(ready'[j])
      <4>1. CASE j \in DOMAIN ready
        <5>1. i \in DOMAIN ready
          BY <2>1, <3>2, <4>1
        <5> QED
          BY <2>1, <3>2, <4>1, <5>1 DEF RoundInv, NoPriorityInversion
      <4>2. CASE j = last
        BY <1>1, <2>1, <3>1, <3>2, <4>2, PoppedRequest DEF RoundInv
      <4> QED
        BY <2>2, <4>1, <4>2
    <3>3. ASSUME NEW i \in DOMAIN ready', ~is_high(ready'[i]),
                 NEW p \in DOMAIN high_priority_queue'
          PROVE  ~Selectable(high_priority_queue'[p], NextBlock')
      <4>1. PICK k \in DOMAIN high_priority_queue :
              high_priority_queue'[p] = high_priority_queue[k]
        BY <1>3
      <4>2. NextBlock' = NextBlock
        BY <1>2 DEF NextBlock
      <4> QED
        BY <3>1, <3>3, <4>1, <4>2
    <3> QED
      BY <3>2, <3>3 DEF NoPriorityInversion, is_high, Selectable, is_min_block,
                        exceeds_target_block
  <2> QED
    BY <1>3, <1>4, <2>3, <2>4 DEF RoundInv
<1> QED
  BY <1>1, <1>5, <1>6

LEMMA StartKeepsRound ==
  ASSUME TypeOK, RoundInv, StartSimulation
  PROVE  RoundInv'
<1>1. /\ ready # <<>> /\ ready' = Tail(ready)
      /\ phase' = IF ready' = <<>> THEN "messages" ELSE "starting"
      /\ UNCHANGED <<queueVars, current_block_number>>
  BY DEF StartSimulation, PhaseAfterStart, innerVars
<1>2. /\ DOMAIN ready = 1 .. Len(ready) /\ Len(ready) \in Nat
      /\ DOMAIN ready' = 1 .. Len(ready) - 1
      /\ \A i \in 1 .. Len(ready) - 1 : i + 1 \in 1 .. Len(ready) /\ ready'[i] = ready[i + 1]
  BY <1>1 DEF TypeOK
<1>3. QueuesSorted'
  BY <1>1 DEF RoundInv, QueuesSorted, is_high, queueVars
<1>4. ReadyOnlyInRound'
  BY <1>1 DEF ReadyOnlyInRound
<1>5. WindowRespected'
  BY <1>1, <1>2 DEF RoundInv, WindowRespected, is_min_block, exceeds_target_block, NextBlock
<1>6. NoPriorityInversion'
  <2>1. ASSUME NEW i \in DOMAIN ready', ~is_high(ready'[i])
        PROVE  \A p \in DOMAIN high_priority_queue :
                 ~Selectable(high_priority_queue[p], NextBlock)
    BY <1>2, <2>1 DEF RoundInv, NoPriorityInversion
  <2>2. ASSUME NEW i \in DOMAIN ready', ~is_high(ready'[i]), NEW j \in DOMAIN ready', j > i
        PROVE  ~is_high(ready'[j])
    <3>1. i + 1 \in DOMAIN ready /\ j + 1 \in DOMAIN ready /\ j + 1 > i + 1
      BY <1>2, <2>2
    <3> QED
      BY <1>2, <2>2, <3>1 DEF RoundInv, NoPriorityInversion
  <2> QED
    BY <1>1, <2>1, <2>2 DEF NoPriorityInversion, is_high, Selectable, is_min_block,
                            exceeds_target_block, NextBlock, queueVars
<1> QED
  BY <1>3, <1>4, <1>5, <1>6 DEF RoundInv
-----------------------------------------------------------------------------
(* The theorems.                                                            *)

LEMMA NextKeepsRound ==
  ASSUME TypeOK, RoundInv, [Next]_vars
  PROVE  RoundInv'
<1>1. CASE HandleStep
  BY <1>1, HandleKeepsRound
<1>2. CASE PollStep
  BY <1>2, MessageKeepsRound, OutcomeKeepsRound, TaskKeepsRound, FutureKeepsRound,
     PopKeepsRound, StartKeepsRound DEF PollStep
<1>3. CASE \E r \in Requests : Wakes(r)
  BY <1>3, FutureKeepsRound DEF Wakes
<1>4. CASE DropService
  BY <1>4, TaskKeepsRound
<1>5. CASE UNCHANGED vars
  BY <1>5, RoundUntouched DEF vars, taskVars, simVars, innerVars, RoundInv, ReadyOnlyInRound
<1> QED
  BY <1>1, <1>2, <1>3, <1>4, <1>5 DEF Next

LEMMA RoundAlways == Spec => []RoundInv
<1>1. Init => RoundInv
  BY DEF Init, RoundInv, ReadyOnlyInRound, QueuesSorted, WindowRespected,
         NoPriorityInversion
<1>2. TypeOK /\ RoundInv /\ [Next]_vars => RoundInv'
  BY NextKeepsRound
<1> QED
  BY <1>1, <1>2, TypeCorrect, PTL DEF Spec

\* A simulation that is about to start is inside its inclusion window: the block
\* number pop_next_ready compared it with cannot change before it is started.
THEOREM WindowAlwaysRespected == Spec => []WindowRespected
<1>1. RoundInv => WindowRespected
  BY DEF RoundInv
<1> QED
  BY <1>1, RoundAlways, PTL

\* A normal request is popped only when no request of the high priority queue
\* can be simulated for the next block, and never overtakes one in its round.
THEOREM HighPriorityFirst == Spec => []NoPriorityInversion
<1>1. RoundInv => NoPriorityInversion
  BY DEF RoundInv
<1> QED
  BY <1>1, RoundAlways, PTL
=============================================================================
