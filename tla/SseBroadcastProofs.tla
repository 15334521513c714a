------------------------- MODULE SseBroadcastProofs -------------------------
(***************************************************************************)
(* Theorems about the SSE server, for any clients, ring and requests.       *)
(***************************************************************************)
EXTENDS SseBroadcastRefinement, TLAPS

LEMMA InitTyped == Init => TypeOK
<1> SUFFICES ASSUME Init PROVE TypeOK
  OBVIOUS
<1>1. sent \in 0 .. MaxMessages
  BY ServerAssumption DEF Init
<1>2. /\ open \in BOOLEAN
      /\ last_send \in {"none", "ok", "Json", "ChannelClosed"}
      /\ conn \in [Clients -> {"none", "inner", "calling", "failed", "streaming", "ended", "gone"}]
      /\ task \in [Clients -> {"none", "waiting", "sending", "ended"}]
  BY DEF Init
<1>3. /\ uri \in [Clients -> RequestUris \cup {Nothing}]
      /\ subscribed \in [Clients -> Nat]
      /\ next \in [Clients -> Nat \ {0}]
      /\ holding \in [Clients -> Message \cup {Nothing}]
      /\ pipe \in [Clients -> Message \cup {Nothing}]
      /\ delivered \in [Clients -> SUBSET Message]
  BY DEF Init
<1>4. \A c \in Clients : task[c] = "none" /\ holding[c] = Nothing /\ pipe[c] = Nothing
  BY DEF Init
<1>5. \A c \in Clients : Consistent(c)
  BY <1>4 DEF Consistent
<1> QED
  BY <1>1, <1>2, <1>3, <1>5 DEF TypeOK

\* Every variable keeps its type from step to step.
LEMMA TypeStep == TypeOK /\ [Next]_vars => TypeOK'
<1> SUFFICES ASSUME TypeOK, [Next]_vars PROVE TypeOK'
  OBVIOUS
<1> USE ServerAssumption DEF TypeOK, Message, channelVars, Consistent
<1>1. CASE send
  BY <1>1 DEF send, clientVars
<1>2. CASE DropBroadcaster
  BY <1>2 DEF DropBroadcaster, clientVars
<1>3. CASE \E c \in Clients, u \in RequestUris : call(c, u)
  BY <1>3 DEF call
<1>4. ASSUME NEW c \in Clients, Respond(c) \/ RespondError(c) PROVE TypeOK'
  BY <1>4 DEF Respond, RespondError
<1>5. ASSUME NEW c \in Clients, Lagged(c) PROVE TypeOK'
  BY <1>5 DEF Lagged, Overwritten
<1>6. ASSUME NEW c \in Clients, Receive(c) PROVE TypeOK'
  <2>1. next[c] \in Message /\ next[c] # Nothing
    BY <1>6 DEF Receive
  <2>2. \A d \in Clients : Consistent(d)'
    BY <1>6, <2>1 DEF Receive
  <2> QED
    BY <1>6, <2>1, <2>2 DEF Receive
<1>7. ASSUME NEW c \in Clients, TaskEnds(c) PROVE TypeOK'
  BY <1>7 DEF TaskEnds
<1>8. ASSUME NEW c \in Clients, Forward(c) PROVE TypeOK'
  <2>1. PICK into \in {pipe[c], holding[c]} :
          Forwarded(c, into) /\ (into # Nothing => conn[c] = "streaming")
    BY <1>8 DEF Forward
  <2>2. \A d \in Clients : Consistent(d)'
    BY <2>1 DEF Forwarded
  <2> QED
    BY <2>1, <2>2 DEF Forwarded
<1>9. ASSUME NEW c \in Clients, BodyYields(c) PROVE TypeOK'
  BY <1>9 DEF BodyYields
<1>10. ASSUME NEW c \in Clients, BodyEnds(c) PROVE TypeOK'
  <2>1. \A d \in Clients : Consistent(d)'
    BY <1>10 DEF BodyEnds
  <2> QED
    BY <1>10, <2>1 DEF BodyEnds
<1>11. ASSUME NEW c \in Clients, Disconnect(c) PROVE TypeOK'
  <2>1. \A d \in Clients : Consistent(d)'
    BY <1>11 DEF Disconnect
  <2> QED
    BY <1>11, <2>1 DEF Disconnect
<1>12. CASE UNCHANGED vars
  BY <1>12 DEF vars, clientVars
<1> QED
  BY <1>1, <1>2, <1>3, <1>4, <1>5, <1>6, <1>7, <1>8, <1>9, <1>10, <1>11, <1>12
     DEF Next, CallStep, TaskStep, BodyStep

\* Type correctness of the server.
THEOREM TypeCorrect == Spec => []TypeOK
  BY InitTyped, TypeStep, PTL DEF Spec
-----------------------------------------------------------------------------
(* Order and completeness.  Both speak of the messages of one client, and    *)
(* need to know where its receiver may stand.                               *)

Placed(c) ==
  /\ subscribed[c] < next[c]
  /\ conn[c] \notin {"none", "inner"} => subscribed[c] <= sent /\ next[c] <= sent + 1
  /\ conn[c] \in {"none", "inner", "calling"} => delivered[c] = {}
  /\ conn[c] = "ended" => task[c] = "ended"
  /\ task[c] = "ended" => ~open /\ next[c] = sent + 1

Complete(c) == Connected(c) => \A m \in subscribed[c] + 1 .. sent : Accounted(c, m)

ClientInv(c) == Placed(c) /\ Ordered(c) /\ Complete(c)

BroadcastInv == TypeOK /\ \A c \in Clients : ClientInv(c)

\* A step of another client changes nothing that ClientInv(d) speaks of.
Untouched(d) ==
  /\ conn'[d] = conn[d] /\ task'[d] = task[d]
  /\ subscribed'[d] = subscribed[d] /\ next'[d] = next[d]
  /\ holding'[d] = holding[d] /\ pipe'[d] = pipe[d] /\ delivered'[d] = delivered[d]

LEMMA Frame ==
  ASSUME NEW d \in Clients, ClientInv(d), Untouched(d), sent' = sent, open' = open
  PROVE  ClientInv(d)'
<1> USE DEF Untouched
<1>1. Placed(d)'
  BY DEF ClientInv, Placed
<1>2. Ordered(d)'
  BY DEF ClientInv, Ordered, OnItsWay, Newer
<1>3. Complete(d)'
  BY DEF ClientInv, Complete, Connected, Accounted, Overwritten
<1> QED
  BY <1>1, <1>2, <1>3 DEF ClientInv

\* A new message is ahead of every receiver.
LEMMA SendKeeps ==
  ASSUME TypeOK, NEW d \in Clients, ClientInv(d), send
  PROVE  ClientInv(d)'
<1> USE DEF TypeOK, clientVars
<1>1. CASE sent' = sent
  BY <1>1, Frame DEF send, Untouched
<1>2. CASE sent' = sent + 1
  <2>1. Placed(d)'
    BY <1>2 DEF send, ClientInv, Placed, Consistent
  <2>2. Ordered(d)'
    BY DEF send, ClientInv, Ordered, OnItsWay, Newer
  <2>3. ASSUME Connected(d)', NEW m \in (subscribed[d] + 1 .. sent)' PROVE Accounted(d, m)'
    <3>1. next[d] <= sent + 1 /\ sent \in Nat /\ capacity \in Nat /\ next[d] \in Nat /\ m \in Nat
      BY <2>3, ServerAssumption DEF send, ClientInv, Placed, Connected
    <3>2. CASE m = sent + 1
      BY <3>1, <3>2 DEF send, Accounted
    <3>3. CASE m \in subscribed[d] + 1 .. sent
      <4>1. Accounted(d, m)
        BY <2>3, <3>3 DEF send, ClientInv, Complete, Connected
      <4> QED
        BY <4>1, <1>2, <3>1 DEF send, Accounted, Overwritten
    <3> QED
      BY <2>3, <1>2, <3>1, <3>2, <3>3 DEF send
  <2>4. Complete(d)'
    BY <2>3 DEF Complete
  <2> QED
    BY <2>1, <2>2, <2>4 DEF ClientInv
<1> QED
  BY <1>1, <1>2 DEF send

\* A closed channel: the tasks that have ended had drained it.
LEMMA DropKeeps ==
  ASSUME TypeOK, NEW d \in Clients, ClientInv(d), DropBroadcaster
  PROVE  ClientInv(d)'
<1> USE DEF DropBroadcaster, clientVars
<1>1. Placed(d)'
  BY DEF ClientInv, Placed
<1>2. Ordered(d)'
  BY DEF ClientInv, Ordered, OnItsWay, Newer
<1>3. Complete(d)'
  BY DEF ClientInv, Complete, Connected, Accounted, Overwritten
<1> QED
  BY <1>1, <1>2, <1>3 DEF ClientInv

\* The client subscribes to what comes next, or is served by the inner service.
LEMMA CallKeeps ==
  ASSUME TypeOK, NEW d \in Clients, ClientInv(d), NEW u \in RequestUris, call(d, u)
  PROVE  ClientInv(d)'
<1> USE DEF TypeOK, call, channelVars
<1>1. sent \in Nat /\ capacity \in Nat
  BY ServerAssumption
<1>2. delivered[d] = {} /\ pipe[d] = Nothing /\ holding[d] = Nothing /\ task[d] = "none"
  BY DEF ClientInv, Placed, Consistent
<1>3. CASE Intercepts(u)
  <2>1. conn'[d] = "calling" /\ subscribed'[d] = sent /\ next'[d] = sent + 1
    BY <1>3
  <2>2. Placed(d)' /\ Ordered(d)'
    BY <1>1, <1>2, <2>1 DEF Placed, Ordered
  <2>3. Complete(d)'
    BY <1>1, <2>1 DEF Complete
  <2> QED
    BY <2>2, <2>3 DEF ClientInv
<1>4. CASE ~Intercepts(u)
  <2>1. conn'[d] = "inner" /\ subscribed'[d] = subscribed[d] /\ next'[d] = next[d]
    BY <1>4
  <2>2. Placed(d)' /\ Ordered(d)'
    BY <1>2, <2>1 DEF Placed, Ordered, ClientInv
  <2>3. Complete(d)'
    BY <2>1 DEF Complete, Connected
  <2> QED
    BY <2>2, <2>3 DEF ClientInv
<1> QED
  BY <1>3, <1>4

\* Steps that move a connection or its task and no message.
LEMMA StatusKeeps ==
  ASSUME TypeOK, NEW d \in Clients, ClientInv(d),
         Respond(d) \/ RespondError(d) \/ TaskEnds(d) \/ BodyEnds(d)
  PROVE  ClientInv(d)'
<1> USE DEF TypeOK, Respond, RespondError, TaskEnds, BodyEnds, channelVars
<1>1. Placed(d)'
  BY DEF ClientInv, Placed, Consistent
<1>2. Ordered(d)'
  BY DEF ClientInv, Ordered, OnItsWay, Newer
<1>3. Complete(d)'
  BY DEF ClientInv, Complete, Connected, Accounted, Overwritten
<1> QED
  BY <1>1, <1>2, <1>3 DEF ClientInv

LEMMA DisconnectKeeps ==
  ASSUME TypeOK, NEW d \in Clients, ClientInv(d), Disconnect(d)
  PROVE  ClientInv(d)'
<1> USE DEF TypeOK, Disconnect, channelVars
<1>1. Placed(d)'
  BY DEF ClientInv, Placed, Consistent
<1>2. Ordered(d)'
  BY DEF ClientInv, Ordered, OnItsWay, Newer
<1>3. Complete(d)'
  BY DEF Complete, Connected
<1> QED
  BY <1>1, <1>2, <1>3 DEF ClientInv

\* The receiver jumps over messages that are overwritten.
LEMMA LaggedKeeps ==
  ASSUME TypeOK, NEW d \in Clients, ClientInv(d), Lagged(d)
  PROVE  ClientInv(d)'
<1> USE DEF TypeOK, Lagged, channelVars
<1>1. /\ sent \in Nat /\ capacity \in Nat \ {0} /\ next[d] \in Nat /\ subscribed[d] \in Nat
      /\ next[d] + capacity <= sent
      /\ next'[d] = sent - capacity + 1
  BY ServerAssumption DEF Overwritten
<1>2. next[d] < next'[d] /\ next'[d] <= sent + 1 /\ next'[d] \in Nat
  BY <1>1
<1>3. Placed(d)'
  BY <1>1, <1>2 DEF ClientInv, Placed
<1>4. Ordered(d)'
  <2>1. \A m \in Message : m < next[d] => m < next'[d]
    BY <1>1, <1>2, ServerAssumption DEF Message
  <2> QED
    BY <2>1 DEF ClientInv, Ordered, OnItsWay, Newer
<1>5. Complete(d)'
  <2>1. ASSUME NEW m \in Nat, Accounted(d, m) PROVE Accounted(d, m)'
    BY <2>1, <1>1 DEF Accounted, Overwritten
  <2> QED
    BY <2>1, <1>1 DEF ClientInv, Complete, Connected
<1> QED
  BY <1>3, <1>4, <1>5 DEF ClientInv

\* The task takes the message its receiver stands at.
LEMMA ReceiveKeeps ==
  ASSUME TypeOK, NEW d \in Clients, ClientInv(d), Receive(d)
  PROVE  ClientInv(d)'
<1> USE DEF TypeOK, Receive, channelVars
<1>1. /\ sent \in Nat /\ next[d] \in Nat /\ subscribed[d] \in Nat /\ next[d] <= sent
      /\ next'[d] = next[d] + 1 /\ holding'[d] = next[d] /\ holding[d] = Nothing
  BY ServerAssumption DEF Consistent
<1>2. Placed(d)'
  BY <1>1 DEF ClientInv, Placed, Consistent
<1>3. Ordered(d)'
  <2>1. \A m \in Message : m < next[d] => m < next'[d]
    BY <1>1, ServerAssumption DEF Message
  <2>2. subscribed[d] < next[d]
    BY DEF ClientInv, Placed
  <2> QED
    BY <1>1, <2>1, <2>2 DEF ClientInv, Ordered, OnItsWay, Newer
<1>4. Complete(d)'
  <2>1. ASSUME NEW m \in Nat, Accounted(d, m) PROVE Accounted(d, m)'
    BY <2>1, <1>1, ServerAssumption DEF Accounted, Overwritten
  <2> QED
    BY <2>1, <1>1 DEF ClientInv, Complete, Connected
<1> QED
  BY <1>2, <1>3, <1>4 DEF ClientInv

\* The message moves on, or is lost with the connection.
LEMMA ForwardKeeps ==
  ASSUME TypeOK, NEW d \in Clients, ClientInv(d), Forward(d)
  PROVE  ClientInv(d)'
<1> USE DEF TypeOK, Forwarded, channelVars
<1>1. PICK into \in {pipe[d], holding[d]} : Forwarded(d, into)
  BY DEF Forward
<1>2. holding'[d] = Nothing /\ pipe'[d] = into /\ holding[d] # Nothing
  BY <1>1 DEF Consistent
<1>3. Placed(d)'
  BY <1>1 DEF ClientInv, Placed, Consistent
<1>4. Ordered(d)'
  BY <1>1, <1>2 DEF ClientInv, Ordered, OnItsWay, Newer
<1>5. Complete(d)'
  <2>1. CASE conn[d] = "streaming"
    <3>1. pipe[d] = Nothing /\ pipe'[d] = holding[d]
      BY <2>1 DEF Forward
    <3>2. ASSUME NEW m \in Nat, Accounted(d, m) PROVE Accounted(d, m)'
      BY <3>1, <3>2, <1>1, <1>2, ServerAssumption DEF Accounted, Overwritten
    <3> QED
      BY <3>2, <1>1, ServerAssumption DEF ClientInv, Complete, Connected
  <2>2. CASE conn[d] # "streaming"
    <3>1. conn'[d] \notin {"calling", "streaming", "ended"}
      BY <1>1, <2>2 DEF Consistent, ClientInv, Placed
    <3> QED
      BY <3>1 DEF Complete, Connected
  <2> QED
    BY <2>1, <2>2
<1> QED
  BY <1>3, <1>4, <1>5 DEF ClientInv

LEMMA BodyYieldsKeeps ==
  ASSUME TypeOK, NEW d \in Clients, ClientInv(d), BodyYields(d)
  PROVE  ClientInv(d)'
<1> USE DEF TypeOK, BodyYields, channelVars
<1>1. delivered'[d] = delivered[d] \cup {pipe[d]} /\ pipe'[d] = Nothing
  OBVIOUS
<1>2. Placed(d)'
  BY DEF ClientInv, Placed
<1>3. Ordered(d)'
  BY <1>1 DEF ClientInv, Ordered, OnItsWay, Newer
<1>4. Complete(d)'
  <2>1. ASSUME NEW m \in Nat, Accounted(d, m) PROVE Accounted(d, m)'
    BY <2>1, <1>1, ServerAssumption DEF Accounted, Overwritten
  <2> QED
    BY <2>1, ServerAssumption DEF ClientInv, Complete, Connected
<1> QED
  BY <1>2, <1>3, <1>4 DEF ClientInv

\* What one client does leaves the others untouched.
LEMMA OthersUntouched ==
  ASSUME TypeOK, NEW c \in Clients, NEW d \in Clients \ {c},
         \/ CallStep(c) \/ TaskStep(c) \/ BodyStep(c) \/ Disconnect(c)
         \/ \E u \in RequestUris : call(c, u)
  PROVE  Untouched(d) /\ sent' = sent /\ open' = open
<1> USE DEF TypeOK, Untouched, channelVars
<1>1. CASE \E u \in RequestUris : call(c, u)
  BY <1>1 DEF call
<1>2. CASE CallStep(c)
  BY <1>2 DEF CallStep, Respond, RespondError
<1>3. CASE TaskStep(c)
  BY <1>3 DEF TaskStep, Lagged, Receive, TaskEnds, Forward, Forwarded
<1>4. CASE BodyStep(c)
  BY <1>4 DEF BodyStep, BodyYields, BodyEnds
<1>5. CASE Disconnect(c)
  BY <1>5 DEF Disconnect
<1> QED
  BY <1>1, <1>2, <1>3, <1>4, <1>5

LEMMA InvStep == BroadcastInv /\ [Next]_vars => BroadcastInv'
<1> SUFFICES ASSUME BroadcastInv, [Next]_vars, NEW d \in Clients PROVE ClientInv(d)'
  BY TypeStep DEF BroadcastInv
<1> USE DEF BroadcastInv
<1>1. CASE send
  BY <1>1, SendKeeps
<1>2. CASE DropBroadcaster
  BY <1>2, DropKeeps
<1>3. ASSUME NEW c \in Clients,
             \/ CallStep(c) \/ TaskStep(c) \/ BodyStep(c) \/ Disconnect(c)
             \/ \E u \in RequestUris : call(c, u)
      PROVE  ClientInv(d)'
  <2>1. CASE c # d
    BY <1>3, <2>1, OthersUntouched, Frame
  <2>2. CASE c = d
    BY <1>3, <2>2, CallKeeps, StatusKeeps, LaggedKeeps, ReceiveKeeps, ForwardKeeps,
       BodyYieldsKeeps, DisconnectKeeps DEF CallStep, TaskStep, BodyStep
  <2> QED
    BY <2>1, <2>2
<1>4. CASE UNCHANGED vars
  <2>1. Untouched(d) /\ sent' = sent /\ open' = open
    BY <1>4 DEF vars, channelVars, clientVars, Untouched
  <2> QED
    BY <2>1, Frame
<1> QED
  BY <1>1, <1>2, <1>3, <1>4 DEF Next

LEMMA InitInv == Init => BroadcastInv
<1> SUFFICES ASSUME Init, NEW d \in Clients PROVE ClientInv(d)
  BY InitTyped DEF BroadcastInv
<1>1. Placed(d)
  BY DEF Init, Placed
<1>2. Ordered(d)
  BY DEF Init, Ordered
<1>3. Complete(d)
  BY DEF Init, Complete, Connected
<1> QED
  BY <1>1, <1>2, <1>3 DEF ClientInv

LEMMA InvAlways == Spec => []BroadcastInv
  BY InitInv, InvStep, PTL DEF Spec

\* Whatever the clients, the ring and the interleaving of tasks, a client sees the
\* messages in order and each at most once.
THEOREM DeliveredInOrder == Spec => []InOrder
<1>1. BroadcastInv => InOrder
  BY DEF BroadcastInv, ClientInv, InOrder
<1> QED
  BY <1>1, InvAlways, PTL

\* A connected client loses only messages that the ring has overwritten.
THEOREM LosesOnlyOverwritten == Spec => []OnlyOverwrittenLost
<1>1. BroadcastInv => OnlyOverwrittenLost
  BY DEF BroadcastInv, ClientInv, Complete, OnlyOverwrittenLost
<1> QED
  BY <1>1, InvAlways, PTL
-----------------------------------------------------------------------------
(* The refinement.  LastGot is a maximum; that it exists is an invariant of  *)
(* its own, since each message a body yields is newer than all before it.   *)

IsLast(m, S) == m \in S /\ \A other \in S : other <= m

HasLast(c) == \E m \in Seen(c) : IsLast(m, Seen(c))

LEMMA MaxIsLast ==
  ASSUME NEW S \in SUBSET Nat, NEW m \in S, IsLast(m, S) PROVE Max(S) = m
<1>1. \A other \in S : m >= other
  BY DEF IsLast
<1>2. Max(S) \in S /\ \A other \in S : Max(S) >= other
  BY <1>1 DEF Max
<1>3. /\ Max(S) \in Nat /\ m \in Nat
      /\ Max(S) >= m /\ m >= Max(S)
  BY <1>1, <1>2
<1> QED
  BY <1>3

\* What a body yields is the last message its client has got.
LEMMA YieldsLast ==
  ASSUME TypeOK, NEW d \in Clients, ClientInv(d), BodyYields(d)
  PROVE  HasLast(d)' /\ LastGot(d)' = pipe[d]
<1>1. pipe[d] \in Message /\ pipe[d] # Nothing /\ Message \subseteq Nat
  BY ServerAssumption DEF TypeOK, BodyYields, Message
<1>2. Seen(d) \subseteq Nat
  BY <1>1 DEF TypeOK, Seen
<1>3. \A other \in Seen(d) : other < pipe[d]
  BY <1>1 DEF ClientInv, Ordered, OnItsWay, Newer, Seen
<1>4. PICK S \in SUBSET Nat : S = Seen(d) \cup {pipe[d]}
  BY <1>1, <1>2
<1>5. Seen(d)' = S
  BY <1>4 DEF BodyYields, Seen, TypeOK
<1>6. pipe[d] \in S /\ IsLast(pipe[d], S)
  BY <1>1, <1>2, <1>3, <1>4 DEF IsLast
<1>7. Max(S) = pipe[d]
  BY <1>6, MaxIsLast
<1> QED
  BY <1>5, <1>6, <1>7 DEF HasLast, LastGot

\* Nothing but a new subscription or a yield changes what a client got last.
LEMMA SameView ==
  ASSUME NEW d \in Clients, subscribed'[d] = subscribed[d], delivered'[d] = delivered[d]
  PROVE  LastGot(d)' = LastGot(d) /\ HasLast(d)' = HasLast(d)
<1>1. Seen(d)' = Seen(d)
  BY DEF Seen
<1> QED
  BY <1>1 DEF LastGot, HasLast

ViewInv == BroadcastInv /\ \A c \in Clients : HasLast(c)

\* A new subscriber starts behind what was published so far.
LEMMA Subscribes ==
  ASSUME TypeOK, NEW c \in Clients, ClientInv(c), NEW u \in RequestUris, call(c, u), Intercepts(u)
  PROVE  /\ StatusOf(c) = "new" /\ StatusOf(c)' = "on"
         /\ HasLast(c)' /\ LastGot(c)' = sent
<1>1. conn[c] = "none" /\ conn'[c] = "calling"
  BY DEF call, TypeOK
<1>2. delivered[c] = {}
  BY <1>1 DEF ClientInv, Placed
<1>3. sent \in Nat /\ Seen(c)' = {sent}
  BY <1>2, ServerAssumption DEF call, TypeOK, Seen
<1>4. IsLast(sent, {sent})
  BY <1>3 DEF IsLast
<1>5. Max({sent}) = sent
  BY <1>3, <1>4, MaxIsLast
<1>6. HasLast(c)' /\ LastGot(c)' = sent
  BY <1>3, <1>4, <1>5 DEF HasLast, LastGot
<1>7. StatusOf(c) = "new" /\ StatusOf(c)' = "on"
  BY <1>1 DEF StatusOf
<1> QED
  BY <1>6, <1>7

\* What was skipped between the last message a client got and the next, or the end
\* of its body, has been overwritten.
LEMMA SkippedIsOverwritten ==
  ASSUME TypeOK, NEW c \in Clients, ClientInv(c), HasLast(c), conn[c] = "streaming",
         NEW i \in Nat, LastGot(c) < i, i <= sent, i < next[c],
         pipe[c] # Nothing => i < pipe[c],
         pipe[c] = Nothing => holding[c] = Nothing
  PROVE  Overwritten(i)
<1>1. Seen(c) \in SUBSET Nat
  BY ServerAssumption DEF TypeOK, Seen, Message
<1>2. LastGot(c) \in Nat /\ \A d \in Seen(c) : d <= LastGot(c)
  BY <1>1, MaxIsLast DEF HasLast, LastGot, IsLast
<1>3. subscribed[c] < i /\ i \notin delivered[c]
  BY <1>1, <1>2 DEF Seen, TypeOK
<1>4. Accounted(c, i)
  BY <1>3 DEF ClientInv, Complete, Connected, TypeOK
<1>5. i # pipe[c] /\ i # holding[c]
  <2>1. Nothing \notin Nat /\ i \in Nat
    BY ServerAssumption
  <2>2. CASE pipe[c] = Nothing
    BY <2>1, <2>2
  <2>3. CASE pipe[c] # Nothing
    <3>1. pipe[c] \in Nat /\ i < pipe[c]
      BY <2>3, ServerAssumption DEF TypeOK, Message
    <3>2. CASE holding[c] = Nothing
      BY <3>1, <3>2, <2>1
    <3>3. CASE holding[c] # Nothing
      <4>1. holding[c] \in Nat /\ pipe[c] < holding[c]
        BY <2>3, <3>3, ServerAssumption DEF ClientInv, Ordered, TypeOK, Message
      <4> QED
        BY <3>1, <4>1
    <3> QED
      BY <3>2, <3>3
  <2> QED
    BY <2>2, <2>3
<1>6. next[c] \in Nat
  BY DEF TypeOK
<1> QED
  BY <1>3, <1>4, <1>5, <1>6 DEF Accounted

\* The step of the client c leaves the view of the other clients alone.
LEMMA OthersSame ==
  ASSUME NEW c \in Clients, NEW d \in Clients \ {c}, Untouched(d)
  PROVE  StatusOf(d)' = StatusOf(d) /\ LastGot(d)' = LastGot(d) /\ HasLast(d)' = HasLast(d)
  BY SameView DEF Untouched, StatusOf

\* What c does, seen from outside: nothing, or one step of the promise; and c still
\* has a last message.
Outside(c) ==
  \/ StatusOf(c)' = StatusOf(c) /\ LastGot(c)' = LastGot(c)
  \/ /\ StatusOf(c) = "on" /\ StatusOf(c)' = "left"
     /\ LastGot(c)' = LastGot(c)
  \/ /\ StatusOf(c) = "new" /\ StatusOf(c)' = "on"
     /\ open /\ LastGot(c)' = sent
  \/ /\ StatusOf(c) = "on" /\ StatusOf(c)' = "on"
     /\ \E m \in 1 .. sent : /\ LastGot(c) < m /\ LastGot(c)' = m
                            /\ \A i \in LastGot(c) + 1 .. m - 1 : Overwritten(i)
  \/ /\ StatusOf(c) = "on" /\ StatusOf(c)' = "ended"
     /\ ~open /\ LastGot(c)' = LastGot(c)
     /\ \A i \in LastGot(c) + 1 .. sent : Overwritten(i)

LEMMA OutsideStep ==
  ASSUME TypeOK, NEW c \in Clients, ClientInv(c), HasLast(c),
         \/ CallStep(c) \/ TaskStep(c) \/ BodyStep(c) \/ Disconnect(c)
         \/ \E u \in RequestUris : call(c, u)
  PROVE  Outside(c) /\ HasLast(c)'
<1>1. CASE CallStep(c) \/ Disconnect(c)
  <2>1. subscribed'[c] = subscribed[c] /\ delivered'[c] = delivered[c]
    BY <1>1 DEF CallStep, Respond, RespondError, Disconnect
  <2>2. \/ StatusOf(c)' = StatusOf(c)
        \/ StatusOf(c) = "on" /\ StatusOf(c)' = "left"
    BY <1>1 DEF CallStep, Respond, RespondError, Disconnect, StatusOf, TypeOK
  <2> QED
    BY <2>1, <2>2, SameView DEF Outside
<1>2. CASE TaskStep(c)
  <2>1. subscribed'[c] = subscribed[c] /\ delivered'[c] = delivered[c] /\ conn'[c] = conn[c]
    BY <1>2 DEF TaskStep, Lagged, Receive, TaskEnds, Forward, Forwarded
  <2> QED
    BY <2>1, SameView DEF Outside, StatusOf
<1>3. CASE BodyYields(c)
  <2>1. LastGot(c)' = pipe[c] /\ HasLast(c)'
    BY <1>3, YieldsLast
  <2>2. StatusOf(c) = "on" /\ StatusOf(c)' = "on"
    BY <1>3 DEF BodyYields, StatusOf
  <2>3. Seen(c) \in SUBSET Nat /\ LastGot(c) \in Seen(c)
    BY ServerAssumption, MaxIsLast DEF TypeOK, Seen, Message, HasLast, LastGot
  <2>4. /\ pipe[c] \in Nat \ {0} /\ LastGot(c) < pipe[c]
        /\ pipe[c] < next[c] /\ next[c] <= sent + 1 /\ sent \in Nat /\ next[c] \in Nat
    BY <1>3, <2>3, ServerAssumption
       DEF BodyYields, TypeOK, ClientInv, Ordered, OnItsWay, Newer, Placed, Seen, Message
  <2>5. ASSUME NEW i \in LastGot(c) + 1 .. pipe[c] - 1 PROVE Overwritten(i)
    <3>1. /\ i \in Nat /\ LastGot(c) < i /\ i < pipe[c] /\ i <= sent /\ i < next[c]
      BY <2>3, <2>4
    <3> QED
      BY <1>3, <3>1, SkippedIsOverwritten DEF BodyYields
  <2>6. pipe[c] \in 1 .. sent
    BY <2>4
  <2> QED
    BY <2>1, <2>2, <2>4, <2>5, <2>6 DEF Outside
<1>4. CASE BodyEnds(c)
  <2>1. LastGot(c)' = LastGot(c) /\ HasLast(c)'
    BY <1>4, SameView DEF BodyEnds
  <2>2. StatusOf(c) = "on" /\ StatusOf(c)' = "ended"
    BY <1>4 DEF BodyEnds, StatusOf, TypeOK
  <2>3. /\ ~open /\ next[c] = sent + 1 /\ sent \in Nat
        /\ pipe[c] = Nothing /\ holding[c] = Nothing
    BY <1>4, ServerAssumption DEF BodyEnds, ClientInv, Placed, TypeOK, Consistent
  <2>4. Seen(c) \in SUBSET Nat /\ LastGot(c) \in Seen(c)
    BY ServerAssumption, MaxIsLast DEF TypeOK, Seen, Message, HasLast, LastGot
  <2>5. ASSUME NEW i \in LastGot(c) + 1 .. sent PROVE Overwritten(i)
    <3>1. i \in Nat /\ LastGot(c) < i /\ i <= sent /\ i < next[c]
      BY <2>3, <2>4
    <3> QED
      BY <1>4, <2>3, <3>1, SkippedIsOverwritten DEF BodyEnds
  <2> QED
    BY <2>1, <2>2, <2>3, <2>5 DEF Outside
<1>5. ASSUME NEW u \in RequestUris, call(c, u) PROVE Outside(c) /\ HasLast(c)'
  <2>1. CASE Intercepts(u)
    BY <1>5, <2>1, Subscribes DEF Outside, call
  <2>2. CASE ~Intercepts(u)
    <3>1. subscribed'[c] = subscribed[c] /\ delivered'[c] = delivered[c]
      BY <1>5, <2>2 DEF call
    <3>2. StatusOf(c)' = StatusOf(c)
      BY <1>5, <2>2 DEF call, StatusOf, TypeOK
    <3> QED
      BY <3>1, <3>2, SameView DEF Outside
  <2> QED
    BY <2>1, <2>2
<1> QED
  BY <1>1, <1>2, <1>3, <1>4, <1>5 DEF BodyStep

Statuses == [d \in Clients |-> StatusOf(d)]

Lasts == [d \in Clients |-> LastGot(d)]

\* One client's step outside is a step of the promise.
LEMMA OutsideIsPromise ==
  ASSUME NEW c \in Clients, Outside(c), sent \in Nat, sent' = sent, open' = open,
         \A d \in Clients \ {c} : StatusOf(d)' = StatusOf(d) /\ LastGot(d)' = LastGot(d)
  PROVE  Promise!Next \/ UNCHANGED <<Statuses, Lasts>>
<1> USE DEF Statuses, Lasts
<1>1. /\ Statuses' = [Statuses EXCEPT ![c] = StatusOf(c)']
      /\ Lasts' = [Lasts EXCEPT ![c] = LastGot(c)']
      /\ Statuses[c] = StatusOf(c) /\ Lasts[c] = LastGot(c)
  OBVIOUS
<1>2. LastGot(c)' = LastGot(c) => Lasts' = Lasts
  BY <1>1
<1>3. StatusOf(c)' = StatusOf(c) => Statuses' = Statuses
  BY <1>1
<1>4. CASE StatusOf(c)' = StatusOf(c) /\ LastGot(c)' = LastGot(c)
  BY <1>2, <1>3, <1>4
<1>5. CASE StatusOf(c) = "on" /\ StatusOf(c)' = "left" /\ LastGot(c)' = LastGot(c)
  <2>1. Promise!Leave(c)
    BY <1>1, <1>2, <1>5 DEF Promise!Leave
  <2> QED
    BY <2>1 DEF Promise!Next
<1>6. CASE StatusOf(c) = "new" /\ StatusOf(c)' = "on" /\ open /\ LastGot(c)' = sent
  <2>1. Promise!Subscribe(c)
    BY <1>1, <1>6 DEF Promise!Subscribe
  <2> QED
    BY <2>1 DEF Promise!Next
<1>7. ASSUME StatusOf(c) = "on", StatusOf(c)' = "on", NEW m \in 1 .. sent,
             LastGot(c) < m, LastGot(c)' = m,
             \A i \in LastGot(c) + 1 .. m - 1 : Overwritten(i)
      PROVE  Promise!Next
  <2>1. Promise!MissedUpTo(c, m)
    BY <1>1, <1>7 DEF Promise!MissedUpTo, Overwritten
  <2>2. Promise!Deliver(c, m)
    BY <1>1, <1>3, <1>7, <2>1 DEF Promise!Deliver
  <2> QED
    BY <2>2 DEF Promise!Next
<1>8. CASE /\ StatusOf(c) = "on" /\ StatusOf(c)' = "ended" /\ ~open /\ LastGot(c)' = LastGot(c)
           /\ \A i \in LastGot(c) + 1 .. sent : Overwritten(i)
  <2>0. sent + 1 - 1 = sent
    OBVIOUS
  <2>1. Promise!MissedUpTo(c, sent + 1)
    BY <1>1, <1>8, <2>0 DEF Promise!MissedUpTo, Overwritten
  <2>2. Promise!End(c)
    BY <1>1, <1>2, <1>8, <2>1 DEF Promise!End
  <2> QED
    BY <2>2 DEF Promise!Next
<1> QED
  BY <1>4, <1>5, <1>6, <1>7, <1>8 DEF Outside

LEMMA PromiseStep ==
  ViewInv /\ [Next]_vars => ViewInv' /\ [Promise!Next]_(Promise!vars)
<1> SUFFICES ASSUME ViewInv, [Next]_vars
             PROVE  /\ \A d \in Clients : HasLast(d)'
                    /\ Promise!Next \/ UNCHANGED <<open, sent, Statuses, Lasts>>
  BY InvStep DEF ViewInv, Promise!vars, Statuses, Lasts
<1> USE DEF ViewInv, BroadcastInv, Statuses, Lasts
<1>1. CASE send \/ DropBroadcaster \/ UNCHANGED vars
  <2>1. UNCHANGED <<conn, subscribed, delivered>>
    BY <1>1 DEF send, DropBroadcaster, vars, clientVars
  <2>2. \A d \in Clients : /\ StatusOf(d)' = StatusOf(d) /\ LastGot(d)' = LastGot(d)
                           /\ HasLast(d)' = HasLast(d)
    BY <2>1, SameView DEF StatusOf
  <2>3. UNCHANGED <<Statuses, Lasts>>
    BY <2>2
  <2>4. \/ UNCHANGED <<open, sent>>
        \/ open /\ sent' = sent + 1 /\ open' = open
        \/ open' = FALSE /\ sent' = sent
    BY <1>1 DEF send, DropBroadcaster, vars, channelVars
  <2> QED
    BY <2>2, <2>3, <2>4 DEF Promise!Next, Promise!Publish, Promise!Close
<1>2. ASSUME NEW c \in Clients,
             \/ CallStep(c) \/ TaskStep(c) \/ BodyStep(c) \/ Disconnect(c)
             \/ \E u \in RequestUris : call(c, u)
      PROVE  /\ \A d \in Clients : HasLast(d)'
             /\ Promise!Next \/ UNCHANGED <<open, sent, Statuses, Lasts>>
  <2>1. Outside(c) /\ HasLast(c)'
    BY <1>2, OutsideStep
  <2>2. \A d \in Clients \ {c} : Untouched(d)
    BY <1>2, OthersUntouched
  <2>3. sent' = sent /\ open' = open
    BY <1>2 DEF CallStep, TaskStep, BodyStep, Respond, RespondError, Lagged, Receive, TaskEnds,
       Forward, Forwarded, BodyYields, BodyEnds, Disconnect, call, channelVars
  <2>4. \A d \in Clients \ {c} : /\ StatusOf(d)' = StatusOf(d) /\ LastGot(d)' = LastGot(d)
                                 /\ HasLast(d)' = HasLast(d)
    BY <2>2, OthersSame
  <2>5. sent \in Nat
    BY ServerAssumption DEF TypeOK
  <2>6. Promise!Next \/ UNCHANGED <<Statuses, Lasts>>
    BY <2>1, <2>3, <2>4, <2>5, OutsideIsPromise
  <2> QED
    BY <2>1, <2>3, <2>4, <2>6
<1> QED
  BY <1>1, <1>2 DEF Next

LEMMA InitView == Init => ViewInv /\ Promise!Init
<1> SUFFICES ASSUME Init PROVE ViewInv /\ Promise!Init
  OBVIOUS
<1>1. ASSUME NEW d \in Clients PROVE HasLast(d) /\ LastGot(d) = 0 /\ StatusOf(d) = "new"
  <2>1. Seen(d) = {0} /\ IsLast(0, {0})
    BY DEF Init, Seen, IsLast
  <2>2. Max({0}) = 0
    BY <2>1, MaxIsLast
  <2> QED
    BY <2>1, <2>2 DEF HasLast, LastGot, StatusOf, Init
<1>2. Promise!Init
  BY <1>1 DEF Promise!Init, Init
<1> QED
  BY <1>1, <1>2, InitInv DEF ViewInv

\* The server keeps the promise of LossyBroadcast to every client, whatever the
\* others do: messages in order, none missed that the ring still holds, and an end
\* only after the last one.
THEOREM KeepsPromise == Spec => BroadcastImplemented
  BY InitView, PromiseStep, PTL DEF Spec, BroadcastImplemented, Promise!Spec
=============================================================================
