---------------------------- MODULE SseBroadcast ----------------------------
(***************************************************************************)
(* The SSE server of mev-share-sse (crates/mev-share-sse/src/server.rs):    *)
(* SseBroadcaster, SseBroadcastService behind SseBroadcastProxyService, and  *)
(* the task that forwards the broadcast to one client.                      *)
(*                                                                         *)
(* A message passes the ring of tokio's broadcast channel, the forwarding   *)
(* task and the channel of async_sse, which holds one.  Messages are        *)
(* numbered in the order they enter the ring, so the ring is the last       *)
(* `capacity` numbers up to `sent`.                                         *)
(*                                                                         *)
(* A definition named X_Y is X with the bug Y; no specification uses it.    *)
(***************************************************************************)
EXTENDS Naturals, FiniteSets

CONSTANTS
  Clients,       \* connections; each makes one request
  Readers,       \* those of them whose client keeps reading the response
  capacity,      \* of the broadcast channel
  path,          \* SseBroadcastLayer::path
  RequestUris,   \* uris that are requested, a subset of Uri
  Nothing,       \* no message, no uri
  MaxMessages    \* bound: messages that enter the ring

\* A uri in origin form is a path and a query; an absolute one, the form of every
\* HTTP/2 request, also has a scheme and an authority.
Uri == [path : {path, "other"}, query : {"", "query"}, form : {"origin", "absolute"}]

ASSUME ServerAssumption ==
  /\ Readers \subseteq Clients
  /\ capacity \in Nat \ {0}
  /\ RequestUris \subseteq Uri
  /\ Nothing \notin Nat /\ Nothing \notin Uri
  /\ MaxMessages \in Nat

VARIABLES
  open,         \* some SseBroadcaster, and with it the Sender, exists
  sent,         \* messages that entered the ring
  last_send,    \* what the last SseBroadcaster::send returned
  conn,         \* the state of a connection
  uri,          \* the uri it requested
  task,         \* its forwarding task
  subscribed,   \* the value of sent when its receiver was created
  next,         \* the first message its receiver has not passed
  holding,      \* the message its task is sending
  pipe,         \* the message in its async_sse channel
  delivered     \* the messages its response body has yielded

channelVars == <<open, sent, last_send>>
clientVars  == <<conn, uri, task, subscribed, next, holding, pipe, delivered>>
vars        == <<channelVars, clientVars>>

Message == 1 .. MaxMessages

Init ==
  /\ open = TRUE /\ sent = 0 /\ last_send = "none"
  /\ conn = [c \in Clients |-> "none"]
  /\ uri = [c \in Clients |-> Nothing]
  /\ task = [c \in Clients |-> "none"]
  /\ subscribed = [c \in Clients |-> 0]
  /\ next = [c \in Clients |-> 1]
  /\ holding = [c \in Clients |-> Nothing]
  /\ pipe = [c \in Clients |-> Nothing]
  /\ delivered = [c \in Clients |-> {}]

\* A receiver lives in the future of a call, then in the forwarding task.
Receivers == {c \in Clients : conn[c] = "calling" \/ task[c] \in {"waiting", "sending"}}

\* The message m is no longer in the ring.
Overwritten(m) == m + capacity <= sent
-----------------------------------------------------------------------------
(* SseBroadcaster.                                                         *)

\* Without a receiver the channel refuses the message; a value that does not
\* serialize does not get that far.
send ==
  /\ open
  /\ \/ last_send' = "Json" /\ UNCHANGED sent
     \/ Receivers = {} /\ last_send' = "ChannelClosed" /\ UNCHANGED sent
     \/ /\ Receivers # {}
        /\ sent < MaxMessages
        /\ sent' = sent + 1
        /\ last_send' = "ok"
  /\ UNCHANGED <<open, clientVars>>

\* The last broadcaster goes, with the service whose handler owns one.
DropBroadcaster ==
  /\ open
  /\ open' = FALSE
  /\ UNCHANGED <<sent, last_send, clientVars>>
-----------------------------------------------------------------------------
(* SseBroadcastProxyService and SseBroadcastService.                       *)

\* str == Uri compares everything the uri has, not only its path.
Intercepts(u) == u.path = path /\ u.query = "" /\ u.form = "origin"

\* The handler is SseBroadcaster::ready_stream: it subscribes when it is called,
\* before the response is awaited.
call(c, u) ==
  /\ open
  /\ conn[c] = "none"
  /\ uri' = [uri EXCEPT ![c] = u]
  /\ \/ /\ Intercepts(u)
        /\ conn' = [conn EXCEPT ![c] = "calling"]
        /\ subscribed' = [subscribed EXCEPT ![c] = sent]
        /\ next' = [next EXCEPT ![c] = sent + 1]
     \/ /\ ~Intercepts(u)
        /\ conn' = [conn EXCEPT ![c] = "inner"]
        /\ UNCHANGED <<subscribed, next>>
  /\ UNCHANGED <<channelVars, task, holding, pipe, delivered>>

\* The response goes out and the task that feeds its body is spawned.
Respond(c) ==
  /\ conn[c] = "calling"
  /\ conn' = [conn EXCEPT ![c] = "streaming"]
  /\ task' = [task EXCEPT ![c] = "waiting"]
  /\ UNCHANGED <<channelVars, uri, subscribed, next, holding, pipe, delivered>>

\* Another handler may fail: 500 INTERNAL_SERVER_ERROR.
RespondError(c) ==
  /\ conn[c] = "calling"
  /\ conn' = [conn EXCEPT ![c] = "failed"]
  /\ UNCHANGED <<channelVars, uri, task, subscribed, next, holding, pipe, delivered>>
-----------------------------------------------------------------------------
(* The forwarding task: while let Some(data) = st.next().await { send }.   *)

Lagged_SkipsToTail(c) ==
  /\ task[c] = "waiting"
  /\ Overwritten(next[c])
  /\ next' = [next EXCEPT ![c] = sent + 1]
  /\ UNCHANGED <<channelVars, conn, uri, task, subscribed, holding, pipe, delivered>>

\* The receiver learns that it lags and moves to the oldest message in the ring.
Lagged(c) ==
  /\ task[c] = "waiting"
  /\ Overwritten(next[c])
  /\ next' = [next EXCEPT ![c] = sent - capacity + 1]
  /\ UNCHANGED <<channelVars, conn, uri, task, subscribed, holding, pipe, delivered>>

Receive(c) ==
  /\ task[c] = "waiting"
  /\ next[c] <= sent
  /\ ~Overwritten(next[c])
  /\ holding' = [holding EXCEPT ![c] = next[c]]
  /\ next' = [next EXCEPT ![c] = next[c] + 1]
  /\ task' = [task EXCEPT ![c] = "sending"]
  /\ UNCHANGED <<channelVars, conn, uri, subscribed, pipe, delivered>>

TaskEnds_Undrained(c) ==
  /\ task[c] = "waiting"
  /\ ~open
  /\ task' = [task EXCEPT ![c] = "ended"]
  /\ UNCHANGED <<channelVars, conn, uri, subscribed, next, holding, pipe, delivered>>

\* The channel is closed and drained; the task drops its receiver and its sender.
TaskEnds(c) ==
  /\ task[c] = "waiting"
  /\ ~open
  /\ next[c] = sent + 1
  /\ task' = [task EXCEPT ![c] = "ended"]
  /\ UNCHANGED <<channelVars, conn, uri, subscribed, next, holding, pipe, delivered>>

\* The message has left the task, into the channel (into = the new pipe) or into
\* an error that the task ignores.
Forwarded(c, into) ==
  /\ task[c] = "sending"
  /\ pipe' = [pipe EXCEPT ![c] = into]
  /\ holding' = [holding EXCEPT ![c] = Nothing]
  /\ task' = [task EXCEPT ![c] = "waiting"]
  /\ UNCHANGED <<channelVars, conn, uri, subscribed, next, delivered>>

Forward_DropsWhenFull(c) ==
  \/ conn[c] = "streaming" /\ pipe[c] = Nothing /\ Forwarded(c, holding[c])
  \/ (conn[c] # "streaming" \/ pipe[c] # Nothing) /\ Forwarded(c, pipe[c])

Forward_SendsAgain(c) ==
  \/ /\ conn[c] = "streaming" /\ pipe[c] = Nothing /\ task[c] = "sending"
     /\ pipe' = [pipe EXCEPT ![c] = holding[c]]
     /\ UNCHANGED <<channelVars, conn, uri, task, subscribed, next, holding, delivered>>
  \/ conn[c] # "streaming" /\ Forwarded(c, pipe[c])

Forward_WaitsForGone(c) == pipe[c] = Nothing /\ conn[c] = "streaming" /\ Forwarded(c, holding[c])

\* sender.send waits for room; it fails when the body is gone, and the task goes
\* on with the next message all the same.
Forward(c) ==
  \/ conn[c] = "streaming" /\ pipe[c] = Nothing /\ Forwarded(c, holding[c])
  \/ conn[c] # "streaming" /\ Forwarded(c, pipe[c])
-----------------------------------------------------------------------------
(* The connection: hyper reads the body for a client that reads.           *)

BodyYields(c) ==
  /\ conn[c] = "streaming"
  /\ pipe[c] # Nothing
  /\ delivered' = [delivered EXCEPT ![c] = @ \cup {pipe[c]}]
  /\ pipe' = [pipe EXCEPT ![c] = Nothing]
  /\ UNCHANGED <<channelVars, conn, uri, task, subscribed, next, holding>>

\* The sender of the channel is gone and the channel is empty.
BodyEnds(c) ==
  /\ conn[c] = "streaming"
  /\ task[c] = "ended"
  /\ pipe[c] = Nothing
  /\ conn' = [conn EXCEPT ![c] = "ended"]
  /\ UNCHANGED <<channelVars, uri, task, subscribed, next, holding, pipe, delivered>>

Disconnect_KeepsPipe(c) ==
  /\ conn[c] \in {"calling", "streaming"}
  /\ conn' = [conn EXCEPT ![c] = "gone"]
  /\ UNCHANGED <<channelVars, uri, task, subscribed, next, holding, pipe, delivered>>

\* The client goes away: hyper drops the future of the call, or the body and what
\* is in its channel.  The task is not told.
Disconnect(c) ==
  /\ conn[c] \in {"calling", "streaming"}
  /\ conn' = [conn EXCEPT ![c] = "gone"]
  /\ pipe' = [pipe EXCEPT ![c] = Nothing]
  /\ UNCHANGED <<channelVars, uri, task, subscribed, next, holding, delivered>>
-----------------------------------------------------------------------------
TaskStep(c) == Lagged(c) \/ Receive(c) \/ TaskEnds(c) \/ Forward(c)

BodyStep(c) == BodyYields(c) \/ BodyEnds(c)

CallStep(c) == Respond(c) \/ RespondError(c)

Next ==
  \/ send \/ DropBroadcaster
  \/ \E c \in Clients :
       \/ \E u \in RequestUris : call(c, u)
       \/ CallStep(c) \/ TaskStep(c) \/ BodyStep(c) \/ Disconnect(c)

Spec == Init /\ [][Next]_vars

\* Tokio runs tasks and calls; the body of a reader is read.  Nobody has to send,
\* to disconnect or to drop the broadcaster, and the other clients may stall.
Fairness ==
  /\ \A c \in Clients : WF_vars(TaskStep(c)) /\ WF_vars(CallStep(c))
  /\ \A c \in Readers : WF_vars(BodyStep(c))

FairSpec == Spec /\ Fairness
-----------------------------------------------------------------------------
(* Properties.                                                             *)

Consistent(c) ==
  /\ task[c] # "none" => conn[c] \in {"streaming", "ended", "gone"}
  /\ task[c] = "sending" <=> holding[c] # Nothing
  /\ pipe[c] # Nothing => conn[c] = "streaming"

\* Every variable holds a value of its type; a task has a response, it holds a
\* message exactly when it sends one, and only a body that exists has a channel.
TypeOK ==
  /\ open \in BOOLEAN
  /\ sent \in 0 .. MaxMessages
  /\ last_send \in {"none", "ok", "Json", "ChannelClosed"}
  /\ conn \in [Clients -> {"none", "inner", "calling", "failed", "streaming", "ended", "gone"}]
  /\ uri \in [Clients -> RequestUris \cup {Nothing}]
  /\ task \in [Clients -> {"none", "waiting", "sending", "ended"}]
  /\ subscribed \in [Clients -> Nat]
  /\ next \in [Clients -> Nat \ {0}]
  /\ holding \in [Clients -> Message \cup {Nothing}]
  /\ pipe \in [Clients -> Message \cup {Nothing}]
  /\ delivered \in [Clients -> SUBSET Message]
  /\ \A c \in Clients : Consistent(c)

\* What was delivered is older than the message m.
Newer(c, m) == \A d \in delivered[c] : d < m

OnItsWay(c, m) == subscribed[c] < m /\ m < next[c] /\ Newer(c, m)

Ordered(c) ==
  /\ \A d \in delivered[c] : subscribed[c] < d /\ d < next[c]
  /\ pipe[c] # Nothing => OnItsWay(c, pipe[c])
  /\ holding[c] # Nothing => OnItsWay(c, holding[c])
  /\ holding[c] # Nothing /\ pipe[c] # Nothing => pipe[c] < holding[c]

\* A client sees the messages in the order they were sent, each at most once, and
\* none from before it subscribed: what is in the pipe is newer than all that was
\* delivered, what the task holds is newer still, and the receiver is past it.
InOrder == \A c \in Clients : Ordered(c)

Connected(c) == conn[c] \in {"calling", "streaming", "ended"}

Accounted(c, m) ==
  \/ m \in delivered[c] \cup {pipe[c], holding[c]}
  \/ next[c] <= m
  \/ Overwritten(m)

\* A client that is connected misses a message only by lagging until the ring has
\* overwritten it: the other messages since its subscription were delivered, are
\* on their way, or are still ahead of its receiver.
OnlyOverwrittenLost ==
  \A c \in Clients : Connected(c) => \A m \in subscribed[c] + 1 .. sent : Accounted(c, m)

\* A client that reads gets every message sent after it subscribed, unless it lags
\* until the message is overwritten or leaves, whatever the other clients do.
ReaderServed ==
  \A c \in Readers : \A m \in Message :
    conn[c] = "streaming" /\ subscribed[c] < m /\ m <= sent
      ~> m \in delivered[c] \/ Overwritten(m) \/ conn[c] = "gone"

\* When the broadcaster is dropped, the task of a client that reads or is gone
\* comes to an end.
TasksEnd ==
  \A c \in Clients :
    ~open /\ task[c] # "none" /\ (c \in Readers \/ conn[c] = "gone") ~> task[c] = "ended"
=============================================================================
