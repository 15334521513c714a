----------------------------- MODULE SseSession -----------------------------
(***************************************************************************)
(* The SSE client of mev-share-sse connected to its SSE server, as in       *)
(* src/examples/sse-server.rs: one EventStream whose owner polls it and     *)
(* calls retry(), against one SseBroadcaster behind the service.            *)
(*                                                                         *)
(* A step of this module is a step of EventStream, of SseBroadcast or of    *)
(* both: a message leaves the response body of a connection as it enters    *)
(* the inbox of the client.  What goes between them, the network, is here.  *)
(* The session begins when subscribe() has returned.                        *)
(*                                                                         *)
(* The server never sends a retry: field (server.rs:185) and this crate's   *)
(* client always decodes what it sends.                                     *)
(***************************************************************************)
EXTENDS SseBroadcast, Sequences

CONSTANTS
  First,   \* the connection of subscribe(); the other Clients are for calls of retry()
  max_retries, NoLimit, NoFuture, MaxItems, MaxCalls   \* of EventStream

VARIABLES
  \* EventStream
  state, num_retries, endpoint, future, connected_to, inbox, busy, finished, yielded,
  panicked, manual_attempts, auto_attempts, items, calls,
  \* the session
  current,   \* the connection of State::Active
  attempt,   \* the connection that retry() is making, or Nothing
  broken,    \* the client has seen the current connection fail
  unread,    \* the numbers of the messages in the inbox; 0 for what is no message
  seen       \* the messages the owner was given

Path == [path |-> path, query |-> "", form |-> "origin"]

ASSUME SessionAssumption ==
  First \in Clients /\ Nothing \notin Clients /\ Path \in RequestUris

Client == INSTANCE EventStream WITH Endpoints <- {path}, InitialEndpoint <- path

streamVars == <<state, num_retries, endpoint, future, connected_to, inbox, busy, finished,
                yielded, panicked, manual_attempts, auto_attempts, items, calls>>

serverVars == vars

linkVars == <<current, attempt, broken>>

sessionVars == <<linkVars, unread, seen>>

allVars == <<streamVars, serverVars, sessionVars>>

SessionInit ==
  /\ Client!Init
  /\ open = TRUE /\ sent = 0 /\ last_send = "none"
  /\ conn = [c \in Clients |-> IF c = First THEN "streaming" ELSE "none"]
  /\ uri = [c \in Clients |-> IF c = First THEN Path ELSE Nothing]
  /\ task = [c \in Clients |-> IF c = First THEN "waiting" ELSE "none"]
  /\ subscribed = [c \in Clients |-> 0]
  /\ next = [c \in Clients |-> 1]
  /\ holding = [c \in Clients |-> Nothing]
  /\ pipe = [c \in Clients |-> Nothing]
  /\ delivered = [c \in Clients |-> {}]
  /\ current = First
  /\ attempt = Nothing
  /\ broken = FALSE
  /\ unread = <<>>
  /\ seen = <<>>

\* The client no longer has the connection.
Abandoned(c) == c \notin {current, attempt} \/ (c = current /\ (broken \/ state # "Active"))
-----------------------------------------------------------------------------
(* The client.                                                             *)

\* The owner keeps the contract of Stream: None is the end until it retries.
OwnerPolls == ~finished /\ Client!BeginPoll /\ UNCHANGED <<serverVars, sessionVars>>

\* The inbox is read, dropped or left alone, and unread with it.
ClientReads ==
  /\ Client!PollStep
  /\ IF inbox' = inbox THEN UNCHANGED <<unread, seen>>
     ELSE /\ unread' = IF inbox' = <<>> THEN <<>> ELSE Tail(unread)
          /\ seen' = IF Head(inbox) = "event" THEN Append(seen, Head(unread)) ELSE seen
  /\ UNCHANGED <<serverVars, linkVars>>

\* retry(): each request is made on a new connection.
OwnerRetries ==
  /\ Client!retry
  /\ IF busy' = "retry"
     THEN attempt' \in {c \in Clients : conn[c] = "none" /\ c # current}
     ELSE UNCHANGED attempt
  /\ UNCHANGED <<serverVars, current, broken, unread, seen>>

\* The response has arrived; the old connection is dropped with what is unread.
RetryConnects ==
  /\ Client!RetryConnects
  /\ conn[attempt] \in {"streaming", "ended"}
  /\ current' = attempt
  /\ attempt' = Nothing
  /\ broken' = FALSE
  /\ unread' = IF inbox' = <<>> THEN <<>> ELSE unread
  /\ UNCHANGED <<serverVars, seen>>

\* The attempt fails or the owner gives it up.
RetryFails ==
  /\ Client!RetryFails
  /\ attempt' = Nothing
  /\ UNCHANGED <<serverVars, current, broken, unread, seen>>
-----------------------------------------------------------------------------
(* The server and the network.                                             *)

\* A send that fails is nothing to the session, and is left out.
ServerStep ==
  /\ \/ send /\ last_send' = "ok"
     \/ DropBroadcaster
     \/ \E c \in Clients : TaskStep(c) \/ Respond(c)
  /\ UNCHANGED <<streamVars, sessionVars>>

RequestArrives ==
  /\ attempt # Nothing
  /\ call(attempt, Path)
  /\ UNCHANGED <<streamVars, sessionVars>>

\* The body of a connection is read once the client has the response.
Transmit ==
  /\ ~broken
  /\ BodyYields(current)
  /\ Client!ServerSends("event")
  /\ unread' = Append(unread, pipe[current])
  /\ UNCHANGED <<linkVars, seen>>

TransmitEnd ==
  /\ ~broken
  /\ BodyEnds(current)
  /\ Client!ServerSends("eof")
  /\ unread' = Append(unread, 0)
  /\ UNCHANGED <<linkVars, seen>>

\* The client sees the connection fail, perhaps before the server does.
Breaks ==
  /\ ~broken
  /\ conn[current] \in {"streaming", "gone"}
  /\ Client!ServerSends("error")
  /\ broken' = TRUE
  /\ unread' = Append(unread, 0)
  /\ UNCHANGED <<serverVars, current, attempt, seen>>

\* After the error the body is over.
BreaksEnd ==
  /\ broken
  /\ Client!ServerSends("eof")
  /\ unread' = Append(unread, 0)
  /\ UNCHANGED <<serverVars, linkVars, seen>>

\* The server sees that a connection is gone, some time after the client left it.
ServerSeesGone ==
  /\ \E c \in Clients : Abandoned(c) /\ Disconnect(c)
  /\ UNCHANGED <<streamVars, sessionVars>>

SessionNext ==
  \/ OwnerPolls \/ ClientReads \/ OwnerRetries \/ RetryConnects \/ RetryFails
  \/ ServerStep \/ RequestArrives \/ Transmit \/ TransmitEnd \/ Breaks \/ BreaksEnd
  \/ ServerSeesGone

SessionSpec == SessionInit /\ [][SessionNext]_allVars

\* The owner polls until it is told None and a poll runs to its return; tokio runs
\* the tasks and calls of the server; the network moves what is in a body, ends a
\* broken connection and brings a response that was made.  The request of an attempt
\* may be lost without a trace: the client has no timeout.  Nobody has to send, to
\* retry or to drop the broadcaster, and no connection has to break.
SessionFairness ==
  /\ WF_allVars(OwnerPolls) /\ WF_allVars(ClientReads)
  /\ WF_allVars(RetryConnects)
  /\ \A c \in Clients :
       WF_allVars((TaskStep(c) \/ Respond(c)) /\ UNCHANGED <<streamVars, sessionVars>>)
  /\ WF_allVars(Transmit \/ TransmitEnd \/ BreaksEnd)

FairSession == SessionSpec /\ SessionFairness
-----------------------------------------------------------------------------
(* Properties.                                                             *)

\* Reconnecting repeats nothing and puts nothing out of order: over all its
\* connections the owner sees each message at most once, in the order of sending.
OwnerInOrder == \A i, j \in DOMAIN seen : i < j => seen[i] < seen[j]

OnTheWay(m) ==
  \/ \E i \in DOMAIN unread : unread[i] = m
  \/ m \in {pipe[current], holding[current]}
  \/ next[current] <= m

\* While a connection holds, the owner misses only messages that the ring has
\* overwritten and those sent before the connection: the others it has seen, or
\* they are on the way.
OwnerMissesOnlyOverwritten ==
  state = "Active" /\ ~broken =>
    \A m \in subscribed[current] + 1 .. sent :
      \/ \E i \in DOMAIN seen : seen[i] = m
      \/ OnTheWay(m)
      \/ Overwritten(m)

\* A message sent on a connection that holds reaches the owner, unless the ring
\* overwrites it first, the connection breaks or the owner makes a new one.
OwnerServed ==
  \A m \in 1 .. MaxMessages :
    state = "Active" /\ subscribed[current] < m /\ m <= sent
      ~> \/ \E i \in DOMAIN seen : seen[i] = m
         \/ Overwritten(m) \/ broken \/ attempt # Nothing

\* The owner awaits a connection, and its request has not reached the server.
AttemptHangs == attempt # Nothing /\ conn[attempt] = "none"

\* When the broadcaster is dropped, an owner that does not retry for ever is told
\* the end of the stream, unless it waits on an attempt that never reaches the server.
EndReachesOwner == ~open ~> finished \/ AttemptHangs
=============================================================================
