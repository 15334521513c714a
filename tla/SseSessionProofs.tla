-------------------------- MODULE SseSessionProofs --------------------------
(***************************************************************************)
(* Theorems about the SSE client on the SSE server, for any number of       *)
(* connections and messages, any ring and any limits of the client.         *)
(***************************************************************************)
EXTENDS SseSession, SseBroadcastProofs, SequenceTheorems
-----------------------------------------------------------------------------
(* The inductive invariant.  OwnerInOrder speaks only of what was seen; it    *)
(* holds because of what is unread and of where the connections subscribed.  *)

\* What comes over a connection.
Items == {"event", "error", "eof"}

\* What the client holds.  The server never makes it reconnect by itself, and a
\* retry is under way exactly when there is an attempt.
StreamInv ==
  /\ state \in {"Active", "End", "None"}
  /\ inbox \in Seq(Items)
  /\ unread \in Seq(Nat) /\ seen \in Seq(Nat)
  /\ Len(unread) = Len(inbox)
  /\ \A i \in DOMAIN inbox : inbox[i] = "event" <=> unread[i] # 0

\* The two connections the client may have: that of the stream, which has been
\* answered and, until it breaks, is not given up, and that of the attempt, of which
\* nothing has been read.
LinkInv ==
  /\ current \in Clients /\ conn[current] \in {"streaming", "ended", "gone"}
  /\ broken \in BOOLEAN
  /\ state = "Active" /\ ~broken => conn[current] # "gone"
  /\ attempt # Nothing <=> busy = "retry"
  /\ attempt # Nothing => /\ attempt \in Clients /\ attempt # current
                          /\ delivered[attempt] = {}
                          /\ conn[attempt] \in {"none", "calling", "streaming", "ended"}

\* A message older than everything the owner will be given.
Unseen(m) == \A i \in DOMAIN seen : seen[i] < m

\* What is unread is in order and newer than what was seen, and came over the current
\* connection.
UnreadInv ==
  \A j \in DOMAIN unread : unread[j] # 0 =>
    /\ unread[j] \in delivered[current]
    /\ Unseen(unread[j])
    /\ \A k \in DOMAIN unread : unread[k] # 0 /\ j < k => unread[j] < unread[k]

\* All that was seen before the subscription of c.
SeenBefore(c) == \A i \in DOMAIN seen : seen[i] <= subscribed[c]

\* What was seen came over the current connection or is older than it; an attempt
\* subscribes after everything that was seen.
SeenInv ==
  /\ OwnerInOrder
  /\ \A i \in DOMAIN seen : seen[i] \in delivered[current] \/ seen[i] <= subscribed[current]
  /\ attempt # Nothing => conn[attempt] = "none" \/ SeenBefore(attempt)

Got(m) ==
  \/ \E i \in DOMAIN seen : seen[i] = m
  \/ \E i \in DOMAIN unread : unread[i] = m

\* Nothing is lost between the body and the owner while the connection holds.
GotInv == state = "Active" /\ ~broken => \A m \in delivered[current] : Got(m)

SessionInv == BroadcastInv /\ StreamInv /\ LinkInv /\ UnreadInv /\ SeenInv /\ GotInv
-----------------------------------------------------------------------------
(* The server.  What the session does is a step of the server or leaves it   *)
(* alone, so the invariant of the server holds here too.                    *)

LEMMA ServerMoves ==
  ASSUME LinkInv, [SessionNext]_allVars PROVE [Next]_vars
<1> USE DEF serverVars
<1>1. CASE OwnerPolls \/ ClientReads \/ OwnerRetries \/ RetryConnects \/ RetryFails
  BY <1>1 DEF OwnerPolls, ClientReads, OwnerRetries, RetryConnects, RetryFails
<1>2. CASE Breaks \/ BreaksEnd \/ UNCHANGED allVars
  BY <1>2 DEF Breaks, BreaksEnd, allVars
<1>3. CASE ServerStep
  BY <1>3 DEF ServerStep, Next, CallStep
<1>4. CASE RequestArrives
  BY <1>4, SessionAssumption DEF RequestArrives, Next, LinkInv
<1>5. CASE Transmit \/ TransmitEnd
  BY <1>5 DEF Transmit, TransmitEnd, Next, BodyStep, LinkInv
<1>6. CASE ServerSeesGone
  BY <1>6 DEF ServerSeesGone, Next
<1> QED
  BY <1>1, <1>2, <1>3, <1>4, <1>5, <1>6 DEF SessionNext

\* The first subscription has been answered, and nothing was sent.
LEMMA ServerStarts == SessionInit => BroadcastInv
<1> SUFFICES ASSUME SessionInit PROVE BroadcastInv
  OBVIOUS
<1>1. sent \in 0 .. MaxMessages
  BY ServerAssumption DEF SessionInit
<1>2. /\ open \in BOOLEAN
      /\ last_send \in {"none", "ok", "Json", "ChannelClosed"}
      /\ conn \in [Clients -> {"none", "inner", "calling", "failed", "streaming", "ended", "gone"}]
      /\ task \in [Clients -> {"none", "waiting", "sending", "ended"}]
  BY DEF SessionInit
<1>3. /\ uri \in [Clients -> RequestUris \cup {Nothing}]
      /\ subscribed \in [Clients -> Nat]
      /\ next \in [Clients -> Nat \ {0}]
      /\ holding \in [Clients -> Message \cup {Nothing}]
      /\ pipe \in [Clients -> Message \cup {Nothing}]
      /\ delivered \in [Clients -> SUBSET Message]
  BY SessionAssumption DEF SessionInit
<1>4. ASSUME NEW c \in Clients PROVE Consistent(c) /\ Placed(c) /\ Ordered(c) /\ Complete(c)
  <2>1. /\ conn[c] \in {"streaming", "none"} /\ task[c] \in {"waiting", "none"}
        /\ task[c] # "none" => conn[c] = "streaming"
        /\ subscribed[c] = 0 /\ next[c] = 1 /\ sent = 0 /\ delivered[c] = {}
        /\ holding[c] = Nothing /\ pipe[c] = Nothing
    BY DEF SessionInit
  <2> QED
    BY <2>1 DEF Consistent, Placed, Ordered, Complete
<1> QED
  BY <1>1, <1>2, <1>3, <1>4 DEF BroadcastInv, ClientInv, TypeOK
-----------------------------------------------------------------------------
(* What a step can do to the messages between the body and the owner.      *)

SameMessages == UNCHANGED <<inbox, unread, seen>>

Reads ==
  /\ inbox # <<>>
  /\ inbox' = Tail(inbox) /\ unread' = Tail(unread)
  /\ \/ Head(inbox) = "event" /\ seen' = Append(seen, Head(unread))
     \/ Head(inbox) # "event" /\ seen' = seen

Drops == inbox' = <<>> /\ unread' = <<>> /\ seen' = seen

Arrives(item, m) ==
  /\ inbox' = Append(inbox, item) /\ unread' = Append(unread, m)
  /\ seen' = seen

LEMMA ReadsOrDrops ==
  ASSUME StreamInv, ClientReads
  PROVE  /\ busy = "poll_next" /\ busy' \in {"nothing", "poll_next"}
         /\ \/ SameMessages /\ state' \in {state, "None"}
            \/ Reads /\ state' = state
            \/ Drops /\ state' = "End"
<1> USE DEF ClientReads, Client!Turn, Client!ReturnPending, Client!ReturnItem,
            Client!ReturnNone, Client!Continue, Client!connVars, Client!ownerVars
<1>1. CASE Client!TurnTaken \/ Client!TurnEnd \/ Client!TurnActivePending
  BY <1>1 DEF Client!TurnTaken, Client!TurnEnd, Client!TurnActivePending, SameMessages
<1>2. CASE \/ Client!TurnRetryPending \/ Client!TurnRetryElapsed \/ Client!TurnRetryConnected
           \/ Client!TurnRetryRefused
  BY <1>2 DEF Client!TurnRetryPending, Client!TurnRetryElapsed, Client!TurnRetryConnected,
     Client!TurnRetryRefused, StreamInv
<1>3. CASE Client!TurnActiveRetry
  <2>1. Head(inbox) \in Items
    BY <1>3, HeadTailProperties DEF Client!TurnActiveRetry, StreamInv
  <2> QED
    BY <1>3, <2>1 DEF Client!TurnActiveRetry, Items
<1>4. CASE Client!TurnActiveItem
  <2>1. inbox # <<>> /\ inbox' = Tail(inbox) /\ state' = state
        /\ busy = "poll_next" /\ busy' = "nothing"
    BY <1>4 DEF Client!TurnActiveItem
  <2>2. Len(Tail(inbox)) = Len(inbox) - 1 /\ Len(inbox) \in Nat
    BY <2>1, HeadTailProperties, LenProperties DEF StreamInv
  <2>3. inbox' # inbox
    <3>1. Len(inbox) - 1 # Len(inbox)
      BY <2>2
    <3>2. Len(inbox') = Len(inbox) - 1
      BY <2>1, <2>2
    <3> QED
      BY <3>1, <3>2
  <2>4. inbox' = <<>> => Tail(unread) = <<>>
    <3>1. unread # <<>> /\ Len(Tail(unread)) = Len(unread) - 1 /\ Tail(unread) \in Seq(Nat)
      BY <2>1, HeadTailProperties, EmptySeq DEF StreamInv
    <3>2. inbox' = <<>> => Len(Tail(unread)) = 0
      BY <2>1, <2>2, <3>1, EmptySeq DEF StreamInv
    <3> QED
      BY <3>1, <3>2, EmptySeq
  <2> QED
    BY <2>1, <2>3, <2>4 DEF Reads
<1>5. CASE Client!TurnActiveClosed
  BY <1>5 DEF Client!TurnActiveClosed, Drops
<1> QED
  BY <1>1, <1>2, <1>3, <1>4, <1>5 DEF Client!PollStep

LEMMA UnreadTail ==
  ASSUME StreamInv, inbox # <<>>
  PROVE  /\ unread # <<>> /\ Head(unread) = unread[1] /\ unread[1] \in Nat
         /\ Head(inbox) = inbox[1] /\ 1 \in DOMAIN inbox /\ 1 \in DOMAIN unread
         /\ Tail(unread) \in Seq(Nat) /\ Tail(inbox) \in Seq(Items)
         /\ Len(Tail(unread)) = Len(Tail(inbox))
         /\ \A i \in DOMAIN Tail(unread) :
              /\ i + 1 \in DOMAIN unread /\ i \in Nat \ {0}
              /\ Tail(unread)[i] = unread[i + 1]
         /\ \A i \in DOMAIN Tail(inbox) :
              i + 1 \in DOMAIN inbox /\ Tail(inbox)[i] = inbox[i + 1]
         /\ \A i \in DOMAIN unread :
              i = 1 \/ (i - 1 \in DOMAIN Tail(unread) /\ Tail(unread)[i - 1] = unread[i])
<1>1. /\ Len(inbox) \in Nat \ {0} /\ DOMAIN inbox = 1 .. Len(inbox)
      /\ DOMAIN unread = 1 .. Len(inbox) /\ unread \in Seq(Nat)
      /\ Len(unread) = Len(inbox)
  BY EmptySeq, LenProperties DEF StreamInv
<1>2. unread # <<>>
  BY <1>1, EmptySeq
<1>3. /\ Tail(unread) \in Seq(Nat) /\ Len(Tail(unread)) = Len(inbox) - 1
      /\ \A i \in 1 .. Len(Tail(unread)) : Tail(unread)[i] = unread[i + 1]
  BY <1>1, <1>2, HeadTailProperties
<1>4. /\ Tail(inbox) \in Seq(Items) /\ Len(Tail(inbox)) = Len(inbox) - 1
      /\ \A i \in 1 .. Len(Tail(inbox)) : Tail(inbox)[i] = inbox[i + 1]
  BY HeadTailProperties DEF StreamInv
<1>5. DOMAIN Tail(unread) = 1 .. Len(inbox) - 1 /\ DOMAIN Tail(inbox) = 1 .. Len(inbox) - 1
  BY <1>3, <1>4, LenProperties
<1>6. unread[1] \in Nat
  BY <1>1, ElementOfSeq
<1>7. Head(unread) = unread[1] /\ Head(inbox) = inbox[1]
  BY <1>1, <1>2 DEF StreamInv
<1>8. \A i \in DOMAIN Tail(unread) :
        i + 1 \in DOMAIN unread /\ i \in Nat \ {0} /\ Tail(unread)[i] = unread[i + 1]
  BY <1>1, <1>3, <1>5
<1>9. \A i \in DOMAIN Tail(inbox) :
        i + 1 \in DOMAIN inbox /\ Tail(inbox)[i] = inbox[i + 1]
  BY <1>1, <1>4, <1>5
<1>10. ASSUME NEW i \in DOMAIN unread, i # 1
       PROVE  i - 1 \in DOMAIN Tail(unread) /\ Tail(unread)[i - 1] = unread[i]
  <2>1. i - 1 \in 1 .. Len(Tail(unread)) /\ i - 1 + 1 = i
    BY <1>1, <1>3, <1>10
  <2> QED
    BY <2>1, <1>3, <1>5
<1> QED
  BY <1>1, <1>2, <1>3, <1>4, <1>6, <1>7, <1>8, <1>9, <1>10

LEMMA UnreadAppend ==
  ASSUME StreamInv, NEW item \in Items, NEW m \in Nat, Arrives(item, m)
  PROVE  /\ unread' \in Seq(Nat) /\ inbox' \in Seq(Items) /\ Len(unread') = Len(inbox')
         /\ DOMAIN unread' = DOMAIN unread \cup {Len(unread) + 1}
         /\ DOMAIN inbox' = DOMAIN inbox \cup {Len(unread) + 1}
         /\ unread'[Len(unread) + 1] = m /\ inbox'[Len(unread) + 1] = item
         /\ Len(unread) \in Nat /\ DOMAIN unread = 1 .. Len(unread)
         /\ \A i \in DOMAIN unread : unread'[i] = unread[i]
         /\ \A i \in DOMAIN inbox : inbox'[i] = inbox[i]
<1>1. /\ unread \in Seq(Nat) /\ inbox \in Seq(Items)
      /\ Len(unread) \in Nat /\ Len(unread) = Len(inbox)
      /\ DOMAIN unread = 1 .. Len(unread) /\ DOMAIN inbox = 1 .. Len(inbox)
  BY LenProperties DEF StreamInv
<1>2. /\ unread' \in Seq(Nat) /\ Len(unread') = Len(unread) + 1
      /\ \A i \in 1 .. Len(unread) : unread'[i] = unread[i]
      /\ unread'[Len(unread) + 1] = m
  BY <1>1, AppendProperties DEF Arrives
<1>3. /\ inbox' \in Seq(Items) /\ Len(inbox') = Len(inbox) + 1
      /\ \A i \in 1 .. Len(inbox) : inbox'[i] = inbox[i]
      /\ inbox'[Len(inbox) + 1] = item
  BY <1>1, AppendProperties DEF Arrives
<1>4. DOMAIN unread' = 1 .. Len(unread) + 1 /\ DOMAIN inbox' = 1 .. Len(inbox) + 1
  BY <1>1, <1>2, <1>3, LenProperties
<1> QED
  BY <1>1, <1>2, <1>3, <1>4

LEMMA SeenAppend ==
  ASSUME seen \in Seq(Nat), NEW m \in Nat, seen' = Append(seen, m)
  PROVE  /\ seen' \in Seq(Nat)
         /\ DOMAIN seen' = DOMAIN seen \cup {Len(seen) + 1}
         /\ seen'[Len(seen) + 1] = m
         /\ \A i \in DOMAIN seen : seen'[i] = seen[i] /\ i < Len(seen) + 1 /\ i \in Nat
         /\ Len(seen) + 1 \in Nat
<1>1. Len(seen) \in Nat /\ DOMAIN seen = 1 .. Len(seen)
  BY LenProperties
<1>2. /\ seen' \in Seq(Nat) /\ Len(seen') = Len(seen) + 1
      /\ \A i \in 1 .. Len(seen) : seen'[i] = seen[i]
      /\ seen'[Len(seen) + 1] = m
  BY AppendProperties
<1>3. DOMAIN seen' = 1 .. Len(seen) + 1
  BY <1>2, LenProperties
<1> QED
  BY <1>1, <1>2, <1>3
-----------------------------------------------------------------------------
(* The client: StreamInv.                                                  *)

LEMMA SameStream ==
  ASSUME StreamInv, SameMessages, state' \in {"Active", "End", "None"}
  PROVE  StreamInv'
BY DEF StreamInv, SameMessages

LEMMA ReadsStream ==
  ASSUME StreamInv, Reads, state' \in {"Active", "End", "None"}
  PROVE  StreamInv'
<1>1. seen' \in Seq(Nat)
  <2>1. Head(unread) \in Nat
    BY UnreadTail DEF Reads
  <2> QED
    BY <2>1, AppendProperties DEF Reads, StreamInv
<1>2. /\ unread' \in Seq(Nat) /\ inbox' \in Seq(Items) /\ Len(unread') = Len(inbox')
  BY UnreadTail DEF Reads
<1>3. DOMAIN inbox' = DOMAIN unread'
  BY <1>2, LenProperties
<1>4. ASSUME NEW i \in DOMAIN inbox' PROVE inbox'[i] = "event" <=> unread'[i] # 0
  <2>1. /\ i + 1 \in DOMAIN inbox
        /\ inbox'[i] = inbox[i + 1] /\ unread'[i] = unread[i + 1]
    BY <1>3, <1>4, UnreadTail DEF Reads
  <2> QED
    BY <2>1 DEF StreamInv
<1> QED
  BY <1>1, <1>2, <1>4 DEF StreamInv

LEMMA EmptyStream ==
  ASSUME inbox' = <<>>, unread' = <<>>, seen' \in Seq(Nat), state' \in {"Active", "End", "None"}
  PROVE  StreamInv'
<1>1. inbox' \in Seq(Items) /\ unread' \in Seq(Nat) /\ Len(unread') = Len(inbox')
  BY EmptySeq
<1>2. DOMAIN inbox' = {}
  OBVIOUS
<1> QED
  BY <1>1, <1>2 DEF StreamInv

LEMMA ArrivesStream ==
  ASSUME StreamInv, NEW item \in Items, NEW m \in Nat, Arrives(item, m),
         item = "event" <=> m # 0, state' \in {"Active", "End", "None"}
  PROVE  StreamInv'
<1>1. /\ unread' \in Seq(Nat) /\ inbox' \in Seq(Items) /\ Len(unread') = Len(inbox')
  BY UnreadAppend
<1>2. ASSUME NEW i \in DOMAIN inbox' PROVE inbox'[i] = "event" <=> unread'[i] # 0
  <2>1. CASE i = Len(unread) + 1
    BY <2>1, UnreadAppend
  <2>2. CASE i \in DOMAIN inbox
    <3>1. DOMAIN inbox = DOMAIN unread
      BY LenProperties DEF StreamInv
    <3>2. inbox'[i] = inbox[i] /\ unread'[i] = unread[i]
      BY <2>2, <3>1, UnreadAppend
    <3> QED
      BY <2>2, <3>2 DEF StreamInv
  <2> QED
    BY <1>2, <2>1, <2>2, UnreadAppend
<1> QED
  BY <1>1, <1>2 DEF StreamInv, Arrives

LEMMA StreamStep ==
  ASSUME TypeOK, LinkInv, StreamInv, [SessionNext]_allVars PROVE StreamInv'
<1>1. state \in {"Active", "End", "None"} /\ seen \in Seq(Nat)
  BY DEF StreamInv
<1>2. CASE \/ OwnerPolls \/ OwnerRetries \/ RetryFails \/ ServerStep \/ RequestArrives
           \/ ServerSeesGone \/ UNCHANGED allVars
  <2>1. SameMessages /\ state' = state
    BY <1>2 DEF OwnerPolls, OwnerRetries, RetryFails, ServerStep, RequestArrives,
       ServerSeesGone, allVars, streamVars, sessionVars, SameMessages, Client!BeginPoll,
       Client!retry, Client!BeginRetry, Client!RetryFails, Client!connVars
  <2> QED
    BY <1>1, <2>1, SameStream
<1>3. CASE ClientReads
  BY <1>1, <1>3, ReadsOrDrops, SameStream, ReadsStream, EmptyStream DEF Drops
<1>4. CASE RetryConnects
  BY <1>1, <1>4, EmptyStream DEF RetryConnects, Client!RetryConnects
<1>5. CASE Transmit
  <2>1. pipe[current] \in Nat \ {0}
    BY <1>5, ServerAssumption DEF Transmit, BodyYields, TypeOK, Message, LinkInv
  <2> QED
    BY <1>1, <1>5, <2>1, ArrivesStream DEF Transmit, Client!ServerSends, Arrives, Items
<1>6. CASE TransmitEnd \/ Breaks \/ BreaksEnd
  <2>1. PICK item \in {"eof", "error"} : Arrives(item, 0) /\ state' = state
    BY <1>6 DEF TransmitEnd, Breaks, BreaksEnd, Client!ServerSends, Arrives
  <2>2. item \in Items /\ 0 \in Nat /\ (item = "event" <=> 0 # 0)
    BY <2>1 DEF Items
  <2> QED
    BY <1>1, <2>1, <2>2, ArrivesStream
<1> QED
  BY <1>2, <1>3, <1>4, <1>5, <1>6 DEF SessionNext
-----------------------------------------------------------------------------
(* The connections: LinkInv.                                               *)

LEMMA LinkStep ==
  ASSUME TypeOK, \A c \in Clients : Placed(c), StreamInv, LinkInv, [SessionNext]_allVars
  PROVE  LinkInv'
<1> USE DEF LinkInv
<1>1. CASE OwnerPolls
  BY <1>1 DEF OwnerPolls, Client!BeginPoll, Client!Free, serverVars, vars, clientVars,
     sessionVars, linkVars
<1>2. CASE ClientReads
  <2>1. /\ UNCHANGED <<conn, delivered, current, attempt, broken>>
    BY <1>2 DEF ClientReads, serverVars, vars, clientVars, linkVars
  <2>2. busy # "retry" /\ busy' # "retry" /\ (state' = "Active" => state = "Active")
    BY <1>2, ReadsOrDrops
  <2> QED
    BY <2>1, <2>2
<1>3. CASE OwnerRetries
  <2>1. /\ UNCHANGED <<conn, delivered, current, broken, state>>
    BY <1>3 DEF OwnerRetries, serverVars, vars, clientVars, Client!retry, Client!BeginRetry
  <2>2. attempt = Nothing /\ busy = "nothing"
    BY <1>3 DEF OwnerRetries, Client!retry, Client!BeginRetry, Client!Free
  <2>3. CASE busy' = "retry"
    <3>1. attempt' \in Clients /\ conn[attempt'] = "none" /\ attempt' # current
      BY <1>3, <2>3 DEF OwnerRetries
    <3>2. delivered[attempt'] = {} /\ attempt' # Nothing
      BY <3>1, SessionAssumption DEF Placed
    <3> QED
      BY <2>1, <2>3, <3>1, <3>2
  <2>4. CASE busy' # "retry"
    BY <1>3, <2>1, <2>2, <2>4 DEF OwnerRetries
  <2> QED
    BY <2>3, <2>4
<1>4. CASE RetryConnects
  BY <1>4 DEF RetryConnects, Client!RetryConnects, serverVars, vars, clientVars
<1>5. CASE RetryFails
  BY <1>5 DEF RetryFails, Client!RetryFails, serverVars, vars, clientVars
<1>6. CASE ServerStep
  <2>1. UNCHANGED <<state, busy, current, attempt, broken>>
    BY <1>6 DEF ServerStep, streamVars, sessionVars, linkVars
  <2>2. CASE UNCHANGED <<conn, delivered>>
    BY <2>1, <2>2
  <2>3. ASSUME NEW c \in Clients, Respond(c) PROVE LinkInv'
    <3>1. /\ conn' = [conn EXCEPT ![c] = "streaming"] /\ delivered' = delivered
          /\ conn[c] = "calling" /\ c # current
      BY <2>3 DEF Respond
    <3>2. conn'[current] = conn[current]
      BY <3>1 DEF TypeOK
    <3>3. attempt # Nothing => conn'[attempt] = conn[attempt] \/ conn'[attempt] = "streaming"
      BY <3>1 DEF TypeOK
    <3> QED
      BY <2>1, <3>1, <3>2, <3>3
  <2> QED
    BY <1>6, <2>2, <2>3 DEF ServerStep, send, DropBroadcaster, TaskStep, Lagged, Receive,
       TaskEnds, Forward, Forwarded, clientVars
<1>7. CASE RequestArrives
  <2>1. UNCHANGED <<state, busy, current, attempt, broken>>
    BY <1>7 DEF RequestArrives, streamVars, sessionVars, linkVars
  <2>2. Intercepts(Path)
    BY DEF Intercepts, Path
  <2>3. /\ attempt # Nothing /\ conn' = [conn EXCEPT ![attempt] = "calling"]
        /\ delivered' = delivered
    BY <1>7, <2>2 DEF RequestArrives, call
  <2>4. conn'[attempt] = "calling" /\ conn'[current] = conn[current]
    BY <2>3 DEF TypeOK
  <2> QED
    BY <2>1, <2>3, <2>4
<1>8. CASE Transmit
  <2>1. UNCHANGED <<state, busy, current, attempt, broken, conn>>
    BY <1>8 DEF Transmit, BodyYields, Client!ServerSends, linkVars
  <2>2. attempt # Nothing => delivered'[attempt] = delivered[attempt]
    BY <1>8 DEF Transmit, BodyYields, TypeOK
  <2> QED
    BY <2>1, <2>2
<1>9. CASE TransmitEnd
  <2>1. UNCHANGED <<state, busy, current, attempt, broken, delivered>>
    BY <1>9 DEF TransmitEnd, BodyEnds, Client!ServerSends, linkVars
  <2>2. conn'[current] = "ended" /\ (attempt # Nothing => conn'[attempt] = conn[attempt])
    BY <1>9 DEF TransmitEnd, BodyEnds, TypeOK
  <2> QED
    BY <2>1, <2>2
<1>10. CASE Breaks \/ BreaksEnd
  BY <1>10 DEF Breaks, BreaksEnd, Client!ServerSends, linkVars, serverVars, vars, clientVars
<1>11. ASSUME NEW c \in Clients, Abandoned(c), Disconnect(c), UNCHANGED <<streamVars, sessionVars>>
       PROVE  LinkInv'
  <2>1. UNCHANGED <<state, busy, current, attempt, broken, delivered>>
    BY <1>11 DEF Disconnect, streamVars, sessionVars, linkVars
  <2>2. attempt # Nothing => conn'[attempt] = conn[attempt]
    BY <1>11 DEF Disconnect, Abandoned, TypeOK
  <2>3. \/ conn'[current] = conn[current]
        \/ conn'[current] = "gone" /\ (broken \/ state # "Active")
    BY <1>11 DEF Disconnect, Abandoned, TypeOK
  <2> QED
    BY <2>1, <2>2, <2>3
<1>12. CASE UNCHANGED allVars
  BY <1>12 DEF allVars, streamVars, sessionVars, linkVars, serverVars, vars, clientVars
<1> QED
  BY <1>1, <1>2, <1>3, <1>4, <1>5, <1>6, <1>7, <1>8, <1>9, <1>10, <1>11, <1>12
     DEF SessionNext, ServerSeesGone
-----------------------------------------------------------------------------
(* The messages: UnreadInv, SeenInv and GotInv.  A step moves them in one of *)
(* six ways.                                                               *)

SameConnection ==
  /\ current' = current
  /\ delivered' = delivered
  /\ subscribed'[current] = subscribed[current]
  /\ state' = "Active" /\ ~broken' => state = "Active" /\ ~broken

Stays == SameMessages /\ SameConnection

OwnerReads == Reads /\ SameConnection

\* The body is over, and with it the stream.
StreamEnds == Drops /\ SameConnection /\ state' # "Active"

Reconnects ==
  /\ attempt # Nothing /\ conn[attempt] # "none"
  /\ current' = attempt
  /\ unread' = <<>> /\ seen' = seen
  /\ delivered' = delivered /\ subscribed' = subscribed

\* What arrives is no message, or the message in the pipe.
NothingArrives == (\E item \in Items : Arrives(item, 0)) /\ SameConnection

MessageArrives ==
  /\ pipe[current] # Nothing
  /\ Arrives("event", pipe[current])
  /\ current' = current /\ subscribed' = subscribed
  /\ delivered'[current] = delivered[current] \cup {pipe[current]}
  /\ state' = "Active" /\ ~broken' => state = "Active" /\ ~broken

LEMMA SixWays ==
  ASSUME TypeOK, StreamInv, LinkInv, [SessionNext]_allVars
  PROVE  \/ Stays \/ OwnerReads \/ StreamEnds \/ Reconnects \/ NothingArrives
         \/ MessageArrives
<1> USE DEF LinkInv
<1>1. CASE OwnerPolls \/ OwnerRetries \/ RetryFails \/ UNCHANGED allVars
  BY <1>1 DEF OwnerPolls, OwnerRetries, RetryFails, allVars, serverVars, vars, clientVars,
     streamVars, sessionVars, linkVars, Client!BeginPoll, Client!retry, Client!BeginRetry,
     Client!RetryFails, Client!connVars, Stays, SameMessages, SameConnection
<1>2. CASE ClientReads
  <2>1. UNCHANGED <<current, delivered, subscribed, broken>>
    BY <1>2 DEF ClientReads, serverVars, vars, clientVars, linkVars
  <2> QED
    BY <1>2, <2>1, ReadsOrDrops DEF Stays, OwnerReads, StreamEnds, SameConnection
<1>3. CASE RetryConnects
  BY <1>3 DEF RetryConnects, Client!RetryConnects, Reconnects, serverVars, vars, clientVars
<1>4. CASE ServerStep
  <2>1. UNCHANGED <<delivered, subscribed>>
    BY <1>4 DEF ServerStep, send, DropBroadcaster, TaskStep, Lagged, Receive, TaskEnds, Forward,
       Forwarded, Respond, clientVars
  <2> QED
    BY <1>4, <2>1 DEF ServerStep, streamVars, sessionVars, linkVars, Stays, SameMessages,
       SameConnection
<1>5. CASE RequestArrives
  <2>1. delivered' = delivered /\ subscribed'[current] = subscribed[current]
    BY <1>5 DEF RequestArrives, call, TypeOK
  <2> QED
    BY <1>5, <2>1 DEF RequestArrives, streamVars, sessionVars, linkVars, Stays, SameMessages,
       SameConnection
<1>6. CASE ServerSeesGone
  <2>1. UNCHANGED <<delivered, subscribed>>
    BY <1>6 DEF ServerSeesGone, Disconnect
  <2> QED
    BY <1>6, <2>1 DEF ServerSeesGone, streamVars, sessionVars, linkVars, Stays, SameMessages,
       SameConnection
<1>7. CASE Transmit
  BY <1>7 DEF Transmit, BodyYields, Client!ServerSends, linkVars, MessageArrives, Arrives, TypeOK
<1>8. CASE TransmitEnd \/ Breaks \/ BreaksEnd
  <2>1. PICK item \in {"eof", "error"} : Arrives(item, 0)
    BY <1>8 DEF TransmitEnd, Breaks, BreaksEnd, Client!ServerSends, Arrives
  <2>2. UNCHANGED <<current, delivered, subscribed, state>> /\ (broken => broken')
    BY <1>8 DEF TransmitEnd, Breaks, BreaksEnd, Client!ServerSends, linkVars, BodyEnds,
       serverVars, vars, clientVars
  <2> QED
    BY <2>1, <2>2 DEF NothingArrives, SameConnection, Items
<1> QED
  BY <1>1, <1>2, <1>3, <1>4, <1>5, <1>6, <1>7, <1>8 DEF SessionNext

\* A message that a body yields is newer than all that was seen or is unread.
LEMMA NewestArrives ==
  ASSUME TypeOK, StreamInv, LinkInv, UnreadInv, SeenInv, Ordered(current), MessageArrives
  PROVE  /\ pipe[current] \in Nat \ {0}
         /\ Unseen(pipe[current])
         /\ \A j \in DOMAIN unread : unread[j] < pipe[current]
<1>1. pipe[current] \in Nat \ {0}
  BY ServerAssumption DEF MessageArrives, TypeOK, Message, LinkInv
<1>2. /\ subscribed[current] \in Nat /\ subscribed[current] < pipe[current]
      /\ \A d \in delivered[current] : d < pipe[current]
  BY DEF Ordered, OnItsWay, Newer, MessageArrives, TypeOK, LinkInv
<1>3. ASSUME NEW i \in DOMAIN seen PROVE seen[i] < pipe[current]
  <2>1. seen[i] \in Nat
    BY LenProperties, ElementOfSeq DEF StreamInv
  <2>2. seen[i] \in delivered[current] \/ seen[i] <= subscribed[current]
    BY DEF SeenInv
  <2> QED
    BY <1>1, <1>2, <2>1, <2>2
<1>4. ASSUME NEW j \in DOMAIN unread PROVE unread[j] < pipe[current]
  BY <1>1, <1>2 DEF UnreadInv
<1> QED
  BY <1>1, <1>3, <1>4 DEF Unseen

LEMMA UnreadStep ==
  ASSUME TypeOK, StreamInv, LinkInv, UnreadInv, SeenInv, Ordered(current),
         [SessionNext]_allVars
  PROVE  UnreadInv'
<1>1. CASE Stays
  BY <1>1 DEF Stays, SameMessages, SameConnection, UnreadInv, Unseen
<1>2. CASE StreamEnds \/ Reconnects
  <2>1. DOMAIN unread' = {}
    BY <1>2 DEF StreamEnds, Drops, Reconnects
  <2> QED
    BY <2>1 DEF UnreadInv
<1>3. CASE OwnerReads
  <2>1. /\ inbox # <<>> /\ unread' = Tail(unread) /\ delivered' = delivered /\ current' = current
        /\ \/ Head(inbox) = "event" /\ seen' = Append(seen, Head(unread))
           \/ Head(inbox) # "event" /\ seen' = seen
    BY <1>3 DEF OwnerReads, Reads, SameConnection
  <2>2. ASSUME NEW j \in DOMAIN unread', unread'[j] # 0
        PROVE  /\ unread'[j] \in delivered'[current']
               /\ \A i \in DOMAIN seen' : seen'[i] < unread'[j]
               /\ \A k \in DOMAIN unread' :
                     unread'[k] # 0 /\ j < k => unread'[j] < unread'[k]
    <3>1. /\ j + 1 \in DOMAIN unread /\ j \in Nat \ {0} /\ unread'[j] = unread[j + 1]
          /\ 1 \in DOMAIN unread /\ 1 < j + 1
      BY <2>1, <2>2, UnreadTail
    <3>2. unread[j + 1] \in delivered[current] /\ Unseen(unread[j + 1])
      BY <2>2, <3>1 DEF UnreadInv
    <3>3. ASSUME NEW k \in DOMAIN unread', unread'[k] # 0, j < k PROVE unread'[j] < unread'[k]
      <4>1. k + 1 \in DOMAIN unread /\ k \in Nat /\ unread'[k] = unread[k + 1]
        BY <2>1, UnreadTail
      <4>2. j + 1 < k + 1
        BY <3>1, <3>3, <4>1
      <4> QED
        BY <2>2, <3>1, <3>3, <4>1, <4>2 DEF UnreadInv
    <3>4. \A i \in DOMAIN seen' : seen'[i] < unread'[j]
      <4>1. CASE seen' = seen
        BY <3>1, <3>2, <4>1 DEF Unseen
      <4>2. CASE Head(inbox) = "event" /\ seen' = Append(seen, Head(unread))
        <5>1. unread[1] # 0 /\ Head(unread) = unread[1] /\ unread[1] \in Nat
          BY <2>1, <4>2, UnreadTail DEF StreamInv
        <5>2. unread[1] < unread[j + 1]
          BY <2>2, <3>1, <5>1 DEF UnreadInv
        <5>3. /\ DOMAIN seen' = DOMAIN seen \cup {Len(seen) + 1}
              /\ seen'[Len(seen) + 1] = unread[1]
              /\ \A i \in DOMAIN seen : seen'[i] = seen[i]
          BY <4>2, <5>1, SeenAppend DEF StreamInv
        <5> QED
          BY <3>1, <3>2, <5>2, <5>3 DEF Unseen
      <4> QED
        BY <2>1, <4>1, <4>2
    <3> QED
      BY <2>1, <3>1, <3>2, <3>3, <3>4
  <2> QED
    BY <2>2 DEF UnreadInv, Unseen
<1>4. ASSUME NEW m \in Nat, NEW item \in Items, Arrives(item, m), current' = current,
             \/ m = 0 /\ delivered' = delivered
             \/ m \in delivered'[current] /\ delivered[current] \subseteq delivered'[current],
             m # 0 => Unseen(m) /\ \A j \in DOMAIN unread : unread[j] < m
      PROVE  UnreadInv'
  <2>1. seen' = seen
    BY <1>4 DEF Arrives
  <2>2. /\ DOMAIN unread' = DOMAIN unread \cup {Len(unread) + 1}
        /\ unread'[Len(unread) + 1] = m
        /\ Len(unread) \in Nat /\ DOMAIN unread = 1 .. Len(unread)
        /\ \A i \in DOMAIN unread : unread'[i] = unread[i]
    BY <1>4, UnreadAppend
  <2>3. ASSUME NEW j \in DOMAIN unread', unread'[j] # 0
        PROVE  /\ unread'[j] \in delivered'[current']
               /\ \A i \in DOMAIN seen' : seen'[i] < unread'[j]
               /\ \A k \in DOMAIN unread' :
                     unread'[k] # 0 /\ j < k => unread'[j] < unread'[k]
    <3>1. CASE j \in DOMAIN unread
      <4>1. unread[j] # 0 /\ unread'[j] = unread[j]
        BY <2>2, <2>3, <3>1
      <4>2. /\ unread[j] \in delivered[current] /\ Unseen(unread[j])
            /\ \A k \in DOMAIN unread : unread[k] # 0 /\ j < k => unread[j] < unread[k]
        BY <3>1, <4>1 DEF UnreadInv
      <4>3. \A i \in DOMAIN seen' : seen'[i] < unread'[j]
        BY <2>1, <4>1, <4>2 DEF Unseen
      <4>4. ASSUME NEW k \in DOMAIN unread', unread'[k] # 0, j < k PROVE unread'[j] < unread'[k]
        <5>1. CASE k \in DOMAIN unread
          BY <2>2, <4>1, <4>2, <4>4, <5>1
        <5>2. CASE k = Len(unread) + 1
          BY <1>4, <2>2, <3>1, <4>1, <4>4, <5>2
        <5> QED
          BY <2>2, <4>4, <5>1, <5>2
      <4> QED
        BY <1>4, <4>1, <4>2, <4>3, <4>4
    <3>2. CASE j = Len(unread) + 1
      <4>1. unread'[j] = m /\ m # 0
        BY <2>2, <2>3, <3>2
      <4>2. \A k \in DOMAIN unread' : ~(j < k)
        BY <2>2, <3>2
      <4>3. \A i \in DOMAIN seen' : seen'[i] < unread'[j]
        BY <1>4, <2>1, <4>1 DEF Unseen
      <4> QED
        BY <1>4, <4>1, <4>2, <4>3
    <3> QED
      BY <2>2, <2>3, <3>1, <3>2
  <2> QED
    BY <2>3 DEF UnreadInv, Unseen
<1>5. CASE NothingArrives
  BY <1>4, <1>5 DEF NothingArrives, SameConnection
<1>6. CASE MessageArrives
  <2>1. "event" \in Items
    BY DEF Items
  <2> QED
    BY <1>4, <1>6, <2>1, NewestArrives DEF MessageArrives
<1> QED
  BY <1>1, <1>2, <1>3, <1>5, <1>6, SixWays

\* What the owner is given keeps the order.
LEMMA SeenInOrder ==
  ASSUME StreamInv, UnreadInv, SeenInv, OwnerReads
  PROVE  OwnerInOrder'
<1>1. CASE seen' = seen
  BY <1>1 DEF SeenInv, OwnerInOrder
<1>2. CASE Head(inbox) = "event" /\ seen' = Append(seen, Head(unread))
  <2>1. /\ 1 \in DOMAIN unread /\ Head(unread) = unread[1] /\ unread[1] \in Nat \ {0}
    BY <1>2, UnreadTail DEF StreamInv, OwnerReads, Reads
  <2>2. \A i \in DOMAIN seen : seen[i] < unread[1]
    BY <2>1 DEF UnreadInv, Unseen
  <2>3. /\ DOMAIN seen' = DOMAIN seen \cup {Len(seen) + 1}
        /\ seen'[Len(seen) + 1] = unread[1] /\ Len(seen) + 1 \in Nat
        /\ \A i \in DOMAIN seen : seen'[i] = seen[i] /\ i < Len(seen) + 1 /\ i \in Nat
    BY <1>2, <2>1, SeenAppend DEF StreamInv
  <2>4. ASSUME NEW i \in DOMAIN seen', NEW j \in DOMAIN seen', i < j PROVE seen'[i] < seen'[j]
    <3>1. i \in DOMAIN seen
      BY <2>3, <2>4
    <3>2. CASE j \in DOMAIN seen
      BY <2>3, <2>4, <3>1, <3>2 DEF SeenInv, OwnerInOrder
    <3>3. CASE j = Len(seen) + 1
      BY <2>2, <2>3, <3>1, <3>3
    <3> QED
      BY <2>3, <3>2, <3>3
  <2> QED
    BY <2>4 DEF OwnerInOrder
<1> QED
  BY <1>1, <1>2 DEF OwnerReads, Reads

LEMMA SeenFromHere ==
  ASSUME StreamInv, UnreadInv, SeenInv, OwnerReads, NEW i \in DOMAIN seen'
  PROVE  seen'[i] \in delivered'[current'] \/ seen'[i] <= subscribed'[current']
<1>1. current' = current /\ delivered' = delivered /\ subscribed'[current] = subscribed[current]
  BY DEF OwnerReads, SameConnection
<1>2. CASE seen' = seen
  BY <1>1, <1>2 DEF SeenInv
<1>3. CASE Head(inbox) = "event" /\ seen' = Append(seen, Head(unread))
  <2>1. /\ 1 \in DOMAIN unread /\ Head(unread) = unread[1] /\ unread[1] \in Nat \ {0}
    BY <1>3, UnreadTail DEF StreamInv, OwnerReads, Reads
  <2>2. unread[1] \in delivered[current]
    BY <2>1 DEF UnreadInv
  <2>3. /\ DOMAIN seen' = DOMAIN seen \cup {Len(seen) + 1}
        /\ seen'[Len(seen) + 1] = unread[1]
        /\ \A k \in DOMAIN seen : seen'[k] = seen[k]
    BY <1>3, <2>1, SeenAppend DEF StreamInv
  <2> QED
    BY <1>1, <2>2, <2>3 DEF SeenInv
<1> QED
  BY <1>2, <1>3 DEF OwnerReads, Reads

\* While a retry is under way the owner is given nothing, and its request comes
\* after all that was sent before.
LEMMA AttemptSubscribesLate ==
  ASSUME TypeOK, \A c \in Clients : ClientInv(c), StreamInv, LinkInv, SeenInv,
         [SessionNext]_allVars, LinkInv', attempt' # Nothing
  PROVE  conn'[attempt'] # "none" => \A i \in DOMAIN seen' : seen'[i] <= subscribed'[attempt']
<1> SUFFICES ASSUME conn'[attempt'] # "none"
             PROVE  \A i \in DOMAIN seen' : seen'[i] <= subscribed'[attempt']
  OBVIOUS
<1>1. busy' = "retry"
  BY DEF LinkInv
<1>2. ~ClientReads /\ ~RetryConnects /\ ~RetryFails /\ ~OwnerPolls
  BY <1>1, ReadsOrDrops DEF RetryConnects, RetryFails, OwnerPolls, Client!BeginPoll,
     Client!RetryConnects, Client!RetryFails
<1>3. CASE OwnerRetries
  <2>1. busy # "retry" /\ conn' = conn
    BY <1>3 DEF OwnerRetries, Client!retry, Client!BeginRetry, Client!Free, serverVars, vars,
       clientVars
  <2>2. conn[attempt'] = "none"
    BY <1>1, <1>3 DEF OwnerRetries
  <2> QED
    BY <2>1, <2>2
<1>4. CASE RequestArrives
  <2>1. /\ attempt' = attempt /\ seen' = seen /\ attempt \in Clients
    BY <1>4 DEF RequestArrives, sessionVars, linkVars, LinkInv
  <2>2. Intercepts(Path)
    BY DEF Intercepts, Path
  <2>3. subscribed'[attempt] = sent
    BY <1>4, <2>1, <2>2 DEF RequestArrives, call, TypeOK
  <2>4. ASSUME NEW i \in DOMAIN seen PROVE seen[i] <= sent
    <3>1. seen[i] \in Nat
      BY LenProperties, ElementOfSeq DEF StreamInv
    <3>2. seen[i] \in delivered[current] \/ seen[i] <= subscribed[current]
      BY DEF SeenInv
    <3>3. /\ current \in Clients /\ Ordered(current) /\ Placed(current)
          /\ conn[current] \notin {"none", "inner"}
      BY DEF LinkInv, ClientInv
    <3>4. /\ subscribed[current] <= sent /\ next[current] <= sent + 1
          /\ sent \in Nat /\ next[current] \in Nat /\ subscribed[current] \in Nat
      BY <3>3, ServerAssumption DEF Placed, TypeOK
    <3>5. seen[i] \in delivered[current] => seen[i] < next[current]
      BY <3>3 DEF Ordered
    <3> QED
      BY <3>1, <3>2, <3>4, <3>5
  <2> QED
    BY <2>1, <2>3, <2>4
<1>5. CASE /\ UNCHANGED <<attempt, seen, subscribed>>
           /\ conn'[attempt] # "none" => conn[attempt] # "none"
  BY <1>5 DEF SeenInv, SeenBefore
<1>6. CASE ServerStep
  <2>1. UNCHANGED <<attempt, seen, subscribed>>
    BY <1>6 DEF ServerStep, send, DropBroadcaster, TaskStep, Lagged, Receive, TaskEnds, Forward,
       Forwarded, Respond, clientVars, sessionVars, linkVars
  <2>2. conn'[attempt] # "none" => conn[attempt] # "none"
    BY <1>6, <2>1 DEF ServerStep, send, DropBroadcaster, TaskStep, Lagged, Receive, TaskEnds,
       Forward, Forwarded, Respond, clientVars, TypeOK, LinkInv
  <2> QED
    BY <1>5, <2>1, <2>2
<1>7. CASE Transmit \/ TransmitEnd \/ Breaks \/ BreaksEnd
  <2>1. UNCHANGED <<attempt, seen, subscribed>>
    BY <1>7 DEF Transmit, TransmitEnd, Breaks, BreaksEnd, BodyYields, BodyEnds, linkVars,
       serverVars, vars, clientVars
  <2>2. conn'[attempt] # "none" => conn[attempt] # "none"
    BY <1>7, <2>1 DEF Transmit, TransmitEnd, Breaks, BreaksEnd, BodyYields, BodyEnds,
       serverVars, vars, clientVars, TypeOK, LinkInv
  <2> QED
    BY <1>5, <2>1, <2>2
<1>8. CASE ServerSeesGone
  <2>1. UNCHANGED <<attempt, seen, subscribed>>
    BY <1>8 DEF ServerSeesGone, Disconnect, sessionVars, linkVars
  <2>2. conn'[attempt] # "none" => conn[attempt] # "none"
    BY <1>8, <2>1 DEF ServerSeesGone, Disconnect, TypeOK, LinkInv
  <2> QED
    BY <1>5, <2>1, <2>2
<1>9. CASE UNCHANGED allVars
  BY <1>5, <1>9 DEF allVars, serverVars, vars, clientVars, sessionVars, linkVars
<1> QED
  BY <1>2, <1>3, <1>4, <1>6, <1>7, <1>8, <1>9 DEF SessionNext

LEMMA SeenStep ==
  ASSUME TypeOK, \A c \in Clients : ClientInv(c), StreamInv, LinkInv, UnreadInv, SeenInv,
         [SessionNext]_allVars, LinkInv'
  PROVE  SeenInv'
<1>1. attempt' # Nothing /\ conn'[attempt'] # "none" =>
        \A i \in DOMAIN seen' : seen'[i] <= subscribed'[attempt']
  BY AttemptSubscribesLate
<1>2. OwnerInOrder' /\ \A i \in DOMAIN seen' :
        seen'[i] \in delivered'[current'] \/ seen'[i] <= subscribed'[current']
  <2>1. CASE OwnerReads
    BY <2>1, SeenInOrder, SeenFromHere
  <2>2. CASE Stays \/ StreamEnds \/ NothingArrives
    BY <2>2 DEF Stays, StreamEnds, NothingArrives, SameMessages, Drops, Arrives, SameConnection,
       SeenInv, OwnerInOrder
  <2>3. CASE Reconnects
    BY <2>3 DEF Reconnects, SeenInv, SeenBefore, OwnerInOrder
  <2>4. CASE MessageArrives
    BY <2>4 DEF MessageArrives, Arrives, SeenInv, OwnerInOrder
  <2> QED
    BY <2>1, <2>2, <2>3, <2>4, SixWays
<1> QED
  BY <1>1, <1>2 DEF SeenInv, SeenBefore

\* The owner gets what is read, and what arrives is unread.
LEMMA GotKept ==
  ASSUME StreamInv, NEW m \in Nat \ {0}, Got(m),
         SameMessages \/ Reads \/ \E item \in Items, n \in Nat : Arrives(item, n)
  PROVE  Got(m)'
<1>1. CASE SameMessages
  BY <1>1 DEF SameMessages, Got
<1>2. CASE Reads
  <2>1. /\ unread[1] \in Nat /\ Head(unread) = unread[1] /\ Head(inbox) = inbox[1]
        /\ 1 \in DOMAIN inbox
        /\ \A i \in DOMAIN unread :
             i = 1 \/ (i - 1 \in DOMAIN Tail(unread) /\ Tail(unread)[i - 1] = unread[i])
    BY <1>2, UnreadTail DEF Reads
  <2>2. seen' = Append(seen, unread[1]) =>
          /\ DOMAIN seen' = DOMAIN seen \cup {Len(seen) + 1} /\ seen'[Len(seen) + 1] = unread[1]
          /\ \A i \in DOMAIN seen : seen'[i] = seen[i]
    BY <2>1, SeenAppend DEF StreamInv
  <2>3. seen' = Append(seen, unread[1]) \/ (unread[1] = 0 /\ seen' = seen)
    BY <1>2, <2>1 DEF Reads, StreamInv
  <2>4. CASE \E i \in DOMAIN seen : seen[i] = m
    BY <2>2, <2>3, <2>4 DEF Got
  <2>5. ASSUME NEW i \in DOMAIN unread, unread[i] = m PROVE Got(m)'
    <3>1. CASE i = 1
      BY <2>2, <2>3, <2>5, <3>1 DEF Got
    <3>2. CASE i # 1
      BY <1>2, <2>1, <2>5, <3>2 DEF Got, Reads
    <3> QED
      BY <3>1, <3>2
  <2> QED
    BY <2>4, <2>5 DEF Got
<1>3. ASSUME NEW item \in Items, NEW n \in Nat, Arrives(item, n) PROVE Got(m)'
  <2>1. /\ seen' = seen /\ DOMAIN unread \subseteq DOMAIN unread'
        /\ \A i \in DOMAIN unread : unread'[i] = unread[i]
    BY <1>3, UnreadAppend DEF Arrives
  <2> QED
    BY <2>1 DEF Got
<1> QED
  BY <1>1, <1>2, <1>3

LEMMA GotStep ==
  ASSUME TypeOK, StreamInv, LinkInv, GotInv, [SessionNext]_allVars
  PROVE  GotInv'
<1>1. delivered[current] \subseteq Nat \ {0}
  BY ServerAssumption DEF TypeOK, Message, LinkInv
<1>2. 0 \in Nat /\ "event" \in Items
  BY DEF Items
<1>3. CASE Stays \/ OwnerReads \/ NothingArrives
  <2>1. /\ SameConnection
        /\ SameMessages \/ Reads \/ \E item \in Items, n \in Nat : Arrives(item, n)
    BY <1>2, <1>3 DEF Stays, OwnerReads, NothingArrives
  <2>2. \A m \in delivered[current] : Got(m) => Got(m)'
    BY <1>1, <2>1, GotKept
  <2> QED
    BY <2>1, <2>2 DEF GotInv, SameConnection
<1>4. CASE StreamEnds
  BY <1>4 DEF StreamEnds, GotInv
<1>5. CASE Reconnects
  <2>1. delivered'[current'] = {}
    BY <1>5 DEF Reconnects, LinkInv
  <2> QED
    BY <2>1 DEF GotInv
<1>6. CASE MessageArrives
  <2>1. pipe[current] \in Nat \ {0} /\ Arrives("event", pipe[current]) /\ current' = current
    BY <1>6, ServerAssumption DEF MessageArrives, TypeOK, Message, LinkInv
  <2>2. \A m \in delivered[current] : Got(m) => Got(m)'
    BY <1>1, <1>2, <2>1, GotKept
  <2>3. ASSUME NEW m \in delivered'[current'], m = pipe[current] PROVE Got(m)'
    <3>1. DOMAIN unread' = DOMAIN unread \cup {Len(unread) + 1}
          /\ unread'[Len(unread) + 1] = pipe[current]
      BY <1>2, <2>1, UnreadAppend
    <3> QED
      BY <2>3, <3>1 DEF Got
  <2> QED
    BY <1>6, <2>2, <2>3 DEF GotInv, MessageArrives
<1> QED
  BY <1>3, <1>4, <1>5, <1>6, SixWays
-----------------------------------------------------------------------------
(* The theorems.                                                           *)

LEMMA SessionStarts == SessionInit => SessionInv
<1> SUFFICES ASSUME SessionInit PROVE SessionInv
  OBVIOUS
<1>1. /\ state = "Active" /\ busy = "nothing" /\ inbox = <<>> /\ unread = <<>> /\ seen = <<>>
      /\ current = First /\ attempt = Nothing /\ broken = FALSE /\ First \in Clients
      /\ conn[First] = "streaming" /\ delivered[First] = {}
  BY SessionAssumption DEF SessionInit, Client!Init
<1>2. StreamInv
  <2>1. <<>> \in Seq(Items) /\ <<>> \in Seq(Nat) /\ Len(<<>>) = Len(<<>>) /\ DOMAIN <<>> = {}
    BY EmptySeq
  <2> QED
    BY <1>1, <2>1 DEF StreamInv
<1>3. LinkInv
  BY <1>1 DEF LinkInv
<1>4. DOMAIN unread = {} /\ DOMAIN seen = {}
  BY <1>1
<1>5. UnreadInv /\ SeenInv /\ GotInv
  BY <1>1, <1>4 DEF UnreadInv, SeenInv, GotInv, OwnerInOrder
<1> QED
  BY <1>2, <1>3, <1>5, ServerStarts DEF SessionInv

LEMMA SessionStep == SessionInv /\ [SessionNext]_allVars => SessionInv'
<1> SUFFICES ASSUME SessionInv, [SessionNext]_allVars PROVE SessionInv'
  OBVIOUS
<1>1. /\ BroadcastInv /\ StreamInv /\ LinkInv /\ UnreadInv /\ SeenInv /\ GotInv
      /\ TypeOK /\ current \in Clients
      /\ \A c \in Clients : ClientInv(c) /\ Placed(c) /\ Ordered(c)
  BY DEF SessionInv, BroadcastInv, ClientInv, LinkInv
<1>2. BroadcastInv'
  BY <1>1, ServerMoves, InvStep
<1>3. StreamInv'
  BY <1>1, StreamStep
<1>4. LinkInv'
  BY <1>1, LinkStep
<1>5. UnreadInv'
  BY <1>1, UnreadStep
<1>6. SeenInv'
  BY <1>1, <1>4, SeenStep
<1>7. GotInv'
  BY <1>1, GotStep
<1> QED
  BY <1>2, <1>3, <1>4, <1>5, <1>6, <1>7 DEF SessionInv

LEMMA SessionAlways == SessionSpec => []SessionInv
  BY SessionStarts, SessionStep, PTL DEF SessionSpec

\* Whatever breaks and however often the owner reconnects, it sees each message at
\* most once and in the order of sending, though the old and the new connection
\* carry the same messages without ids.
THEOREM SeenInOrderOnce == SessionSpec => []OwnerInOrder
<1>1. SessionInv => OwnerInOrder
  BY DEF SessionInv, SeenInv
<1> QED
  BY <1>1, SessionAlways, PTL

\* While the connection holds, a message is missed only when the ring has
\* overwritten it.
THEOREM MissesOnlyOverwritten == SessionSpec => []OwnerMissesOnlyOverwritten
<1>1. ASSUME SessionInv, state = "Active", ~broken, NEW m \in subscribed[current] + 1 .. sent
      PROVE  \/ \E i \in DOMAIN seen : seen[i] = m
             \/ OnTheWay(m)
             \/ Overwritten(m)
  <2>1. current \in Clients /\ Connected(current) /\ Complete(current)
    BY <1>1 DEF SessionInv, BroadcastInv, ClientInv, LinkInv, Connected
  <2>2. Accounted(current, m)
    BY <2>1 DEF Complete
  <2>3. CASE m \in delivered[current]
    <3>1. Got(m)
      BY <1>1, <2>3 DEF SessionInv, GotInv
    <3> QED
      BY <3>1 DEF Got, OnTheWay
  <2> QED
    BY <2>2, <2>3 DEF Accounted, OnTheWay
<1>2. SessionInv => OwnerMissesOnlyOverwritten
  BY <1>1 DEF OwnerMissesOnlyOverwritten
<1> QED
  BY <1>2, SessionAlways, PTL
=============================================================================
