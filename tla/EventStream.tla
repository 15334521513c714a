---------------------------- MODULE EventStream ----------------------------
(***************************************************************************)
(* The SSE client of mev-share-sse (crates/mev-share-sse/src/client.rs).    *)
(*                                                                         *)
(* EventStream is a hand-written Stream.  poll_next takes the state out,    *)
(* advances it and puts it back; here each turn of its loop is a step, and  *)
(* the timer, the network and the server may act in between.  The stream    *)
(* has one owner, who polls it or awaits retry(), never both.               *)
(*                                                                         *)
(* A definition named X_Y is X with the bug Y; no specification uses it.    *)
(***************************************************************************)
EXTENDS Naturals, Sequences

CONSTANTS
  Endpoints, InitialEndpoint,
  max_retries,   \* EventClient::max_retries, or NoLimit for None
  NoLimit,
  NoFuture,      \* there is no State::Retry
  MaxItems,      \* bound: items the servers send in a behaviour
  MaxCalls       \* bound: retry, retry_with and reset_retries calls

\* The async block: it sleeps, then connects; it owns a clone of the inner state.
Future == [num_retries : Nat, endpoint : Endpoints,
           stage : {"sleeping", "elapsed", "connecting", "connected", "refused"}]

ASSUME ClientAssumption ==
  /\ InitialEndpoint \in Endpoints
  /\ NoLimit \notin Nat
  /\ NoFuture \notin Future
  /\ max_retries \in Nat \cup {NoLimit}
  /\ MaxItems \in Nat /\ MaxCalls \in Nat

VARIABLES
  state,                 \* State: Active, Retry, End; None while taken out for good
  num_retries, endpoint, \* EventStreamInner
  future,                \* the future of State::Retry
  connected_to, inbox,   \* the connection of State::Active: items not read yet
  busy,                  \* what the owner awaits: nothing, poll_next or retry
  finished,              \* the owner has been told None
  yielded,               \* results the owner has been given
  panicked,              \* "EventStream polled after completion"
  manual_attempts, auto_attempts, \* connection attempts since the last reset
  items, calls           \* for the bounds

innerVars == <<num_retries, endpoint>>
connVars  == <<connected_to, inbox>>
ownerVars == <<finished, yielded, panicked>>
attempts  == <<manual_attempts, auto_attempts>>
bounds    == <<items, calls>>

vars == <<state, innerVars, future, connVars, busy, ownerVars, attempts, bounds>>

\* What the decoder may produce: a message that deserializes or not, a retry:
\* field, an I/O error, the end of the body.
Item == {"event", "garbage", "retry", "error", "eof"}

exceeds_max_retries_BeforeCounting(n) == max_retries # NoLimit /\ n > max_retries + 1

\* The test of EventStreamInner::retry, after the attempt n was counted.
exceeds_max_retries(n) == max_retries # NoLimit /\ n > max_retries

Init ==   \* subscribe: the first connection was established
  /\ state = "Active"
  /\ num_retries = 0
  /\ endpoint = InitialEndpoint
  /\ future = NoFuture
  /\ connected_to = InitialEndpoint
  /\ inbox = <<>>
  /\ busy = "nothing"
  /\ finished = FALSE
  /\ yielded = 0
  /\ panicked = FALSE
  /\ manual_attempts = 0 /\ auto_attempts = 0
  /\ items = 0 /\ calls = 0
-----------------------------------------------------------------------------
(* poll_next.                                                              *)

\* The owner can call a method: it awaits none, and no panic unwinds through it.
Free == busy = "nothing" /\ ~panicked

\* The owner may poll after None, too.
BeginPoll ==
  /\ Free
  /\ busy' = "poll_next"
  /\ UNCHANGED <<state, innerVars, future, connVars, ownerVars, attempts, bounds>>

\* One turn of the loop that finds the state s.
Turn(s) ==
  /\ busy = "poll_next"
  /\ state = s
  /\ UNCHANGED <<innerVars, manual_attempts, bounds>>

ReturnPending == busy' = "nothing" /\ UNCHANGED ownerVars

\* Poll::Ready(Some(_))
ReturnItem ==
  /\ busy' = "nothing"
  /\ yielded' = yielded + 1
  /\ UNCHANGED <<finished, panicked>>

\* Poll::Ready(None)
ReturnNone ==
  /\ busy' = "nothing"
  /\ finished' = TRUE
  /\ UNCHANGED <<yielded, panicked>>

Continue == UNCHANGED <<busy, ownerVars>>

TurnTaken ==
  /\ Turn("None")
  /\ busy' = "nothing"
  /\ panicked' = TRUE
  /\ UNCHANGED <<state, future, connVars, auto_attempts, finished, yielded>>

TurnEnd ==
  /\ Turn("End")
  /\ state' = "None"
  /\ ReturnNone
  /\ UNCHANGED <<future, connVars, auto_attempts>>

TurnRetryPending_NotPutBack ==
  /\ Turn("Retry")
  /\ future.stage \in {"sleeping", "connecting"}
  /\ state' = "None"
  /\ ReturnPending
  /\ UNCHANGED <<future, connVars, auto_attempts>>

TurnRetryPending ==
  /\ Turn("Retry")
  /\ future.stage \in {"sleeping", "connecting"}
  /\ ReturnPending
  /\ UNCHANGED <<state, future, connVars, auto_attempts>>

TurnRetryElapsed_WaitsAgain ==
  /\ Turn("Retry")
  /\ future.stage = "elapsed"
  /\ LET n == future.num_retries + 1 IN
     \/ /\ exceeds_max_retries(n)
        /\ future' = [future EXCEPT !.stage = "sleeping"]
        /\ UNCHANGED auto_attempts
     \/ /\ ~exceeds_max_retries(n)
        /\ future' = [future EXCEPT !.num_retries = n, !.stage = "connecting"]
        /\ auto_attempts' = auto_attempts + 1
  /\ Continue
  /\ UNCHANGED <<state, connVars>>

\* The sleep is over and client.retry() runs, on the clone.
TurnRetryElapsed ==
  /\ Turn("Retry")
  /\ future.stage = "elapsed"
  /\ LET n == future.num_retries + 1 IN
     \/ /\ exceeds_max_retries(n)
        /\ state' = "End"
        /\ future' = NoFuture
        /\ ReturnItem              \* Err(MaxRetriesExceeded)
        /\ UNCHANGED auto_attempts
     \/ /\ ~exceeds_max_retries(n)
        /\ future' = [future EXCEPT !.num_retries = n, !.stage = "connecting"]
        /\ auto_attempts' = auto_attempts + 1
        /\ Continue
        /\ UNCHANGED state
  /\ UNCHANGED connVars

TurnRetryConnected_KeepsFuture ==
  /\ Turn("Retry")
  /\ future.stage = "connected"
  /\ state' = "Active"
  /\ connected_to' = future.endpoint
  /\ inbox' = <<>>
  /\ Continue
  /\ UNCHANGED <<future, auto_attempts>>

TurnRetryConnected ==
  /\ Turn("Retry")
  /\ future.stage = "connected"
  /\ state' = "Active"
  /\ future' = NoFuture
  /\ connected_to' = future.endpoint
  /\ inbox' = <<>>
  /\ Continue
  /\ UNCHANGED auto_attempts

TurnRetryRefused ==
  /\ Turn("Retry")
  /\ future.stage = "refused"
  /\ state' = "End"
  /\ future' = NoFuture
  /\ ReturnItem                    \* Err(RetryError)
  /\ UNCHANGED <<connVars, auto_attempts>>

TurnActivePending ==
  /\ Turn("Active")
  /\ inbox = <<>>
  /\ ReturnPending
  /\ UNCHANGED <<state, future, connVars, auto_attempts>>

\* An event, or an error that leaves the stream Active.
TurnActiveItem ==
  /\ Turn("Active")
  /\ inbox # <<>>
  /\ Head(inbox) \in {"event", "garbage", "error"}
  /\ inbox' = Tail(inbox)
  /\ ReturnItem
  /\ UNCHANGED <<state, future, connected_to, auto_attempts>>

\* The server asks for a retry: the connection is dropped, whatever is unread.
TurnActiveRetry ==
  /\ Turn("Active")
  /\ inbox # <<>>
  /\ Head(inbox) = "retry"
  /\ state' = "Retry"
  /\ future' = [num_retries |-> num_retries, endpoint |-> endpoint, stage |-> "sleeping"]
  /\ inbox' = <<>>
  /\ Continue
  /\ UNCHANGED <<connected_to, auto_attempts>>

TurnActiveClosed_StaysActive ==
  /\ Turn("Active")
  /\ inbox # <<>>
  /\ Head(inbox) = "eof"
  /\ ReturnNone
  /\ UNCHANGED <<state, future, connVars, auto_attempts>>

TurnActiveClosed_ReturnsPending ==
  /\ Turn("Active")
  /\ inbox # <<>>
  /\ Head(inbox) = "eof"
  /\ inbox' = <<>>
  /\ ReturnPending
  /\ UNCHANGED <<state, future, connected_to, auto_attempts>>

TurnActiveClosed ==
  /\ Turn("Active")
  /\ inbox # <<>>
  /\ Head(inbox) = "eof"
  /\ state' = "End"
  /\ inbox' = <<>>
  /\ ReturnNone
  /\ UNCHANGED <<future, connected_to, auto_attempts>>

PollStep ==
  \/ TurnTaken \/ TurnEnd
  \/ TurnRetryPending \/ TurnRetryElapsed \/ TurnRetryConnected \/ TurnRetryRefused
  \/ TurnActivePending \/ TurnActiveItem \/ TurnActiveRetry \/ TurnActiveClosed
-----------------------------------------------------------------------------
(* The other methods of the owner.                                         *)

\* retry() keeps the endpoint, retry_with(e) replaces it first.  The attempt is
\* counted before the limit is tested, and stays counted when it fails.
BeginRetry(e) ==
  /\ Free
  /\ calls < MaxCalls
  /\ endpoint' = e
  /\ num_retries' = num_retries + 1
  /\ \/ /\ exceeds_max_retries(num_retries + 1)   \* Err(MaxRetriesExceeded)
        /\ UNCHANGED <<busy, manual_attempts>>
     \/ /\ ~exceeds_max_retries(num_retries + 1)
        /\ busy' = "retry"
        /\ manual_attempts' = manual_attempts + 1
  /\ calls' = calls + 1
  /\ UNCHANGED <<state, future, connVars, ownerVars, auto_attempts, items>>

retry == BeginRetry(endpoint)

retry_with(e) == BeginRetry(e)

RetryConnects_KeepsUnread ==
  /\ busy = "retry"
  /\ busy' = "nothing"
  /\ state' = "Active"
  /\ future' = NoFuture
  /\ connected_to' = endpoint
  /\ finished' = FALSE
  /\ UNCHANGED <<innerVars, inbox, yielded, panicked, attempts, bounds>>

\* The new connection replaces whatever state the stream was in.
RetryConnects ==
  /\ busy = "retry"
  /\ busy' = "nothing"
  /\ state' = "Active"
  /\ future' = NoFuture
  /\ connected_to' = endpoint
  /\ inbox' = <<>>
  /\ finished' = FALSE
  /\ UNCHANGED <<innerVars, yielded, panicked, attempts, bounds>>

\* Err(RetryError), or the owner drops the future of retry(): no state changes.
RetryFails ==
  /\ busy = "retry"
  /\ busy' = "nothing"
  /\ UNCHANGED <<state, innerVars, future, connVars, ownerVars, attempts, bounds>>

reset_retries ==
  /\ Free
  /\ calls < MaxCalls
  /\ num_retries' = 0
  /\ manual_attempts' = 0 /\ auto_attempts' = 0
  /\ calls' = calls + 1
  /\ UNCHANGED <<state, endpoint, future, connVars, busy, ownerVars, items>>
-----------------------------------------------------------------------------
(* The timer, the network and the servers.                                 *)

Progress(from, to) ==
  /\ future # NoFuture
  /\ future.stage = from
  /\ future' = [future EXCEPT !.stage = to]
  /\ UNCHANGED <<state, innerVars, connVars, busy, ownerVars, attempts, bounds>>

Elapse == Progress("sleeping", "elapsed")

\* The server may as well never answer: new_stream has no timeout.
Respond == Progress("connecting", "connected") \/ Progress("connecting", "refused")

\* Nothing comes after the end of the body.
ServerSends(item) ==
  /\ state = "Active"
  /\ items < MaxItems
  /\ inbox # <<>> => inbox[Len(inbox)] # "eof"
  /\ inbox' = Append(inbox, item)
  /\ items' = items + 1
  /\ UNCHANGED <<state, innerVars, future, connected_to, busy, ownerVars, attempts, calls>>

Next ==
  \/ BeginPoll \/ PollStep
  \/ retry \/ (\E e \in Endpoints : retry_with(e)) \/ RetryConnects \/ RetryFails
  \/ reset_retries
  \/ Elapse \/ Respond \/ \E item \in Item : ServerSends(item)

Spec == Init /\ [][Next]_vars

\* The owner keeps polling until it is told None, a poll runs to its return and the
\* timer elapses.  The servers owe nothing: a connection attempt, the stream's or the
\* owner's, may stay without an answer.  Nobody has to call the other methods.
Fairness ==
  WF_vars(~finished /\ BeginPoll) /\ WF_vars(PollStep) /\ WF_vars(Elapse)

FairSpec == Spec /\ Fairness
-----------------------------------------------------------------------------
(* Properties.                                                             *)

\* Every variable holds a value of its type.
TypeOK ==
  /\ state \in {"Active", "Retry", "End", "None"}
  /\ num_retries \in Nat /\ endpoint \in Endpoints
  /\ future \in Future \cup {NoFuture}
  /\ state = "Retry" <=> future # NoFuture
  /\ connected_to \in Endpoints /\ inbox \in Seq(Item)
  /\ busy \in {"nothing", "poll_next", "retry"}
  /\ finished \in BOOLEAN /\ yielded \in Nat /\ panicked \in BOOLEAN
  /\ manual_attempts \in Nat /\ auto_attempts \in Nat
  /\ items \in Nat /\ calls \in Nat

\* "EventStream polled after completion" is hit only by an owner that polls a
\* stream that has told it None and that no retry() has reopened: every path that
\* takes the state out puts one back or has returned None.
NoPanic == panicked => finished

\* retry() and retry_with() connect at most max_retries times between resets,
\* whatever else happens to the stream in between.
ManualRetriesBounded == max_retries # NoLimit => manual_attempts <= max_retries

\* The stream or its owner waits for a server to answer a connection attempt.
AwaitsServer == busy = "retry" \/ (state = "Retry" /\ future.stage = "connecting")

\* The retry a server asks for waits for nothing but the answer to its connection
\* attempt: it sleeps once, and once the server has answered, or the limit is found
\* exceeded, the stream is Active again or has ended.  An owner that awaits a
\* connection of its own does not poll, and holds it up.
RetryResolves == state = "Retry" ~> state # "Retry" \/ AwaitsServer
=============================================================================
