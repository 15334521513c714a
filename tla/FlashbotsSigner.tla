-------------------------- MODULE FlashbotsSigner --------------------------
(***************************************************************************)
(* The signing middleware (crates/mev-share-rpc-api/src/auth.rs) over an    *)
(* inner tower Service of limited concurrency.  poll_ready reserves a slot  *)
(* for the instance of the inner service that it polls, and only that       *)
(* instance may be called; a clone of it has no reservation.                *)
(*                                                                         *)
(* A definition named X_Y is X with the bug Y; no specification uses it.    *)
(***************************************************************************)
EXTENDS Naturals, FiniteSets

CONSTANTS
  Calls,     \* identities of calls, each made at most once
  Slots,     \* slots of the inner service
  NoRequest

\* What the middleware looks at: the method, the content type, and whether there is
\* a x-flashbots-signature already.
Request == [method : {"POST", "GET"},
            content_type : {"none", "text/plain", "application/json", "application/json; charset=utf-8"},
            has_sig : BOOLEAN]

ASSUME SignerAssumption == Slots \in Nat \ {0} /\ NoRequest \notin Request

VARIABLES
  free,      \* slots nobody has reserved
  ready,     \* self.inner has a reservation
  request,   \* the request of a call
  stage,     \* where the future of a call is
  reserved,  \* the inner service that the future owns has a reservation
  reached    \* what reached the inner service: the signature the request carried

vars == <<free, ready, request, stage, reserved, reached>>

Init ==
  /\ free = Slots
  /\ ready = FALSE
  /\ request = [c \in Calls |-> NoRequest]
  /\ stage = [c \in Calls |-> "none"]
  /\ reserved = [c \in Calls |-> FALSE]
  /\ reached = [c \in Calls |-> "nothing"]

is_json(r) == r.content_type = "application/json"
-----------------------------------------------------------------------------
\* Ready when the inner service is; otherwise the caller waits for a slot.
poll_ready ==
  /\ ~ready
  /\ free > 0
  /\ ready' = TRUE
  /\ free' = free - 1
  /\ UNCHANGED <<request, stage, reserved, reached>>

Enter_SignsAgain(c, r) ==
  /\ request' = [request EXCEPT ![c] = r]
  /\ stage' = [stage EXCEPT ![c] =
       IF r.method # "POST" THEN "invalid" ELSE IF ~is_json(r) THEN "passing" ELSE "collecting"]
  /\ UNCHANGED reached

\* The ready service goes into the future, its clone takes its place; a request
\* that is not a POST gets no service, and the ready one is dropped.
Enter(c, r) ==
  /\ request' = [request EXCEPT ![c] = r]
  /\ stage' = [stage EXCEPT ![c] =
       IF r.method # "POST" THEN "invalid"
       ELSE IF ~is_json(r) \/ r.has_sig THEN "passing" ELSE "collecting"]
  /\ UNCHANGED reached

call_CallsTheClone(c, r) ==
  /\ stage[c] = "none"
  /\ ready
  /\ Enter(c, r)
  /\ UNCHANGED <<free, ready, reserved>>

call_KeepsSlot(c, r) ==
  /\ stage[c] = "none"
  /\ ready
  /\ Enter(c, r)
  /\ ready' = FALSE
  /\ reserved' = [reserved EXCEPT ![c] = r.method = "POST"]
  /\ UNCHANGED free

\* Tower: call follows a poll_ready that returned Ready.
call(c, r) ==
  /\ stage[c] = "none"
  /\ ready
  /\ Enter(c, r)
  /\ ready' = FALSE
  /\ reserved' = [reserved EXCEPT ![c] = r.method = "POST"]
  /\ free' = IF r.method = "POST" THEN free ELSE free + 1

\* The future of c gets to another stage.
Advance(c, from, to) ==
  /\ stage[c] = from
  /\ stage' = [stage EXCEPT ![c] = to]

Finish_FreesAnyway(c) ==
  /\ stage' = [stage EXCEPT ![c] = "done"]
  /\ free' = free + 1
  /\ reserved' = [reserved EXCEPT ![c] = FALSE]
  /\ UNCHANGED <<ready, request, reached>>

\* The future is over; the service it owns, or the response of it, is dropped.
Finish(c) ==
  /\ stage' = [stage EXCEPT ![c] = "done"]
  /\ free' = IF reserved[c] THEN free + 1 ELSE free
  /\ reserved' = [reserved EXCEPT ![c] = FALSE]
  /\ UNCHANGED <<ready, request, reached>>

CallInner(c, from, signature) ==
  /\ Advance(c, from, "called")
  /\ reached' = [reached EXCEPT ![c] = signature]
  /\ UNCHANGED <<free, ready, request, reserved>>

RejectMethod(c) == stage[c] = "invalid" /\ Finish(c)

PassThrough(c) ==
  CallInner(c, "passing", IF request[c].has_sig THEN "the caller's" ELSE "none")

\* to_bytes(body).await
CollectBody(c) ==
  /\ Advance(c, "collecting", "signing")
  /\ UNCHANGED <<free, ready, request, reserved, reached>>

\* signer.sign_message(..).await, then the header is inserted
Sign(c) == CallInner(c, "signing", "own")

\* The body or the signer fails.
Fail(c) == stage[c] \in {"collecting", "signing"} /\ Finish(c)

\* The inner service answers, with a response or an error.
InnerAnswers(c) == stage[c] = "called" /\ Finish(c)

\* The caller drops the future of its call.
DropCall(c) == stage[c] \notin {"none", "done"} /\ Finish(c)

Step(c) ==
  \/ RejectMethod(c) \/ PassThrough(c) \/ CollectBody(c) \/ Sign(c) \/ Fail(c) \/ InnerAnswers(c)

Next ==
  \/ poll_ready
  \/ \E c \in Calls : Step(c) \/ DropCall(c) \/ \E r \in Request : call(c, r)

Spec == Init /\ [][Next]_vars

\* A future that is polled goes on and the inner service answers; a caller that
\* waits for readiness is woken when there is a slot.
Fairness == WF_vars(poll_ready) /\ \A c \in Calls : WF_vars(Step(c))

FairSpec == Spec /\ Fairness
-----------------------------------------------------------------------------
(* Properties.                                                             *)

Holders == {c \in Calls : reserved[c]}

\* Every variable holds a value of its type, and a call has a request.
TypeOK ==
  /\ free \in 0 .. Slots
  /\ ready \in BOOLEAN
  /\ request \in [Calls -> Request \cup {NoRequest}]
  /\ stage \in [Calls -> {"none", "invalid", "passing", "collecting", "signing", "called", "done"}]
  /\ reserved \in [Calls -> BOOLEAN]
  /\ reached \in [Calls -> {"nothing", "none", "own", "the caller's"}]
  /\ \A c \in Calls : stage[c] # "none" => request[c] # NoRequest

\* The inner service is only called through an instance that was polled ready, no
\* matter how long signing took and how many calls were begun meanwhile.
CalledWhenReady == \A c \in Calls : stage[c] = "called" => reserved[c]

\* No slot is lost or used twice, whichever way calls end.
SlotsAccounted == free + Cardinality(Holders) + (IF ready THEN 1 ELSE 0) = Slots

\* A request reaches the inner service with exactly the signature it should have:
\* its own if it came with one, ours if it is unsigned JSON, else none; and only
\* POST requests reach it.
ProperlySigned ==
  \A c \in Calls : reached[c] # "nothing" =>
    /\ request[c].method = "POST"
    /\ reached[c] = IF request[c].has_sig THEN "the caller's"
                    ELSE IF is_json(request[c]) THEN "own" ELSE "none"

\* Whoever waits for the middleware to be ready sees it ready again and again.
BecomesReady == []<>ready
=============================================================================
