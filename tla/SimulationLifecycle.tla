------------------------ MODULE SimulationLifecycle ------------------------
(***************************************************************************)
(* What the bundle simulation queue promises about each bundle, without its *)
(* channel, its task, its priorities and its block numbers: a bundle that   *)
(* was offered is queued, or rejected for want of room; it is simulated     *)
(* again as long as the relay asks for it, at most MaxAttempts times and    *)
(* never by two simulations at once; and it is done when the relay has      *)
(* answered, when it is out of attempts or out of time, when the queue is   *)
(* cleared or the service is gone, and never otherwise.  Once it is done it *)
(* does not come back.                                                      *)
(***************************************************************************)
EXTENDS Naturals, Sequences

CONSTANTS Requests, MaxAttempts

VARIABLES
  open,      \* the service takes bundles
  status,    \* how far each bundle has come
  attempts,  \* how often it has been simulated
  answers,   \* what the relay answered: "final" or "retryable"
  \* Observed only; nothing is said of how they change.
  no_room,   \* bundles there is no room for at present
  outdated,  \* queued bundles past the last block they are for
  clearing   \* somebody has asked for the queue to be cleared

vars == <<open, status, attempts, answers>>

Init ==
  /\ open = TRUE
  /\ status = [r \in Requests |-> "new"]
  /\ attempts = [r \in Requests |-> 0]
  /\ answers = [r \in Requests |-> <<>>]

Move(r, from, to) ==
  /\ status[r] = from
  /\ status' = [status EXCEPT ![r] = to]

Offer(r) == open /\ Move(r, "new", "offered") /\ UNCHANGED <<open, attempts, answers>>

Refuse(r) == ~open /\ Move(r, "new", "done") /\ UNCHANGED <<open, attempts, answers>>

Accept(r) ==
  /\ Move(r, "offered", "queued")
  /\ r \notin no_room
  /\ UNCHANGED <<open, attempts, answers>>

Reject(r) ==
  /\ Move(r, "offered", "done")
  /\ r \in no_room
  /\ UNCHANGED <<open, attempts, answers>>

Start(r) ==
  /\ Move(r, "queued", "running")
  /\ attempts[r] < MaxAttempts
  /\ attempts' = [attempts EXCEPT ![r] = @ + 1]
  /\ UNCHANGED <<open, answers>>

Answered(r, answer) == answers' = [answers EXCEPT ![r] = Append(@, answer)]

Reschedule(r) ==
  /\ Move(r, "running", "queued")
  /\ Answered(r, "retryable")
  /\ attempts[r] < MaxAttempts
  /\ UNCHANGED <<open, attempts>>

Finish(r) ==
  /\ Move(r, "running", "done")
  /\ \/ Answered(r, "final")
     \/ Answered(r, "retryable") /\ attempts[r] = MaxAttempts
  /\ UNCHANGED <<open, attempts>>

Expire(r) ==
  /\ Move(r, "queued", "done")
  /\ r \in outdated
  /\ UNCHANGED <<open, attempts, answers>>

\* Clearing the queue spares the bundles that are being simulated.
Clear ==
  /\ clearing
  /\ status' = [r \in Requests |-> IF status[r] = "queued" THEN "done" ELSE status[r]]
  /\ UNCHANGED <<open, attempts, answers>>

Close ==
  /\ open
  /\ open' = FALSE
  /\ status' = [r \in Requests |-> IF status[r] = "new" THEN "new" ELSE "done"]
  /\ UNCHANGED <<attempts, answers>>

Next ==
  \/ \E r \in Requests : \/ Offer(r) \/ Refuse(r) \/ Accept(r) \/ Reject(r)
                         \/ Start(r) \/ Reschedule(r) \/ Finish(r) \/ Expire(r)
  \/ Clear
  \/ Close

Spec == Init /\ [][Next]_vars
=============================================================================
