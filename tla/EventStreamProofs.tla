------------------------- MODULE EventStreamProofs -------------------------
(***************************************************************************)
(* Theorems about the SSE client, for every limit, any set of endpoints and *)
(* any number of items and calls.                                           *)
(***************************************************************************)
EXTENDS EventStreamRefinement, SequenceTheorems, TLAPS

USE ClientAssumption

LEMMA EmptyInbox == <<>> \in Seq(Item)
  BY EmptySeq

LEMMA InitTyped == Init => TypeOK
<1> SUFFICES ASSUME Init PROVE TypeOK
  OBVIOUS
<1>1. future = NoFuture /\ state = "Active" /\ inbox \in Seq(Item)
  BY EmptyInbox DEF Init
<1>2. state = "Retry" <=> future # NoFuture
  BY <1>1
<1> QED
  BY <1>1, <1>2, ClientAssumption DEF Init, TypeOK

\* Every variable keeps its type from step to step.
LEMMA TypeStep == TypeOK /\ [Next]_vars => TypeOK'
<1> SUFFICES ASSUME TypeOK, [Next]_vars PROVE TypeOK'
  OBVIOUS
<1> USE DEF TypeOK, innerVars, connVars, ownerVars, attempts, bounds
<1>1. CASE BeginPoll
  BY <1>1 DEF BeginPoll, Free
<1>2. CASE PollStep
  <2> USE DEF Turn, ReturnPending, ReturnItem, ReturnNone, Continue
  <2>1. CASE TurnTaken BY <2>1 DEF TurnTaken
  <2>2. CASE TurnEnd BY <2>2 DEF TurnEnd
  <2>3. CASE TurnRetryPending BY <2>3 DEF TurnRetryPending
  <2>4. CASE TurnRetryElapsed
    <3> DEFINE n == future.num_retries + 1
    <3>1. future \in Future
      BY <2>4 DEF TurnRetryElapsed
    <3>2. n \in Nat
      BY <3>1 DEF Future
    <3>3. [future EXCEPT !.num_retries = n, !.stage = "connecting"] \in Future
      BY <3>1, <3>2 DEF Future
    <3> QED
      BY <2>4, <3>2, <3>3 DEF TurnRetryElapsed
  <2>5. CASE TurnRetryConnected BY <2>5 DEF TurnRetryConnected, Future
  <2>6. CASE TurnRetryRefused BY <2>6 DEF TurnRetryRefused
  <2>7. CASE TurnActivePending BY <2>7 DEF TurnActivePending
  <2>8. CASE TurnActiveItem BY <2>8 DEF TurnActiveItem
  <2>9. CASE TurnActiveRetry BY <2>9 DEF TurnActiveRetry, Future
  <2>10. CASE TurnActiveClosed BY <2>10 DEF TurnActiveClosed
  <2> QED
    BY <1>2, <2>1, <2>2, <2>3, <2>4, <2>5, <2>6, <2>7, <2>8, <2>9, <2>10 DEF PollStep
<1>3. CASE retry \/ \E e \in Endpoints : retry_with(e)
  BY <1>3 DEF retry, retry_with, BeginRetry
<1>4. CASE RetryConnects
  BY <1>4, EmptyInbox DEF RetryConnects
<1>5. CASE RetryFails
  BY <1>5 DEF RetryFails
<1>6. CASE reset_retries
  BY <1>6 DEF reset_retries
<1>7. CASE Elapse \/ Respond
  BY <1>7 DEF Elapse, Respond, Progress, Future
<1>8. CASE \E item \in Item : ServerSends(item)
  BY <1>8 DEF ServerSends
<1>9. CASE UNCHANGED vars
  BY <1>9 DEF vars
<1> QED
  BY <1>1, <1>2, <1>3, <1>4, <1>5, <1>6, <1>7, <1>8, <1>9 DEF Next

\* Type correctness of the client.
THEOREM TypeCorrect == Spec => []TypeOK
  BY InitTyped, TypeStep, PTL DEF Spec
-----------------------------------------------------------------------------
\* None is told when the stream ends and only then, and a panic needs a poll of a
\* stream that has told it.
TakenOnlyAtEnd ==
  /\ state = "None" => finished
  /\ finished => state \in {"End", "None"}
  /\ panicked => finished
  /\ panicked => busy = "nothing"

LEMMA TakenStep == TypeOK /\ TakenOnlyAtEnd /\ [Next]_vars => TakenOnlyAtEnd'
<1> SUFFICES ASSUME TypeOK, TakenOnlyAtEnd, [Next]_vars PROVE TakenOnlyAtEnd'
  OBVIOUS
<1> USE DEF TakenOnlyAtEnd, innerVars, connVars, ownerVars, attempts, bounds
<1>1. CASE BeginPoll
  BY <1>1 DEF BeginPoll, Free
<1>2. CASE PollStep
  BY <1>2 DEF PollStep, Turn, ReturnPending, ReturnItem, ReturnNone, Continue,
     TurnTaken, TurnEnd, TurnRetryPending, TurnRetryElapsed, TurnRetryConnected,
     TurnRetryRefused, TurnActivePending, TurnActiveItem, TurnActiveRetry, TurnActiveClosed
<1>3. CASE retry \/ \E e \in Endpoints : retry_with(e)
  BY <1>3 DEF retry, retry_with, BeginRetry, Free
<1>4. CASE RetryConnects \/ RetryFails
  BY <1>4 DEF RetryConnects, RetryFails
<1>5. CASE reset_retries
  BY <1>5 DEF reset_retries
<1>6. CASE Elapse \/ Respond \/ \E item \in Item : ServerSends(item)
  BY <1>6 DEF Elapse, Respond, Progress, ServerSends
<1>7. CASE UNCHANGED vars
  BY <1>7 DEF vars
<1> QED
  BY <1>1, <1>2, <1>3, <1>4, <1>5, <1>6, <1>7 DEF Next

\* Only an owner that polls past None, without a retry() in between, meets the
\* panic of poll_next.
THEOREM PanicsOnlyAfterNone == Spec => []NoPanic
<1>1. Init => TakenOnlyAtEnd
  BY DEF Init, TakenOnlyAtEnd
<1>2. TakenOnlyAtEnd => NoPanic
  BY DEF TakenOnlyAtEnd, NoPanic
<1> QED
  BY <1>1, <1>2, InitTyped, TypeStep, TakenStep, PTL DEF Spec
-----------------------------------------------------------------------------
\* An attempt is made only after it was counted and found within the limit, and
\* counted attempts are forgotten only together with the attempts.
AttemptsCounted ==
  /\ manual_attempts <= num_retries
  /\ ManualRetriesBounded

LEMMA AttemptsStep == TypeOK /\ AttemptsCounted /\ [Next]_vars => AttemptsCounted'
<1> SUFFICES ASSUME TypeOK, AttemptsCounted, [Next]_vars PROVE AttemptsCounted'
  OBVIOUS
<1> USE DEF TypeOK, AttemptsCounted, ManualRetriesBounded
<1>1. CASE retry \/ \E e \in Endpoints : retry_with(e)
  BY <1>1 DEF retry, retry_with, BeginRetry, exceeds_max_retries
<1>2. CASE reset_retries
  BY <1>2 DEF reset_retries
<1>3. CASE BeginPoll \/ RetryConnects \/ RetryFails \/ Elapse \/ Respond
  BY <1>3 DEF BeginPoll, RetryConnects, RetryFails, Elapse, Respond, Progress, innerVars, attempts
<1>4. CASE PollStep
  BY <1>4 DEF PollStep, Turn, innerVars, TurnTaken, TurnEnd, TurnRetryPending,
     TurnRetryElapsed, TurnRetryConnected, TurnRetryRefused, TurnActivePending,
     TurnActiveItem, TurnActiveRetry, TurnActiveClosed
<1>5. CASE \E item \in Item : ServerSends(item)
  BY <1>5 DEF ServerSends, innerVars, attempts
<1>6. CASE UNCHANGED vars
  BY <1>6 DEF vars, innerVars, attempts
<1> QED
  BY <1>1, <1>2, <1>3, <1>4, <1>5, <1>6 DEF Next

\* The owner's own retries never exceed max_retries between two resets.
THEOREM ManualRetriesNeverExceed == Spec => []ManualRetriesBounded
<1>1. Init => AttemptsCounted
  BY DEF Init, AttemptsCounted, ManualRetriesBounded
<1>2. AttemptsCounted => ManualRetriesBounded
  BY DEF AttemptsCounted
<1> QED
  BY <1>1, <1>2, InitTyped, TypeStep, AttemptsStep, PTL DEF Spec
-----------------------------------------------------------------------------
\* A step of the client is a step of the contract or leaves it unchanged.
LEMMA ContractStep ==
  TypeOK /\ TakenOnlyAtEnd /\ [Next]_vars => [Contract!Next]_(Contract!vars)
<1> SUFFICES ASSUME TypeOK, TakenOnlyAtEnd, [Next]_vars
             PROVE  Contract!Next \/ UNCHANGED <<Phase, finished, yielded>>
  BY DEF Contract!vars
<1> USE DEF TakenOnlyAtEnd, TypeOK, Phase, ownerVars
<1>1. CASE BeginPoll \/ RetryFails \/ Elapse \/ Respond
  BY <1>1 DEF BeginPoll, RetryFails, Elapse, Respond, Progress
<1>2. CASE retry \/ \E e \in Endpoints : retry_with(e)
  BY <1>2 DEF retry, retry_with, BeginRetry
<1>3. CASE reset_retries \/ \E item \in Item : ServerSends(item)
  BY <1>3 DEF reset_retries, ServerSends
<1>4. CASE RetryConnects
  BY <1>4 DEF RetryConnects, Contract!Next, Contract!Reopen
<1>5. CASE PollStep
  <2> USE DEF Turn, ReturnPending, ReturnItem, ReturnNone, Continue
  <2>1. CASE TurnTaken BY <2>1 DEF TurnTaken
  <2>2. CASE TurnEnd BY <2>2 DEF TurnEnd, Contract!Next, Contract!End
  <2>3. CASE TurnRetryPending \/ TurnRetryConnected \/ TurnActivePending \/ TurnActiveRetry
    BY <2>3 DEF TurnRetryPending, TurnRetryConnected, TurnActivePending, TurnActiveRetry
  <2>4. CASE TurnRetryElapsed
    BY <2>4 DEF TurnRetryElapsed, Contract!Next, Contract!YieldLastError
  <2>5. CASE TurnRetryRefused
    BY <2>5 DEF TurnRetryRefused, Contract!Next, Contract!YieldLastError
  <2>6. CASE TurnActiveItem
    BY <2>6 DEF TurnActiveItem, Contract!Next, Contract!Yield
  <2>7. CASE TurnActiveClosed
    BY <2>7 DEF TurnActiveClosed, Contract!Next, Contract!End
  <2> QED
    BY <1>5, <2>1, <2>2, <2>3, <2>4, <2>5, <2>6, <2>7 DEF PollStep
<1>6. CASE UNCHANGED vars
  BY <1>6 DEF vars
<1> QED
  BY <1>1, <1>2, <1>3, <1>4, <1>5, <1>6 DEF Next

\* The safety part of the contract: items, perhaps a last error, None, and nothing
\* after None until the owner reopens the stream.
THEOREM ImplementsContract == Spec => Contract!Safety
<1>1. Init => TakenOnlyAtEnd
  BY DEF Init, TakenOnlyAtEnd
<1>2. Init => Contract!Init
  BY DEF Init, Contract!Init, Phase
<1> QED
  BY <1>1, <1>2, InitTyped, TypeStep, TakenStep, ContractStep, PTL DEF Spec, Contract!Safety
=============================================================================
