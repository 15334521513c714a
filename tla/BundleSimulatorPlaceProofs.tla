--------------------- MODULE BundleSimulatorPlaceProofs ---------------------
(***************************************************************************)
(* Where each request is.  The theorems of this module count: how often a   *)
(* request occurs in the channel, the queues, the requests popped for       *)
(* simulation and the simulations, and how many verdicts a listener heard   *)
(* about it.                                                               *)
(***************************************************************************)
EXTENDS BundleSimulatorProofs, Integers
-----------------------------------------------------------------------------
(* Counting the elements of a sequence that belong to a set.               *)

Where(s, E) == {i \in DOMAIN s : s[i] \in E}

Count(s, E) == Cardinality(Where(s, E))

LEMMA CountType ==
  ASSUME NEW S, NEW s \in Seq(S), NEW E
  PROVE  /\ IsFiniteSet(Where(s, E))
         /\ Count(s, E) \in Nat
         /\ Count(s, E) <= Len(s)
         /\ Count(s, E) = 0 <=> \A i \in DOMAIN s : s[i] \notin E
<1>1. DOMAIN s = 1 .. Len(s) /\ Len(s) \in Nat
  BY LenProperties
<1>2. IsFiniteSet(1 .. Len(s)) /\ Cardinality(1 .. Len(s)) = Len(s)
  BY <1>1, FS_Interval
<1>3. Where(s, E) \in SUBSET (1 .. Len(s))
  BY <1>1 DEF Where
<1>4. /\ IsFiniteSet(Where(s, E)) /\ Cardinality(Where(s, E)) <= Len(s)
      /\ Cardinality(Where(s, E)) \in Nat
  BY <1>2, <1>3, FS_Subset, FS_CardinalityType
<1>5. Cardinality(Where(s, E)) = 0 <=> Where(s, E) = {}
  BY <1>4, FS_EmptySet
<1> QED
  BY <1>4, <1>5 DEF Where, Count

\* Moving indices by a constant does not change how many there are.
LEMMA ShiftedCardinality ==
  ASSUME NEW A \in SUBSET Int, IsFiniteSet(A), NEW k \in Int
  PROVE  LET B == {i \in Int : i - k \in A}
         IN  IsFiniteSet(B) /\ Cardinality(B) = Cardinality(A)
<1> DEFINE B == {i \in Int : i - k \in A}
           f == [i \in A |-> i + k]
<1>1. f \in Bijection(A, B)
  <2>1. f \in [A -> B]
    OBVIOUS
  <2>2. \A i, j \in A : f[i] = f[j] => i = j
    OBVIOUS
  <2>3. \A j \in B : \E i \in A : f[i] = j
    <3> TAKE j \in B
    <3>1. j - k \in A /\ f[j - k] = j
      OBVIOUS
    <3> QED
      BY <3>1
  <2> HIDE DEF f
  <2> QED
    BY <2>1, <2>2, <2>3 DEF Bijection, Injection, Surjection, IsInjective
<1>2. ExistsBijection(A, B)
  BY <1>1 DEF ExistsBijection
<1> QED
  BY <1>2, FS_Bijection

LEMMA CountConcat ==
  ASSUME NEW S, NEW s \in Seq(S), NEW t \in Seq(S), NEW E
  PROVE  Count(s \o t, E) = Count(s, E) + Count(t, E)
<1>1. /\ DOMAIN s = 1 .. Len(s) /\ Len(s) \in Nat
      /\ DOMAIN t = 1 .. Len(t) /\ Len(t) \in Nat
  BY LenProperties
<1>2. /\ DOMAIN (s \o t) = 1 .. Len(s) + Len(t)
      /\ \A i \in 1 .. Len(s) + Len(t) :
           (s \o t)[i] = IF i <= Len(s) THEN s[i] ELSE t[i - Len(s)]
  BY ConcatProperties, LenProperties
<1> DEFINE B == {i \in Int : i - Len(s) \in Where(t, E)}
<1>3. Where(s \o t, E) = Where(s, E) \cup B
  <2> SUFFICES ASSUME NEW i PROVE i \in Where(s \o t, E) <=> i \in Where(s, E) \/ i \in B
    OBVIOUS
  <2>1. CASE i \in 1 .. Len(s)
    <3>1. i \notin B
      BY <1>1, <2>1 DEF Where
    <3>2. i \in 1 .. Len(s) + Len(t) /\ i <= Len(s)
      BY <1>1, <2>1
    <3> QED
      BY <1>1, <1>2, <2>1, <3>1, <3>2 DEF Where
  <2>2. CASE i \in Len(s) + 1 .. Len(s) + Len(t)
    <3>1. i \notin Where(s, E) /\ i - Len(s) \in 1 .. Len(t) /\ i \in Int
      BY <1>1, <2>2 DEF Where
    <3>2. i \in 1 .. Len(s) + Len(t) /\ ~(i <= Len(s))
      BY <1>1, <2>2
    <3> QED
      BY <1>1, <1>2, <2>2, <3>1, <3>2 DEF Where
  <2>3. CASE i \notin 1 .. Len(s) + Len(t)
    <3>1. i \notin Where(s \o t, E)
      BY <1>2, <2>3 DEF Where
    <3>2. i \notin Where(s, E)
      BY <1>1, <2>3 DEF Where
    <3>3. i \notin B
      BY <1>1, <2>3 DEF Where
    <3> QED
      BY <3>1, <3>2, <3>3
  <2> QED
    BY <1>1, <2>1, <2>2, <2>3
<1>4. /\ IsFiniteSet(Where(s, E)) /\ IsFiniteSet(Where(t, E))
      /\ Count(s, E) \in Nat /\ Count(t, E) \in Nat
  BY CountType
<1>5. IsFiniteSet(B) /\ Cardinality(B) = Count(t, E)
  <2>1. Where(t, E) \in SUBSET Int
    BY <1>1 DEF Where
  <2> QED
    BY <1>1, <1>4, <2>1, ShiftedCardinality DEF Count
<1>6. Where(s, E) \cap B = {}
  BY <1>1 DEF Where
<1> HIDE DEF B
<1>7. Cardinality(Where(s, E) \cup B) = Count(s, E) + Count(t, E)
  <2>1. Cardinality(Where(s, E) \cup B) =
          Cardinality(Where(s, E)) + Cardinality(B) - Cardinality(Where(s, E) \cap B)
    BY <1>4, <1>5, FS_Union
  <2>2. Cardinality(Where(s, E) \cap B) = 0
    BY <1>6, FS_EmptySet
  <2> QED
    BY <1>4, <1>5, <2>1, <2>2 DEF Count
<1> QED
  BY <1>3, <1>7 DEF Count

LEMMA CountEmpty ==
  ASSUME NEW E
  PROVE  Count(<<>>, E) = 0
<1>1. Where(<<>>, E) = {}
  BY DEF Where
<1> QED
  BY <1>1, FS_EmptySet DEF Count

LEMMA CountSingle ==
  ASSUME NEW e, NEW E
  PROVE  Count(<<e>>, E) = IF e \in E THEN 1 ELSE 0
<1>1. Where(<<e>>, E) = IF e \in E THEN {1} ELSE {}
  BY DEF Where
<1> QED
  BY <1>1, FS_EmptySet, FS_Singleton DEF Count

LEMMA CountAppend ==
  ASSUME NEW S, NEW s \in Seq(S), NEW e \in S, NEW E
  PROVE  Count(Append(s, e), E) = Count(s, E) + (IF e \in E THEN 1 ELSE 0)
<1>1. Append(s, e) = s \o <<e>> /\ <<e>> \in Seq(S)
  BY AppendIsConcat
<1>2. Count(s \o <<e>>, E) = Count(s, E) + Count(<<e>>, E)
  BY <1>1, CountConcat
<1> QED
  BY <1>1, <1>2, CountSingle

LEMMA CountRemoveAt ==
  ASSUME NEW S, NEW s \in Seq(S), NEW i \in 1 .. Len(s), NEW E
  PROVE  Count(RemoveAt(s, i), E) = Count(s, E) - (IF s[i] \in E THEN 1 ELSE 0)
<1> DEFINE front == SubSeq(s, 1, i - 1)
           back  == SubSeq(s, i + 1, Len(s))
<1>1. /\ Len(s) \in Nat /\ i \in Nat /\ 1 <= i /\ i <= Len(s)
      /\ \A j \in 1 .. Len(s) : s[j] \in S
  BY LenProperties, ElementOfSeq
<1>2. front \in Seq(S) /\ back \in Seq(S) /\ s[i] \in S
  BY <1>1, SubSeqProperties
<1>3. s = front \o (<<s[i]>> \o back)
  <2>1. SubSeq(s, 1, i - 1) \o SubSeq(s, i, Len(s)) = SubSeq(s, 1, Len(s))
    <3>1. /\ 1 \in 1 .. Len(s) + 1 /\ i - 1 \in 1 - 1 .. Len(s)
          /\ Len(s) \in i - 1 .. Len(s) /\ (i - 1) + 1 = i
      BY <1>1
    <3> QED
      BY <3>1, ConcatAdjacentSubSeq
  <2>2. SubSeq(s, i, Len(s)) = <<s[i]>> \o back
    BY <1>1, SubSeqRecursiveFirst
  <2> QED
    BY <2>1, <2>2, SubSeqFull
<1> HIDE DEF front, back
<1>4. <<s[i]>> \in Seq(S) /\ <<s[i]>> \o back \in Seq(S)
  BY <1>2, ConcatProperties
<1>5. Count(s, E) = Count(front, E) + (IF s[i] \in E THEN 1 ELSE 0) + Count(back, E)
  <2>1. Count(front \o (<<s[i]>> \o back), E) = Count(front, E) + Count(<<s[i]>> \o back, E)
    BY <1>2, <1>4, CountConcat
  <2>2. Count(<<s[i]>> \o back, E) = Count(<<s[i]>>, E) + Count(back, E)
    BY <1>2, <1>4, CountConcat
  <2>3. Count(<<s[i]>>, E) = IF s[i] \in E THEN 1 ELSE 0
    BY CountSingle
  <2>4. Count(front, E) \in Nat /\ Count(back, E) \in Nat
    BY <1>2, CountType
  <2>5. Count(s, E) = Count(front \o (<<s[i]>> \o back), E)
    BY <1>3, Zenon
  <2> QED
    BY <2>1, <2>2, <2>3, <2>4, <2>5
<1>6. RemoveAt(s, i) = front \o back
  BY DEF RemoveAt, front, back
<1>7. Count(front \o back, E) = Count(front, E) + Count(back, E)
  BY <1>2, CountConcat
<1>8. Count(front, E) \in Nat /\ Count(back, E) \in Nat
  BY <1>2, CountType
<1> QED
  BY <1>5, <1>6, <1>7, <1>8

LEMMA CountTail ==
  ASSUME NEW S, NEW s \in Seq(S), s # <<>>, NEW E
  PROVE  Count(Tail(s), E) = Count(s, E) - (IF Head(s) \in E THEN 1 ELSE 0)
<1>1. 1 \in 1 .. Len(s) /\ Head(s) = s[1] /\ Len(s) \in Nat
  BY EmptySeq, LenProperties
<1>2. Tail(s) = SubSeq(s, 2, Len(s)) /\ SubSeq(s, 1, 0) = <<>>
  BY TailIsSubSeq, SubSeqEmpty
<1>3. SubSeq(s, 2, Len(s)) \in Seq(S)
  BY <1>2, HeadTailProperties
<1>4. RemoveAt(s, 1) = Tail(s)
  BY <1>2, <1>3, ConcatEmptySeq DEF RemoveAt
<1>5. Count(RemoveAt(s, 1), E) = Count(s, E) - (IF s[1] \in E THEN 1 ELSE 0)
  BY <1>1, CountRemoveAt
<1> QED
  BY <1>1, <1>4, <1>5

\* An element that is there is counted, and a second one counts again.
LEMMA CountAtMostOne ==
  ASSUME NEW S, NEW s \in Seq(S), NEW E, Count(s, E) <= 1,
         NEW i \in DOMAIN s, NEW j \in DOMAIN s, s[i] \in E, s[j] \in E
  PROVE  i = j
<1>1. IsFiniteSet(Where(s, E)) /\ Cardinality(Where(s, E)) \in Nat
  BY CountType DEF Count
<1>2. i \in Where(s, E) /\ j \in Where(s, E)
  BY DEF Where
<1>3. Cardinality(Where(s, E)) = 1
  BY <1>1, <1>2, FS_EmptySet DEF Count
<1>4. PICK x : Where(s, E) = {x}
  BY <1>1, <1>3, FS_Singleton
<1> QED
  BY <1>2, <1>4
-----------------------------------------------------------------------------
(* The places of a request, and what a listener has heard of it.            *)

AddOf(r)     == {msg \in Message : msg.type = "AddSimulation" /\ msg.request.id = r}
RequestOf(r) == {req \in SimulationRequest : req.id = r}
VerdictOn(r) == {event \in SimulationEvent : IsVerdict(event, r)}
RunningOf(r) == {s \in simulations : s.request.id = r}

Offered(r)  == Count(from_handle, AddOf(r))
Queued(r)   == Count(high_priority_queue, RequestOf(r))
                 + Count(normal_priority_queue, RequestOf(r))
Popped(r)   == Count(ready, RequestOf(r))
Running(r)  == Cardinality(RunningOf(r))
Heard(l, r) == Count(mailbox[l], VerdictOn(r))

Places(r) == Offered(r) + Queued(r) + Popped(r) + Running(r)

\* The counts are natural numbers, and say where the request is.
LEMMA PlacesType ==
  ASSUME TypeOK, IsFiniteSet(simulations), NEW r \in Requests
  PROVE  /\ Offered(r) \in Nat /\ Queued(r) \in Nat
         /\ Popped(r) \in Nat /\ Running(r) \in Nat
         /\ \A l \in Listeners : Heard(l, r) \in Nat
         /\ InChannel(r) <=> Offered(r) # 0
         /\ IsQueued(r) <=> Queued(r) # 0
         /\ IsReady(r) <=> Popped(r) # 0
         /\ InFlight(r) <=> Running(r) # 0
<1>1. Offered(r) \in Nat /\ (InChannel(r) <=> Offered(r) # 0)
  <2>1. \A i \in DOMAIN from_handle : from_handle[i] \in Message
    BY LenProperties, ElementOfSeq DEF TypeOK
  <2>2. /\ Offered(r) \in Nat
        /\ Offered(r) = 0 <=> \A i \in DOMAIN from_handle : from_handle[i] \notin AddOf(r)
    BY CountType DEF TypeOK, Offered
  <2> QED
    BY <2>1, <2>2 DEF InChannel, AddOf
<1>2. Queued(r) \in Nat /\ (IsQueued(r) <=> Queued(r) # 0)
  <2>1. Waiting \in Seq(SimulationRequest)
    BY WaitingProperties
  <2>2. \A i \in DOMAIN Waiting : Waiting[i] \in SimulationRequest
    BY <2>1, LenProperties, ElementOfSeq
  <2>3. Queued(r) = Count(Waiting, RequestOf(r))
    BY CountConcat DEF TypeOK, Queued, Waiting
  <2>4. /\ Count(Waiting, RequestOf(r)) \in Nat
        /\ Count(Waiting, RequestOf(r)) = 0
             <=> \A i \in DOMAIN Waiting : Waiting[i] \notin RequestOf(r)
    BY <2>1, CountType
  <2> QED
    BY <2>2, <2>3, <2>4 DEF IsQueued, RequestOf
<1>3. Popped(r) \in Nat /\ (IsReady(r) <=> Popped(r) # 0)
  <2>1. \A i \in DOMAIN ready : ready[i] \in SimulationRequest
    BY LenProperties, ElementOfSeq DEF TypeOK
  <2>2. /\ Popped(r) \in Nat
        /\ Popped(r) = 0 <=> \A i \in DOMAIN ready : ready[i] \notin RequestOf(r)
    BY CountType DEF TypeOK, Popped
  <2> QED
    BY <2>1, <2>2 DEF IsReady, RequestOf
<1>4. Running(r) \in Nat /\ (InFlight(r) <=> Running(r) # 0)
  <2>1. RunningOf(r) \in SUBSET simulations
    BY DEF RunningOf
  <2>2. IsFiniteSet(RunningOf(r)) /\ Cardinality(RunningOf(r)) \in Nat
    BY <2>1, FS_Subset, FS_CardinalityType
  <2> QED
    BY <2>2, FS_EmptySet DEF Running, RunningOf, InFlight
<1>5. \A l \in Listeners : Heard(l, r) \in Nat
  <2>1. \A l \in Listeners : mailbox[l] \in Seq(SimulationEvent)
    BY DEF TypeOK
  <2> QED
    BY <2>1, CountType DEF Heard
<1> QED
  BY <1>1, <1>2, <1>3, <1>4, <1>5

LEMMA InServiceCounted ==
  ASSUME TypeOK, IsFiniteSet(simulations), NEW r \in Requests
  PROVE  Places(r) \in Nat /\ (InService(r) <=> Places(r) # 0)
<1>1. /\ Offered(r) \in Nat /\ Queued(r) \in Nat
      /\ Popped(r) \in Nat /\ Running(r) \in Nat
  BY PlacesType
<1>2. Places(r) = 0 <=> Offered(r) = 0 /\ Queued(r) = 0 /\ Popped(r) = 0 /\ Running(r) = 0
  BY <1>1 DEF Places
<1>3. /\ InChannel(r) <=> Offered(r) # 0
      /\ IsQueued(r) <=> Queued(r) # 0
      /\ IsReady(r) <=> Popped(r) # 0
      /\ InFlight(r) <=> Running(r) # 0
  BY PlacesType
<1>4. InService(r) <=> Places(r) # 0
  BY <1>2, <1>3, Zenon DEF InService
<1> QED
  BY <1>1, <1>4 DEF Places

\* The definitions of the model count the same.
LEMMA CopiesCounted ==
  ASSUME TypeOK, IsFiniteSet(simulations), NEW r \in Requests
  PROVE  /\ Copies(r) = Places(r)
         /\ \A l \in Listeners : /\ Verdicts(l, r) = Where(mailbox[l], VerdictOn(r))
                                 /\ Cardinality(Verdicts(l, r)) = Heard(l, r)
                                 /\ Verdicts(l, r) = {} <=> Heard(l, r) = 0
<1>1. {i \in DOMAIN from_handle : /\ from_handle[i].type = "AddSimulation"
                                  /\ from_handle[i].request.id = r}
        = Where(from_handle, AddOf(r))
  <2>1. \A i \in DOMAIN from_handle : from_handle[i] \in Message
    BY LenProperties, ElementOfSeq DEF TypeOK
  <2> QED
    BY <2>1 DEF Where, AddOf
<1>2. Cardinality({i \in DOMAIN Waiting : Waiting[i].id = r}) = Queued(r)
  <2>1. Waiting \in Seq(SimulationRequest)
    BY WaitingProperties
  <2>2. \A i \in DOMAIN Waiting : Waiting[i] \in SimulationRequest
    BY <2>1, LenProperties, ElementOfSeq
  <2>3. Queued(r) = Count(Waiting, RequestOf(r))
    BY CountConcat DEF TypeOK, Queued, Waiting
  <2>4. {i \in DOMAIN Waiting : Waiting[i].id = r} = Where(Waiting, RequestOf(r))
    BY <2>2 DEF Where, RequestOf
  <2> QED
    BY <2>3, <2>4 DEF Count
<1>3. {i \in DOMAIN ready : ready[i].id = r} = Where(ready, RequestOf(r))
  <2>1. \A i \in DOMAIN ready : ready[i] \in SimulationRequest
    BY LenProperties, ElementOfSeq DEF TypeOK
  <2> QED
    BY <2>1 DEF Where, RequestOf
<1>4. Copies(r) = Places(r)
  BY <1>1, <1>2, <1>3 DEF Copies, Places, Offered, Popped, Running, RunningOf, Count
<1>5. ASSUME NEW l \in Listeners
      PROVE  /\ Verdicts(l, r) = Where(mailbox[l], VerdictOn(r))
             /\ Cardinality(Verdicts(l, r)) = Heard(l, r)
             /\ Verdicts(l, r) = {} <=> Heard(l, r) = 0
  <2>1. mailbox[l] \in Seq(SimulationEvent)
    BY DEF TypeOK
  <2>2. \A i \in DOMAIN mailbox[l] : mailbox[l][i] \in SimulationEvent
    BY <2>1, LenProperties, ElementOfSeq
  <2>3. Verdicts(l, r) = Where(mailbox[l], VerdictOn(r))
    BY <2>2 DEF Verdicts, Where, VerdictOn
  <2>4. IsFiniteSet(Where(mailbox[l], VerdictOn(r)))
    BY <2>1, CountType
  <2> QED
    BY <2>3, <2>4, FS_EmptySet DEF Heard, Count
<1> QED
  BY <1>4, <1>5
-----------------------------------------------------------------------------
(* How the building blocks of the actions change the counts.               *)

LEMMA SendCounts ==
  ASSUME TypeOK, NEW msg \in Message, Send(msg), NEW r \in Requests
  PROVE  Offered(r)' = Offered(r) + (IF msg \in AddOf(r) THEN 1 ELSE 0)
<1>1. from_handle \in Seq(Message) /\ from_handle' = Append(from_handle, msg)
  BY DEF TypeOK, Send
<1>2. Count(Append(from_handle, msg), AddOf(r)) =
        Count(from_handle, AddOf(r)) + (IF msg \in AddOf(r) THEN 1 ELSE 0)
  BY <1>1, CountAppend
<1> QED
  BY <1>1, <1>2 DEF Offered

LEMMA ReceiveCounts ==
  ASSUME TypeOK, NEW type, Receive(type), NEW r \in Requests
  PROVE  /\ Head(from_handle) \in Message
         /\ Offered(r)' =
              Offered(r) - (IF Head(from_handle) \in AddOf(r) THEN 1 ELSE 0)
<1>1. from_handle \in Seq(Message) /\ from_handle # <<>> /\ from_handle' = Tail(from_handle)
  BY DEF TypeOK, Receive
<1>2. Count(Tail(from_handle), AddOf(r)) =
        Count(from_handle, AddOf(r)) - (IF Head(from_handle) \in AddOf(r) THEN 1 ELSE 0)
  BY <1>1, CountTail
<1> QED
  BY <1>1, <1>2, HeadTailProperties DEF Offered

LEMMA PushBackCounts ==
  ASSUME TypeOK, NEW req \in SimulationRequest, PushBack(req), NEW r \in Requests
  PROVE  Queued(r)' = Queued(r) + (IF req.id = r THEN 1 ELSE 0)
<1>1. /\ high_priority_queue \in Seq(SimulationRequest)
      /\ normal_priority_queue \in Seq(SimulationRequest)
  BY DEF TypeOK
<1>2. req \in RequestOf(r) <=> req.id = r
  BY DEF RequestOf
<1>3. /\ Count(Append(high_priority_queue, req), RequestOf(r)) =
           Count(high_priority_queue, RequestOf(r)) + (IF req.id = r THEN 1 ELSE 0)
      /\ Count(Append(normal_priority_queue, req), RequestOf(r)) =
           Count(normal_priority_queue, RequestOf(r)) + (IF req.id = r THEN 1 ELSE 0)
  BY <1>1, <1>2, CountAppend
<1>4. /\ Count(high_priority_queue, RequestOf(r)) \in Nat
      /\ Count(normal_priority_queue, RequestOf(r)) \in Nat
  BY <1>1, CountType
<1>5. CASE /\ high_priority_queue' = Append(high_priority_queue, req)
           /\ UNCHANGED normal_priority_queue
  <2>1. Queued(r)' = Count(Append(high_priority_queue, req), RequestOf(r))
                       + Count(normal_priority_queue, RequestOf(r))
    BY <1>5 DEF Queued
  <2> QED
    BY <1>3, <1>4, <2>1 DEF Queued
<1>6. CASE /\ normal_priority_queue' = Append(normal_priority_queue, req)
           /\ UNCHANGED high_priority_queue
  <2>1. Queued(r)' = Count(high_priority_queue, RequestOf(r))
                       + Count(Append(normal_priority_queue, req), RequestOf(r))
    BY <1>6 DEF Queued
  <2> QED
    BY <1>3, <1>4, <2>1 DEF Queued
<1> QED
  BY <1>5, <1>6 DEF PushBack

LEMMA DequeueCounts ==
  ASSUME TypeOK, NEW pos \in DOMAIN Waiting, Dequeue(pos), NEW r \in Requests
  PROVE  Queued(r)' = Queued(r) - (IF Waiting[pos].id = r THEN 1 ELSE 0)
<1> DEFINE n == IF Waiting[pos].id = r THEN 1 ELSE 0
<1>1. /\ high_priority_queue \in Seq(SimulationRequest)
      /\ normal_priority_queue \in Seq(SimulationRequest)
  BY DEF TypeOK
<1>2. /\ Count(high_priority_queue, RequestOf(r)) \in Nat
      /\ Count(normal_priority_queue, RequestOf(r)) \in Nat
      /\ Len(high_priority_queue) \in Nat /\ Len(normal_priority_queue) \in Nat
  BY <1>1, CountType, LenProperties
<1>3. /\ pos \in 1 .. Len(high_priority_queue) + Len(normal_priority_queue)
      /\ Waiting[pos] = IF pos <= Len(high_priority_queue)
                        THEN high_priority_queue[pos]
                        ELSE normal_priority_queue[pos - Len(high_priority_queue)]
      /\ Waiting[pos] \in SimulationRequest
  BY WaitingProperties, ElementOfSeq
<1>4. Waiting[pos] \in RequestOf(r) <=> Waiting[pos].id = r
  BY <1>3 DEF RequestOf
<1>5. CASE pos <= Len(high_priority_queue)
  <2>1. pos \in 1 .. Len(high_priority_queue)
    BY <1>2, <1>3, <1>5
  <2>2. Count(RemoveAt(high_priority_queue, pos), RequestOf(r)) =
          Count(high_priority_queue, RequestOf(r))
            - (IF high_priority_queue[pos] \in RequestOf(r) THEN 1 ELSE 0)
    BY <1>1, <2>1, CountRemoveAt
  <2>3. /\ high_priority_queue' = RemoveAt(high_priority_queue, pos)
        /\ UNCHANGED normal_priority_queue
    BY <1>2, <1>3, <1>5 DEF Dequeue
  <2>4. Queued(r)' = Count(RemoveAt(high_priority_queue, pos), RequestOf(r))
                       + Count(normal_priority_queue, RequestOf(r))
    BY <2>3 DEF Queued
  <2> QED
    BY <1>2, <1>3, <1>4, <1>5, <2>2, <2>4 DEF Queued
<1>6. CASE ~(pos <= Len(high_priority_queue))
  <2> DEFINE at == pos - Len(high_priority_queue)
  <2>1. at \in 1 .. Len(normal_priority_queue) /\ pos > Len(high_priority_queue)
    BY <1>2, <1>3, <1>6
  <2>2. Count(RemoveAt(normal_priority_queue, at), RequestOf(r)) =
          Count(normal_priority_queue, RequestOf(r))
            - (IF normal_priority_queue[at] \in RequestOf(r) THEN 1 ELSE 0)
    BY <1>1, <2>1, CountRemoveAt
  <2>3. /\ normal_priority_queue' = RemoveAt(normal_priority_queue, at)
        /\ UNCHANGED high_priority_queue
    BY <1>6, <2>1 DEF Dequeue
  <2>4. Queued(r)' = Count(high_priority_queue, RequestOf(r))
                       + Count(RemoveAt(normal_priority_queue, at), RequestOf(r))
    BY <2>3 DEF Queued
  <2> QED
    BY <1>2, <1>3, <1>4, <1>6, <2>2, <2>4 DEF Queued
<1> QED
  BY <1>5, <1>6

LEMMA NotifyCounts ==
  ASSUME TypeOK, NEW event \in SimulationEvent, Notify(event),
         NEW r \in Requests, NEW l \in Listeners
  PROVE  Heard(l, r)' =
           Heard(l, r) + (IF l \in listeners' /\ IsVerdict(event, r) THEN 1 ELSE 0)
<1>1. mailbox[l] \in Seq(SimulationEvent)
  BY DEF TypeOK
<1>2. mailbox'[l] = IF l \in listeners' THEN Append(mailbox[l], event) ELSE mailbox[l]
  BY DEF Notify
<1>3. Count(Append(mailbox[l], event), VerdictOn(r)) =
        Count(mailbox[l], VerdictOn(r)) + (IF event \in VerdictOn(r) THEN 1 ELSE 0)
  BY <1>1, CountAppend
<1>4. event \in VerdictOn(r) <=> IsVerdict(event, r)
  BY DEF VerdictOn
<1>5. Heard(l, r)' = Count(mailbox'[l], VerdictOn(r)) /\ Heard(l, r) \in Nat
  BY <1>1, CountType DEF Heard
<1> QED
  BY <1>2, <1>3, <1>4, <1>5 DEF Heard

LEMMA RunningRemoved ==
  ASSUME TypeOK, IsFiniteSet(simulations), NEW s \in simulations,
         simulations' = simulations \ {s}, NEW r \in Requests
  PROVE  Running(r)' = Running(r) - (IF s.request.id = r THEN 1 ELSE 0)
<1>1. IsFiniteSet(RunningOf(r)) /\ Running(r) \in Nat
  BY FS_Subset, FS_CardinalityType DEF RunningOf, Running
<1>2. RunningOf(r)' = RunningOf(r) \ {s}
  BY DEF RunningOf
<1>3. s \in RunningOf(r) <=> s.request.id = r
  BY DEF RunningOf
<1>4. Cardinality(RunningOf(r) \ {s}) =
        IF s \in RunningOf(r) THEN Cardinality(RunningOf(r)) - 1 ELSE Cardinality(RunningOf(r))
  BY <1>1, FS_RemoveElement
<1> QED
  BY <1>1, <1>2, <1>3, <1>4 DEF Running

LEMMA RunningAdded ==
  ASSUME TypeOK, IsFiniteSet(simulations), NEW s \in Simulation, s \notin simulations,
         simulations' = simulations \cup {s}, NEW r \in Requests
  PROVE  Running(r)' = Running(r) + (IF s.request.id = r THEN 1 ELSE 0)
<1>1. IsFiniteSet(RunningOf(r)) /\ Running(r) \in Nat
  BY FS_Subset, FS_CardinalityType DEF RunningOf, Running
<1>2. RunningOf(r)' = IF s.request.id = r THEN RunningOf(r) \cup {s} ELSE RunningOf(r)
  BY DEF RunningOf
<1>3. s \notin RunningOf(r)
  BY DEF RunningOf
<1>4. Cardinality(RunningOf(r) \cup {s}) = Cardinality(RunningOf(r)) + 1
  BY <1>1, <1>3, FS_AddElement
<1> QED
  BY <1>1, <1>2, <1>4 DEF Running
-----------------------------------------------------------------------------
(* How the actions move the requests: an action moves one request at most,  *)
(* and tells the listeners about that one at most.                          *)

\* The counts of x change by o, q, p and f, those of the others do not.
Moves(x, o, q, p, f) ==
  \A r \in Requests :
    /\ Offered(r)' = Offered(r) + (IF r = x THEN o ELSE 0)
    /\ Queued(r)'  = Queued(r) + (IF r = x THEN q ELSE 0)
    /\ Popped(r)'  = Popped(r) + (IF r = x THEN p ELSE 0)
    /\ Running(r)' = Running(r) + (IF r = x THEN f ELSE 0)

Stay == \A r \in Requests : /\ Offered(r)' = Offered(r) /\ Queued(r)' = Queued(r)
                            /\ Popped(r)' = Popped(r) /\ Running(r)' = Running(r)

Silent == \A l \in Listeners, r \in Requests : Heard(l, r)' = Heard(l, r)

Tells(x) == \A l \in Listeners, r \in Requests :
  Heard(l, r)' = Heard(l, r) + (IF r = x /\ l \in listeners' THEN 1 ELSE 0)

LEMMA CountsFrame ==
  ASSUME NEW r \in Requests
  PROVE  /\ UNCHANGED from_handle => Offered(r)' = Offered(r)
         /\ UNCHANGED queueVars => Queued(r)' = Queued(r)
         /\ UNCHANGED ready => Popped(r)' = Popped(r)
         /\ UNCHANGED simulations => Running(r)' = Running(r)
         /\ UNCHANGED mailbox => \A l \in Listeners : Heard(l, r)' = Heard(l, r)
BY DEF Offered, Queued, Popped, Running, RunningOf, Heard, queueVars

LEMMA SubmitMoves ==
  ASSUME TypeOK, IsFiniteSet(simulations), NEW x \in Requests,
         NEW told \in {"Sent", "Awaiting"}, Submit(x, told)
  PROVE  Moves(x, 1, 0, 0, 0) /\ Silent
<1>1. PICK prio \in Priority, inclusion \in Inclusions :
        Send([type |-> "AddSimulation", request |-> NewRequest(x, prio, inclusion)])
  BY DEF Submit
<1> DEFINE msg == [type |-> "AddSimulation", request |-> NewRequest(x, prio, inclusion)]
<1>2. NewRequest(x, prio, inclusion) \in SimulationRequest
  BY InputAssumption DEF NewRequest, SimulationRequest
<1>3. msg \in Message
  BY <1>2 DEF Message
<1>4. \A r \in Requests : msg \in AddOf(r) <=> r = x
  BY <1>3 DEF AddOf, NewRequest
<1>5. UNCHANGED <<queueVars, ready, simulations, mailbox>>
  BY DEF Submit, simVars, listenerVars
<1> HIDE DEF msg
<1>6. ASSUME NEW r \in Requests
      PROVE  Offered(r)' = Offered(r) + (IF r = x THEN 1 ELSE 0)
  BY <1>1, <1>3, <1>4, SendCounts DEF msg
<1> QED
  BY <1>5, <1>6, CountsFrame, PlacesType DEF Moves, Silent

\* The calls of the handles that submit nothing.
LEMMA OtherHandleStepsStay ==
  ASSUME TypeOK, IsFiniteSet(simulations),
         \/ \E r \in Requests : SubmitToDroppedService(r) \/ CancelAdd(r)
         \/ \E num \in BlockNumbers : update_block_number(num)
         \/ clear_queue
         \/ \E l \in Listeners : events(l) \/ DropEventStream(l)
  PROVE  Stay /\ Silent
<1>1. UNCHANGED <<queueVars, ready, simulations, mailbox>>
  BY DEF SubmitToDroppedService, CancelAdd, update_block_number, clear_queue, events,
         DropEventStream, simVars, listenerVars
<1>2. ASSUME NEW r \in Requests, NEW msg \in Message, Send(msg), msg.type # "AddSimulation"
      PROVE  Offered(r)' = Offered(r)
  BY <1>2, SendCounts, PlacesType DEF AddOf
<1>3. ASSUME NEW r \in Requests
      PROVE  Offered(r)' = Offered(r)
  <2>1. ASSUME NEW num \in BlockNumbers, update_block_number(num)
        PROVE  Offered(r)' = Offered(r)
    BY <1>2, <2>1, InputAssumption DEF update_block_number, Message
  <2>2. CASE clear_queue
    BY <1>2, <2>2 DEF clear_queue, Message
  <2>3. ASSUME NEW l \in Listeners, events(l) PROVE Offered(r)' = Offered(r)
    BY <1>2, <2>3 DEF events, Message
  <2> QED
    BY <2>1, <2>2, <2>3, CountsFrame DEF SubmitToDroppedService, CancelAdd, DropEventStream
<1> QED
  BY <1>1, <1>3, CountsFrame DEF Stay, Silent

LEMMA OtherMessagesStay ==
  ASSUME TypeOK, IsFiniteSet(simulations), OnUpdateBlockNumber \/ OnAddEventListener
  PROVE  Stay /\ Silent
<1>1. UNCHANGED <<queueVars, ready, simulations>>
  BY DEF OnUpdateBlockNumber, OnAddEventListener, Receive, simVars
<1>2. ASSUME NEW r \in Requests PROVE Offered(r)' = Offered(r)
  <2>1. Receive("UpdateBlockNumber") \/ Receive("AddEventListener")
    BY DEF OnUpdateBlockNumber, OnAddEventListener
  <2>2. Head(from_handle) \notin AddOf(r)
    BY <2>1 DEF Receive, AddOf
  <2> QED
    BY <2>1, <2>2, ReceiveCounts, PlacesType
<1>3. ASSUME NEW r \in Requests, NEW l \in Listeners PROVE Heard(l, r)' = Heard(l, r)
  <2> DEFINE event == [type |-> "BlockNumberUpdated", old |-> current_block_number,
                       current |-> current_block_number]
  <2>1. UNCHANGED mailbox \/ Notify(event)
    BY DEF OnUpdateBlockNumber, OnAddEventListener, listenerVars
  <2>2. event \in SimulationEvent /\ ~IsVerdict(event, r)
    BY DEF TypeOK, SimulationEvent, IsVerdict
  <2> HIDE DEF event
  <2> QED
    BY <2>1, <2>2, NotifyCounts, CountsFrame, PlacesType
<1> QED
  BY <1>1, <1>2, <1>3, CountsFrame DEF Stay, Silent

\* The test a request must pass to be queued.
RoomFor(req) == IF is_high(req) THEN has_high_priority_capacity
                                ELSE has_normal_priority_capacity

\* A request that is received goes to its queue, or there was no room for it.
LEMMA AddMoves ==
  ASSUME TypeOK, IsFiniteSet(simulations), OnAddSimulation
  PROVE  LET x == Head(from_handle).request.id
         IN  /\ x \in Requests
             /\ InChannel(x)
             /\ \/ /\ Moves(x, -1, 1, 0, 0) /\ Answer(x, "Ok")
                   /\ RoomFor(Head(from_handle).request)
                \/ /\ Moves(x, -1, 0, 0, 0) /\ Answer(x, "QueueFull")
                   /\ ~RoomFor(Head(from_handle).request)
             /\ Silent
<1> DEFINE req == Head(from_handle).request
           x == req.id
<1>1. Receive("AddSimulation") /\ Head(from_handle).type = "AddSimulation"
  BY DEF OnAddSimulation, Receive
<1>2. req \in SimulationRequest /\ x \in Requests
  BY <1>1, ReceivedMessage DEF SimulationRequest
<1>3. Head(from_handle) \in Message
  BY <1>1, <1>2, ReceiveCounts
<1>4. InChannel(x)
  <2>1. from_handle # <<>> /\ from_handle \in Seq(Message)
    BY <1>1 DEF Receive, TypeOK
  <2>2. 1 \in DOMAIN from_handle /\ from_handle[1] = Head(from_handle)
    BY <2>1, EmptySeq, LenProperties
  <2> QED
    BY <1>1, <2>2 DEF InChannel
<1>5. \A r \in Requests : Head(from_handle) \in AddOf(r) <=> r = x
  BY <1>1, <1>3 DEF AddOf
<1>6. \/ PushBack(req) /\ Answer(x, "Ok") /\ RoomFor(req)
      \/ UNCHANGED queueVars /\ Answer(x, "QueueFull") /\ ~RoomFor(req)
  BY DEF OnAddSimulation, RoomFor
<1>7. UNCHANGED <<ready, simulations, mailbox>>
  BY <1>1 DEF OnAddSimulation, Receive, simVars, listenerVars
<1> HIDE DEF req, x
<1>8. ASSUME NEW r \in Requests
      PROVE  Offered(r)' = Offered(r) + (IF r = x THEN -1 ELSE 0)
  <2>1. Offered(r) \in Nat
    BY PlacesType
  <2>2. Offered(r)' = Offered(r) - (IF Head(from_handle) \in AddOf(r) THEN 1 ELSE 0)
    BY <1>1, ReceiveCounts
  <2> QED
    BY <1>5, <2>1, <2>2
<1>9. ASSUME NEW r \in Requests, PushBack(req)
      PROVE  Queued(r)' = Queued(r) + (IF r = x THEN 1 ELSE 0)
  BY <1>2, <1>9, PushBackCounts DEF x
<1>10. ASSUME PushBack(req) PROVE Moves(x, -1, 1, 0, 0)
  BY <1>7, <1>8, <1>9, <1>10, CountsFrame, PlacesType DEF Moves
<1>11. ASSUME UNCHANGED queueVars PROVE Moves(x, -1, 0, 0, 0)
  BY <1>7, <1>8, <1>11, CountsFrame, PlacesType DEF Moves
<1>12. Silent
  BY <1>7, CountsFrame DEF Silent
<1> QED
  BY <1>2, <1>4, <1>6, <1>10, <1>11, <1>12 DEF x, req

LEMMA ClearMoves ==
  ASSUME TypeOK, IsFiniteSet(simulations), OnClearQueue
  PROVE  /\ Silent
         /\ \A r \in Requests : /\ Offered(r)' = Offered(r)
                                /\ Queued(r)' = 0
                                /\ Popped(r)' = Popped(r)
                                /\ Running(r)' = Running(r)
<1>1. /\ high_priority_queue' = <<>> /\ normal_priority_queue' = <<>>
      /\ UNCHANGED <<ready, simulations, mailbox>>
      /\ Receive("ClearQueue")
  BY DEF OnClearQueue, Receive, simVars, listenerVars
<1>2. ASSUME NEW r \in Requests PROVE Queued(r)' = 0
  <2>1. Queued(r)' = Count(<<>>, RequestOf(r)) + Count(<<>>, RequestOf(r))
    BY <1>1 DEF Queued
  <2> QED
    BY <2>1, CountEmpty
<1>3. ASSUME NEW r \in Requests PROVE Offered(r)' = Offered(r)
  <2>1. Head(from_handle) \notin AddOf(r)
    BY <1>1 DEF Receive, AddOf
  <2> QED
    BY <1>1, <2>1, ReceiveCounts, PlacesType
<1> QED
  BY <1>1, <1>2, <1>3, CountsFrame DEF Silent

\* A simulation ends with a verdict, or its request goes back to its queue; that is
\* when the relay asked for a retry and there is one left.
LEMMA OutcomeMoves ==
  ASSUME TypeOK, IsFiniteSet(simulations), NEW s \in simulations,
         NEW answer \in RelayAnswer, OnSimulationOutcome(s, answer)
  PROVE  LET x == s.request.id
         IN  /\ x \in Requests
             /\ InFlight(x)
             /\ \/ /\ Moves(x, 0, 0, 0, -1) /\ Tells(x)
                   /\ \/ ~is_nonce_too_low(answer)
                      \/ exceeds_max_retries([s.request EXCEPT !.retries = @ + 1])
                \/ /\ Moves(x, 0, 1, 0, -1) /\ Silent
                   /\ is_nonce_too_low(answer)
                   /\ ~exceeds_max_retries([s.request EXCEPT !.retries = @ + 1])
<1> DEFINE x == s.request.id
           sim == [s.request EXCEPT !.retries = @ + 1]
<1>1. s.request \in SimulationRequest
  BY DEF TypeOK, Simulation
<1>2. /\ x \in Requests /\ s.request.retries \in Nat
      /\ sim \in SimulationRequest /\ sim.id = x
  BY <1>1 DEF SimulationRequest
<1>3. UNCHANGED <<from_handle, ready>> /\ simulations' = simulations \ {s}
  BY DEF OnSimulationOutcome, PollSimulation
<1>4. \/ \E event \in SimulationEvent :
           /\ UNCHANGED queueVars /\ Notify(event)
           /\ \A r \in Requests : IsVerdict(event, r) <=> r = x
           /\ ~is_nonce_too_low(answer) \/ exceeds_max_retries(sim)
      \/ /\ PushBack(sim) /\ UNCHANGED mailbox
         /\ is_nonce_too_low(answer) /\ ~exceeds_max_retries(sim)
  <2> DEFINE result(ok) == [type |-> "SimulatedBundle", id |-> x, ok |-> ok,
                            retries |-> s.request.retries]
             exceeded == [type |-> "ExceededMaxRetries", id |-> sim.id]
  <2>1. /\ result(TRUE) \in SimulationEvent /\ result(FALSE) \in SimulationEvent
        /\ exceeded \in SimulationEvent
    BY <1>2 DEF SimulationEvent
  <2>2. \A r \in Requests : /\ IsVerdict(result(TRUE), r) <=> r = x
                            /\ IsVerdict(result(FALSE), r) <=> r = x
                            /\ IsVerdict(exceeded, r) <=> r = x
    BY <1>2 DEF IsVerdict
  <2>3. \/ OnSuccess(s) /\ ~is_nonce_too_low(answer)
        \/ OnFatal(s) /\ ~is_nonce_too_low(answer)
        \/ OnReschedule(s) /\ is_nonce_too_low(answer)
    BY DEF OnSimulationOutcome, SimulationOutcome, is_nonce_too_low, RelayAnswer
  <2>4. \/ Notify(result(TRUE)) /\ UNCHANGED queueVars /\ ~is_nonce_too_low(answer)
        \/ Notify(result(FALSE)) /\ UNCHANGED queueVars /\ ~is_nonce_too_low(answer)
        \/ Notify(exceeded) /\ UNCHANGED queueVars /\ exceeds_max_retries(sim)
        \/ /\ PushBack(sim) /\ UNCHANGED mailbox
           /\ is_nonce_too_low(answer) /\ ~exceeds_max_retries(sim)
    BY <2>3 DEF OnSuccess, OnFatal, OnReschedule, listenerVars
  <2> HIDE DEF result, exceeded
  <2> QED
    BY <2>1, <2>2, <2>4
<1>5. InFlight(x)
  BY DEF InFlight
<1> HIDE DEF x, sim
<1>6. ASSUME NEW r \in Requests
      PROVE  Running(r)' = Running(r) + (IF r = x THEN -1 ELSE 0)
  <2>1. Running(r)' = Running(r) - (IF s.request.id = r THEN 1 ELSE 0)
    BY <1>3, RunningRemoved
  <2> QED
    BY <2>1, PlacesType DEF x
<1>7. ASSUME NEW event \in SimulationEvent, UNCHANGED queueVars, Notify(event),
             \A r \in Requests : IsVerdict(event, r) <=> r = x
      PROVE  Moves(x, 0, 0, 0, -1) /\ Tells(x)
  <2>1. Moves(x, 0, 0, 0, -1)
    BY <1>3, <1>6, <1>7, CountsFrame, PlacesType DEF Moves
  <2>2. ASSUME NEW l \in Listeners, NEW r \in Requests
        PROVE  Heard(l, r)' = Heard(l, r) + (IF r = x /\ l \in listeners' THEN 1 ELSE 0)
    <3>1. Heard(l, r)' =
            Heard(l, r) + (IF l \in listeners' /\ IsVerdict(event, r) THEN 1 ELSE 0)
      BY <1>7, NotifyCounts
    <3> QED
      BY <1>7, <3>1
  <2> QED
    BY <2>1, <2>2 DEF Tells
<1>8. ASSUME PushBack(sim), UNCHANGED mailbox
      PROVE  Moves(x, 0, 1, 0, -1) /\ Silent
  <2>1. ASSUME NEW r \in Requests
        PROVE  Queued(r)' = Queued(r) + (IF r = x THEN 1 ELSE 0)
    BY <1>2, <1>8, PushBackCounts
  <2> QED
    BY <1>3, <1>6, <1>8, <2>1, CountsFrame, PlacesType DEF Moves, Silent
<1> QED
  BY <1>2, <1>4, <1>5, <1>7, <1>8 DEF x, sim

\* What is popped is simulated, or its listeners hear that it is outdated.
LEMMA PopMoves ==
  ASSUME TypeOK, IsFiniteSet(simulations), PopNextReady
  PROVE  \E x \in Requests :
           /\ IsQueued(x)
           /\ \/ Moves(x, 0, -1, 1, 0) /\ Silent
              \/ /\ Moves(x, 0, -1, 0, 0) /\ Tells(x)
                 /\ \E pos \in DOMAIN Waiting :
                      Waiting[pos].id = x /\ exceeds_target_block(Waiting[pos], NextBlock)
<1>1. PICK pos \in DOMAIN Waiting :
        /\ Dequeue(pos)
        /\ \/ /\ Notify([type |-> "OutdatedRequest", id |-> Waiting[pos].id,
                         inclusion |-> Waiting[pos].inclusion, next_block |-> NextBlock])
              /\ exceeds_target_block(Waiting[pos], NextBlock)
              /\ UNCHANGED ready
           \/ /\ ready' = Append(ready, Waiting[pos])
              /\ UNCHANGED mailbox
  BY DEF PopNextReady, listenerVars
<1> DEFINE item == Waiting[pos]
           x == item.id
           event == [type |-> "OutdatedRequest", id |-> x, inclusion |-> item.inclusion,
                     next_block |-> NextBlock]
<1>2. item \in SimulationRequest
  BY WaitingProperties, ElementOfSeq
<1>3. x \in Requests /\ IsQueued(x) /\ item.inclusion \in Window
  BY <1>2 DEF SimulationRequest, IsQueued
<1>4. event \in SimulationEvent /\ \A r \in Requests : IsVerdict(event, r) <=> r = x
  <2>1. NextBlock \in Nat
    BY DEF NextBlock, TypeOK
  <2> QED
    BY <1>3, <2>1 DEF SimulationEvent, IsVerdict
<1>5. UNCHANGED <<from_handle, simulations>>
  BY DEF PopNextReady
<1>6. /\ Dequeue(pos)
      /\ \/ Notify(event) /\ UNCHANGED ready /\ exceeds_target_block(item, NextBlock)
         \/ ready' = Append(ready, item) /\ UNCHANGED mailbox
  BY <1>1
<1>10. item.id = x /\ item = Waiting[pos]
  OBVIOUS
<1> HIDE DEF item, x, event
<1>7. ASSUME NEW r \in Requests
      PROVE  Queued(r)' = Queued(r) + (IF r = x THEN -1 ELSE 0)
  <2>1. Queued(r)' = Queued(r) - (IF item.id = r THEN 1 ELSE 0)
    BY <1>6, DequeueCounts DEF item
  <2> QED
    BY <2>1, PlacesType DEF x
<1>8. ASSUME Notify(event), UNCHANGED ready PROVE Moves(x, 0, -1, 0, 0) /\ Tells(x)
  <2>1. Moves(x, 0, -1, 0, 0)
    BY <1>5, <1>7, <1>8, CountsFrame, PlacesType DEF Moves
  <2>2. ASSUME NEW l \in Listeners, NEW r \in Requests
        PROVE  Heard(l, r)' = Heard(l, r) + (IF r = x /\ l \in listeners' THEN 1 ELSE 0)
    <3>1. Heard(l, r)' =
            Heard(l, r) + (IF l \in listeners' /\ IsVerdict(event, r) THEN 1 ELSE 0)
      BY <1>4, <1>8, NotifyCounts
    <3> QED
      BY <1>4, <3>1
  <2> QED
    BY <2>1, <2>2 DEF Tells
<1>9. ASSUME ready' = Append(ready, item), UNCHANGED mailbox
      PROVE  Moves(x, 0, -1, 1, 0) /\ Silent
  <2>1. ASSUME NEW r \in Requests
        PROVE  Popped(r)' = Popped(r) + (IF r = x THEN 1 ELSE 0)
    <3>1. item \in RequestOf(r) <=> r = x
      BY <1>2 DEF RequestOf, x
    <3>2. ready \in Seq(SimulationRequest)
      BY DEF TypeOK
    <3>3. Count(Append(ready, item), RequestOf(r)) =
            Count(ready, RequestOf(r)) + (IF item \in RequestOf(r) THEN 1 ELSE 0)
      BY <1>2, <3>2, CountAppend
    <3>4. Popped(r)' = Count(Append(ready, item), RequestOf(r))
      BY <1>9 DEF Popped
    <3> QED
      BY <3>1, <3>3, <3>4 DEF Popped
  <2> QED
    BY <1>5, <1>7, <1>9, <2>1, CountsFrame, PlacesType DEF Moves, Silent
<1> QED
  BY <1>3, <1>6, <1>8, <1>9, <1>10

\* That the simulation is a new one needs that its request runs nowhere else.
LEMMA StartMoves ==
  ASSUME TypeOK, IsFiniteSet(simulations), \A r \in Requests : Places(r) <= 1,
         StartSimulation
  PROVE  LET x == Head(ready).id
         IN  /\ x \in Requests
             /\ IsReady(x)
             /\ Moves(x, 0, 0, -1, 1) /\ Silent
<1> DEFINE x == Head(ready).id
           s == [request |-> Head(ready), poll |-> "unpolled"]
<1>1. /\ ready # <<>> /\ ready \in Seq(SimulationRequest)
      /\ ready' = Tail(ready) /\ simulations' = simulations \cup {s}
      /\ UNCHANGED <<from_handle, queueVars, mailbox>>
  BY DEF StartSimulation, TypeOK, listenerVars
<1>2. Head(ready) \in SimulationRequest
  BY <1>1, HeadTailProperties
<1>3. x \in Requests /\ s \in Simulation
  BY <1>2 DEF SimulationRequest, Simulation
<1>4. IsReady(x)
  <2>1. 1 \in DOMAIN ready /\ ready[1] = Head(ready)
    BY <1>1, EmptySeq, LenProperties
  <2> QED
    BY <2>1 DEF IsReady
<1>5. s \notin simulations
  <2>1. Popped(x) # 0 /\ Places(x) <= 1
    BY <1>3, <1>4, PlacesType
  <2>2. Running(x) = 0
    BY <1>3, <2>1, PlacesType DEF Places
  <2>3. ~InFlight(x)
    BY <1>3, <2>2, PlacesType
  <2> QED
    BY <2>3 DEF InFlight
<1> HIDE DEF x, s
<1>6. ASSUME NEW r \in Requests
      PROVE  Popped(r)' = Popped(r) + (IF r = x THEN -1 ELSE 0)
  <2>1. Head(ready) \in RequestOf(r) <=> r = x
    BY <1>2 DEF RequestOf, x
  <2>2. Count(Tail(ready), RequestOf(r)) =
          Count(ready, RequestOf(r)) - (IF Head(ready) \in RequestOf(r) THEN 1 ELSE 0)
    BY <1>1, CountTail
  <2>3. Popped(r)' = Count(Tail(ready), RequestOf(r)) /\ Popped(r) \in Nat
    BY <1>1, PlacesType DEF Popped
  <2> QED
    BY <2>1, <2>2, <2>3 DEF Popped
<1>7. ASSUME NEW r \in Requests
      PROVE  Running(r)' = Running(r) + (IF r = x THEN 1 ELSE 0)
  <2>1. Running(r)' = Running(r) + (IF s.request.id = r THEN 1 ELSE 0)
    BY <1>1, <1>3, <1>5, RunningAdded
  <2>2. s.request.id = x
    BY DEF s, x
  <2> QED
    BY <2>1, <2>2
<1> QED
  BY <1>1, <1>3, <1>4, <1>6, <1>7, CountsFrame, PlacesType DEF Moves, Silent, x

\* A simulation that is polled or woken stays one simulation of its request.
LEMMA FutureStays ==
  ASSUME TypeOK, IsFiniteSet(simulations), \A r \in Requests : Places(r) <= 1,
         NEW s \in simulations, SimulationPending(s) \/ SimulationWakes(s)
  PROVE  Stay /\ Silent
<1>1. PICK t \in Simulation : /\ simulations' = (simulations \ {s}) \cup {t}
                              /\ t.request = s.request
  <2>1. \A p \in {"pending", "woken"} : [s EXCEPT !.poll = p] \in Simulation
    BY DEF TypeOK, Simulation
  <2>2. \A p : [s EXCEPT !.poll = p].request = s.request
    BY DEF TypeOK, Simulation
  <2>3. \E p \in {"pending", "woken"} :
          simulations' = (simulations \ {s}) \cup {[s EXCEPT !.poll = p]}
    BY DEF SimulationPending, SimulationWakes
  <2> QED
    BY <2>1, <2>2, <2>3
<1>2. UNCHANGED <<from_handle, queueVars, ready, mailbox>>
  BY DEF SimulationPending, PollSimulation, SimulationWakes, listenerVars
<1>3. ASSUME NEW r \in Requests PROVE Running(r)' = Running(r)
  <2>1. IsFiniteSet(RunningOf(r)) /\ Running(r) \in Nat
    BY FS_Subset, FS_CardinalityType DEF RunningOf, Running
  <2>2. CASE s.request.id = r
    <3>1. Running(r) <= 1 /\ s \in RunningOf(r)
      BY <2>2, PlacesType DEF Places, RunningOf
    <3>2. Cardinality(RunningOf(r)) = 1
      BY <2>1, <3>1, FS_EmptySet DEF Running
    <3>3. RunningOf(r) = {s}
      BY <2>1, <3>1, <3>2, FS_Singleton
    <3>4. RunningOf(r)' = {t}
      BY <1>1, <2>2, <3>3 DEF RunningOf
    <3> QED
      BY <3>2, <3>4, FS_Singleton DEF Running
  <2>3. CASE s.request.id # r
    <3>1. RunningOf(r)' = RunningOf(r)
      BY <1>1, <2>3 DEF RunningOf
    <3> QED
      BY <3>1 DEF Running
  <2> QED
    BY <2>2, <2>3
<1> QED
  BY <1>2, <1>3, CountsFrame DEF Stay, Silent

LEMMA TaskStays ==
  ASSUME \/ BeginPoll \/ MessagesDrained \/ CoopYield \/ OutcomesDrained
         \/ PopBestRequestsDone \/ UNCHANGED vars
  PROVE  Stay /\ Silent
<1>1. UNCHANGED <<from_handle, queueVars, ready, simulations, mailbox>>
  BY DEF BeginPoll, MessagesDrained, CoopYield, OutcomesDrained, PopBestRequestsDone,
         vars, simVars, listenerVars
<1> QED
  BY <1>1, CountsFrame DEF Stay, Silent

LEMMA DropMoves ==
  ASSUME DropService
  PROVE  /\ Silent
         /\ \A r \in Requests : /\ Offered(r)' = 0 /\ Queued(r)' = 0 /\ Running(r)' = 0
                                /\ Popped(r)' = Popped(r)
<1>1. /\ from_handle' = <<>> /\ high_priority_queue' = <<>> /\ normal_priority_queue' = <<>>
      /\ simulations' = {} /\ UNCHANGED <<ready, mailbox>>
  BY DEF DropService
<1>2. ASSUME NEW r \in Requests
      PROVE  Offered(r)' = 0 /\ Queued(r)' = 0 /\ Running(r)' = 0
  <2>1. /\ Offered(r)' = Count(<<>>, AddOf(r))
        /\ Queued(r)' = Count(<<>>, RequestOf(r)) + Count(<<>>, RequestOf(r))
    BY <1>1 DEF Offered, Queued
  <2>2. RunningOf(r)' = {}
    BY <1>1 DEF RunningOf
  <2> QED
    BY <2>1, <2>2, CountEmpty, FS_EmptySet DEF Running
<1> QED
  BY <1>1, <1>2, CountsFrame DEF Silent
-----------------------------------------------------------------------------
(* One place and one verdict.                                              *)

\* All that a step can do to the places: a request that is new to the service
\* enters, one moves on, one leaves with a verdict, or requests leave silently.
PlacesStep ==
  \/ Stay /\ Silent
  \/ \E x \in Requests : /\ reply[x] = "none" /\ reply'[x] # "none"
                         /\ Moves(x, 1, 0, 0, 0) /\ Silent
  \/ \E x \in Requests : /\ InChannel(x)
                         /\ Moves(x, -1, 1, 0, 0) \/ Moves(x, -1, 0, 0, 0)
                         /\ Silent
  \/ \E x \in Requests : /\ IsQueued(x) \/ IsReady(x) \/ InFlight(x)
                         /\ \/ Moves(x, 0, -1, 1, 0) /\ Silent
                            \/ Moves(x, 0, 0, -1, 1) /\ Silent
                            \/ Moves(x, 0, 1, 0, -1) /\ Silent
                            \/ Moves(x, 0, -1, 0, 0) /\ Tells(x)
                            \/ Moves(x, 0, 0, 0, -1) /\ Tells(x)
  \/ /\ OnClearQueue \/ DropService
     /\ Silent
     /\ \A r \in Requests :
          /\ Offered(r)' \in {0, Offered(r)} /\ Queued(r)' \in {0, Queued(r)}
          /\ Popped(r)' \in {0, Popped(r)}   /\ Running(r)' \in {0, Running(r)}

PlaceInv ==
  \A r \in Requests :
    /\ Places(r) <= 1
    /\ \A l \in Listeners : Places(r) + Heard(l, r) <= 1
    /\ reply[r] = "none" => Places(r) = 0 /\ \A l \in Listeners : Heard(l, r) = 0

LEMMA NextPlaces ==
  ASSUME TypeOK, IsFiniteSet(simulations), PlaceInv, [Next]_vars
  PROVE  PlacesStep
<1>0. \A r \in Requests : Places(r) <= 1
  BY DEF PlaceInv
<1>1. ASSUME NEW x \in Requests, NEW told \in {"Sent", "Awaiting"}, Submit(x, told)
      PROVE  PlacesStep
  <2>1. reply[x] = "none" /\ reply'[x] # "none"
    BY <1>1 DEF Submit, TypeOK
  <2> QED
    BY <1>1, <2>1, SubmitMoves DEF PlacesStep
<1>2. CASE HandleStep
  BY <1>1, <1>2, OtherHandleStepsStay
  DEF HandleStep, send_bundle_simulation, add_bundle_simulation, PlacesStep
<1>3. CASE OnMessage
  BY <1>3, OtherMessagesStay, AddMoves, ClearMoves DEF OnMessage, PlacesStep
<1>4. ASSUME NEW s \in simulations, NEW answer \in RelayAnswer,
             OnSimulationOutcome(s, answer)
      PROVE  PlacesStep
  BY <1>4, OutcomeMoves DEF PlacesStep
<1>5. CASE PopNextReady
  BY <1>5, PopMoves DEF PlacesStep
<1>6. CASE StartSimulation
  BY <1>0, <1>6, StartMoves DEF PlacesStep
<1>7. ASSUME NEW s \in simulations, SimulationPending(s) \/ SimulationWakes(s)
      PROVE  PlacesStep
  BY <1>0, <1>7, FutureStays DEF PlacesStep
<1>8. CASE BeginPoll \/ MessagesDrained \/ CoopYield \/ OutcomesDrained
             \/ PopBestRequestsDone \/ UNCHANGED vars
  BY <1>8, TaskStays DEF PlacesStep
<1>9. CASE DropService
  BY <1>9, DropMoves DEF PlacesStep
<1> QED
  BY <1>2, <1>3, <1>4, <1>5, <1>6, <1>7, <1>8, <1>9 DEF Next, PollStep, Wakes

\* What a caller has been told is not taken back.
LEMMA RepliesStay ==
  ASSUME TypeOK, [Next]_vars
  PROVE  \A r \in Requests : reply[r] # "none" => reply'[r] # "none"
<1>1. ASSUME NEW x \in Requests, NEW told \in {"Ok", "QueueFull"}, Answer(x, told)
      PROVE  \A r \in Requests : reply[r] # "none" => reply'[r] # "none"
  BY <1>1 DEF Answer, TypeOK
<1>2. CASE HandleStep
  BY <1>2 DEF HandleStep, send_bundle_simulation, add_bundle_simulation, Submit,
              SubmitToDroppedService, CancelAdd, update_block_number, clear_queue, events,
              DropEventStream, handleVars, TypeOK
<1>3. CASE OnMessage
  <2>1. CASE OnAddSimulation
    <3>1. Head(from_handle).request.id \in Requests
      BY <2>1, ReceivedMessage DEF OnAddSimulation, SimulationRequest
    <3> QED
      BY <1>1, <2>1, <3>1 DEF OnAddSimulation
  <2> QED
    BY <1>3, <2>1 DEF OnMessage, OnUpdateBlockNumber, OnClearQueue, OnAddEventListener
<1>4. CASE DropService
  BY <1>4 DEF DropService, TypeOK
<1>5. CASE \/ BeginPoll \/ MessagesDrained \/ CoopYield \/ OutcomesDrained \/ PopNextReady
           \/ PopBestRequestsDone \/ StartSimulation \/ UNCHANGED vars
           \/ \E s \in simulations : SimulationPending(s) \/ SimulationWakes(s)
           \/ \E s \in simulations, answer \in RelayAnswer : OnSimulationOutcome(s, answer)
  <2>1. UNCHANGED reply
    BY <1>5 DEF BeginPoll, MessagesDrained, CoopYield, OutcomesDrained, PopNextReady,
                PopBestRequestsDone, StartSimulation, vars, SimulationPending, SimulationWakes,
                OnSimulationOutcome, PollSimulation, handleVars
  <2> QED
    BY <2>1
<1> QED
  BY <1>2, <1>3, <1>4, <1>5 DEF Next, PollStep, Wakes

LEMMA PlacesInductive ==
  ASSUME TypeOK, IsFiniteSet(simulations), PlaceInv, PlacesStep,
         \A r \in Requests : reply[r] # "none" => reply'[r] # "none"
  PROVE  PlaceInv'
<1> SUFFICES ASSUME NEW r \in Requests
             PROVE  /\ Places(r)' <= 1
                    /\ \A l \in Listeners : Places(r)' + Heard(l, r)' <= 1
                    /\ reply'[r] = "none" =>
                         Places(r)' = 0 /\ \A l \in Listeners : Heard(l, r)' = 0
  BY DEF PlaceInv
<1>1. /\ Offered(r) \in Nat /\ Queued(r) \in Nat /\ Popped(r) \in Nat
      /\ Running(r) \in Nat /\ \A l \in Listeners : Heard(l, r) \in Nat
  BY PlacesType
<1>2. /\ Places(r) = Offered(r) + Queued(r) + Popped(r) + Running(r)
      /\ Places(r)' = Offered(r)' + Queued(r)' + Popped(r)' + Running(r)'
  BY DEF Places
<1>3. /\ Places(r) <= 1
      /\ \A l \in Listeners : Places(r) + Heard(l, r) <= 1
      /\ reply[r] = "none" => Places(r) = 0 /\ \A l \in Listeners : Heard(l, r) = 0
      /\ reply'[r] = "none" => reply[r] = "none"
  BY DEF PlaceInv
<1>4. CASE Stay /\ Silent
  BY <1>1, <1>2, <1>3, <1>4 DEF Stay, Silent
<1>5. ASSUME NEW x \in Requests, reply[x] = "none", reply'[x] # "none",
             Moves(x, 1, 0, 0, 0), Silent
      PROVE  /\ Places(r)' <= 1
             /\ \A l \in Listeners : Places(r)' + Heard(l, r)' <= 1
             /\ reply'[r] = "none" =>
                  Places(r)' = 0 /\ \A l \in Listeners : Heard(l, r)' = 0
  BY <1>1, <1>2, <1>3, <1>5 DEF Moves, Silent
<1>6. ASSUME NEW x \in Requests, InService(x),
             \/ Moves(x, -1, 1, 0, 0) /\ Silent
             \/ Moves(x, 0, -1, 1, 0) /\ Silent
             \/ Moves(x, 0, 0, -1, 1) /\ Silent
             \/ Moves(x, 0, 1, 0, -1) /\ Silent
             \/ Moves(x, -1, 0, 0, 0) /\ Silent
             \/ Moves(x, 0, -1, 0, 0) /\ Tells(x)
             \/ Moves(x, 0, 0, 0, -1) /\ Tells(x)
      PROVE  /\ Places(r)' <= 1
             /\ \A l \in Listeners : Places(r)' + Heard(l, r)' <= 1
             /\ reply'[r] = "none" =>
                  Places(r)' = 0 /\ \A l \in Listeners : Heard(l, r)' = 0
  <2>1. CASE r = x
    <3>1. Places(r) # 0 /\ reply'[r] # "none"
      <4>1. Places(r) # 0
        BY <1>6, <2>1, InServiceCounted
      <4> QED
        BY <1>3, <4>1
    <3>2. Places(r)' \in {Places(r), Places(r) - 1}
      BY <1>1, <1>2, <1>6, <2>1 DEF Moves
    <3>3. ASSUME NEW l \in Listeners PROVE Places(r)' + Heard(l, r)' <= 1
      <4>1. \/ Places(r)' \in {Places(r), Places(r) - 1} /\ Heard(l, r)' = Heard(l, r)
            \/ /\ Places(r)' = Places(r) - 1
               /\ Heard(l, r)' \in {Heard(l, r), Heard(l, r) + 1}
        BY <1>1, <1>2, <1>6, <2>1 DEF Moves, Silent, Tells
      <4> QED
        BY <1>1, <1>2, <1>3, <4>1
    <3> QED
      BY <1>1, <1>2, <1>3, <3>1, <3>2, <3>3
  <2>2. CASE r # x
    <3>1. Places(r)' = Places(r)
      BY <1>1, <1>2, <1>6, <2>2 DEF Moves
    <3>2. \A l \in Listeners : Heard(l, r)' = Heard(l, r)
      BY <1>1, <1>6, <2>2 DEF Silent, Tells
    <3> QED
      BY <1>3, <3>1, <3>2
  <2> QED
    BY <2>1, <2>2
<1>7. CASE /\ Silent
           /\ \A q \in Requests :
                /\ Offered(q)' \in {0, Offered(q)} /\ Queued(q)' \in {0, Queued(q)}
                /\ Popped(q)' \in {0, Popped(q)}   /\ Running(q)' \in {0, Running(q)}
  <2>1. /\ Places(r)' <= Places(r) /\ Places(r)' >= 0 /\ Places(r) \in Nat
        /\ Places(r)' \in Nat
    BY <1>1, <1>2, <1>7
  <2>2. \A l \in Listeners : Heard(l, r)' = Heard(l, r)
    BY <1>7 DEF Silent
  <2> QED
    BY <1>1, <1>3, <2>1, <2>2
<1> QED
  BY <1>4, <1>5, <1>6, <1>7 DEF PlacesStep, InService

LEMMA SlotsAlways == Spec => []SlotsInv
<1>1. Init => SlotsInv
  BY FS_EmptySet, ConfigAssumption DEF Init, SlotsInv, ConcurrencyBound
<1>2. TypeOK /\ SlotsInv /\ [Next]_vars => SlotsInv'
  BY NextSlots, SlotsInductive
<1> QED
  BY <1>1, <1>2, TypeCorrect, PTL DEF Spec

LEMMA PlacesAlways == Spec => []PlaceInv
<1>1. Init => PlaceInv
  <2> SUFFICES ASSUME Init, NEW r \in Requests
               PROVE  Places(r) = 0 /\ \A l \in Listeners : Heard(l, r) = 0
    BY DEF PlaceInv
  <2>1. Offered(r) = 0 /\ Queued(r) = 0 + 0 /\ Popped(r) = 0
    BY CountEmpty DEF Init, Offered, Queued, Popped
  <2>2. Running(r) = 0
    <3>1. RunningOf(r) = {}
      BY DEF Init, RunningOf
    <3> QED
      BY <3>1, FS_EmptySet DEF Running
  <2>3. \A l \in Listeners : Heard(l, r) = 0
    BY CountEmpty DEF Init, Heard
  <2> QED
    BY <2>1, <2>2, <2>3 DEF Places
<1>2. TypeOK /\ SlotsInv /\ PlaceInv /\ [Next]_vars => PlaceInv'
  BY NextPlaces, RepliesStay, PlacesInductive DEF SlotsInv
<1> QED
  BY <1>1, <1>2, TypeCorrect, SlotsAlways, PTL DEF Spec

\* However the handles, the polls and the simulations interleave, a request is in
\* one place at most, and a listener hears one verdict about it at most, and only
\* when it is in none.
THEOREM VerdictsAreFinal == Spec => []OneVerdict
<1>1. TypeOK /\ SlotsInv /\ PlaceInv => OneVerdict
  BY CopiesCounted DEF SlotsInv, PlaceInv, OneVerdict
<1> QED
  BY <1>1, TypeCorrect, SlotsAlways, PlacesAlways, PTL
-----------------------------------------------------------------------------
(* The length of the queues.                                               *)

QueueOf(prio) == IF prio = "High" THEN high_priority_queue ELSE normal_priority_queue
Limit(prio)   == IF prio = "High" THEN max_high_prio_queue_len
                                  ELSE max_normal_prio_queue_len

OfPriority(prio)  == {req \in SimulationRequest : req.priority = prio}
Unsimulated       == {req \in SimulationRequest : req.retries = 0}
RunningWith(prio) == {s \in simulations : s.request.priority = prio}

Unstarted(prio) == Count(ready, OfPriority(prio))
Load(prio)      == Len(QueueOf(prio)) + Outside(prio)
FreshIn(prio)   == Cardinality(Fresh(QueueOf(prio)))

\* How a state bounds them: the popped and the running requests share the slots,
\* so those of one priority are at most max_concurrent_simulations.
LoadBounds ==
  \A prio \in Priority :
    /\ Outside(prio) = Unstarted(prio) + Cardinality(RunningWith(prio))
    /\ Unstarted(prio) \in Nat /\ Cardinality(RunningWith(prio)) \in Nat
    /\ Len(QueueOf(prio)) \in Nat
    /\ Outside(prio) <= max_concurrent_simulations
    /\ FreshIn(prio) = Count(QueueOf(prio), Unsimulated)
    /\ FreshIn(prio) \in Nat /\ FreshIn(prio) <= Len(QueueOf(prio))

LEMMA LoadsBounded ==
  ASSUME TypeOK, SlotsInv
  PROVE  LoadBounds
<1> SUFFICES ASSUME NEW prio \in Priority
             PROVE  /\ Outside(prio) = Unstarted(prio) + Cardinality(RunningWith(prio))
                    /\ Unstarted(prio) \in Nat /\ Cardinality(RunningWith(prio)) \in Nat
                    /\ Len(QueueOf(prio)) \in Nat
                    /\ Outside(prio) <= max_concurrent_simulations
                    /\ FreshIn(prio) = Count(QueueOf(prio), Unsimulated)
                    /\ FreshIn(prio) \in Nat /\ FreshIn(prio) <= Len(QueueOf(prio))
  BY DEF LoadBounds
<1>1. ready \in Seq(SimulationRequest) /\ QueueOf(prio) \in Seq(SimulationRequest)
  BY DEF TypeOK, QueueOf
<1>2. {i \in DOMAIN ready : ready[i].priority = prio} = Where(ready, OfPriority(prio))
  <2>1. \A i \in DOMAIN ready : ready[i] \in SimulationRequest
    BY <1>1, LenProperties, ElementOfSeq
  <2> QED
    BY <2>1 DEF Where, OfPriority
<1>3. Outside(prio) = Unstarted(prio) + Cardinality(RunningWith(prio))
  BY <1>2 DEF Outside, Unstarted, RunningWith, Count
<1>4. Unstarted(prio) \in Nat /\ Unstarted(prio) <= Len(ready) /\ Len(ready) \in Nat
  BY <1>1, CountType, LenProperties DEF Unstarted
<1>5. /\ Cardinality(RunningWith(prio)) \in Nat /\ Cardinality(simulations) \in Nat
      /\ Cardinality(RunningWith(prio)) <= Cardinality(simulations)
  BY FS_Subset, FS_CardinalityType DEF RunningWith, SlotsInv
<1>6. Outside(prio) <= max_concurrent_simulations
  BY <1>3, <1>4, <1>5, ConfigAssumption DEF SlotsInv, ConcurrencyBound
<1>7. Fresh(QueueOf(prio)) = Where(QueueOf(prio), Unsimulated)
  <2>1. \A i \in DOMAIN QueueOf(prio) : QueueOf(prio)[i] \in SimulationRequest
    BY <1>1, LenProperties, ElementOfSeq
  <2> QED
    BY <2>1 DEF Where, Fresh, Unsimulated
<1>8. FreshIn(prio) = Count(QueueOf(prio), Unsimulated)
  BY <1>7 DEF FreshIn, Count
<1>9. /\ Count(QueueOf(prio), Unsimulated) \in Nat /\ Len(QueueOf(prio)) \in Nat
      /\ Count(QueueOf(prio), Unsimulated) <= Len(QueueOf(prio))
  BY <1>1, CountType, LenProperties
<1> QED
  BY <1>3, <1>4, <1>5, <1>6, <1>8, <1>9

\* A step leaves the load of a priority as it was, or less, or it leaves the queue
\* within its length.
LoadStep ==
  \A prio \in Priority :
    \/ Load(prio)' <= Load(prio) /\ FreshIn(prio)' <= FreshIn(prio)
    \/ Len(QueueOf(prio))' <= Limit(prio)

LEMMA PushBackLoad ==
  ASSUME TypeOK, NEW req \in SimulationRequest, PushBack(req), NEW prio \in Priority
  PROVE  QueueOf(prio)' = IF req.priority = prio THEN Append(QueueOf(prio), req)
                                                 ELSE QueueOf(prio)
<1>1. req.priority \in Priority
  BY DEF SimulationRequest
<1> QED
  BY <1>1 DEF PushBack, QueueOf, is_high, Priority

LEMMA DequeueLoad ==
  ASSUME TypeOK, QueuesSorted, NEW pos \in DOMAIN Waiting, Dequeue(pos),
         NEW prio \in Priority
  PROVE  IF Waiting[pos].priority = prio
         THEN \E k \in 1 .. Len(QueueOf(prio)) : /\ QueueOf(prio)' = RemoveAt(QueueOf(prio), k)
                                                 /\ QueueOf(prio)[k] = Waiting[pos]
         ELSE QueueOf(prio)' = QueueOf(prio)
<1>1. /\ pos \in 1 .. Len(high_priority_queue) + Len(normal_priority_queue)
      /\ Waiting[pos] = IF pos <= Len(high_priority_queue)
                        THEN high_priority_queue[pos]
                        ELSE normal_priority_queue[pos - Len(high_priority_queue)]
      /\ Waiting[pos] \in SimulationRequest
  BY WaitingProperties, ElementOfSeq
<1>2. /\ Len(high_priority_queue) \in Nat /\ Len(normal_priority_queue) \in Nat
      /\ DOMAIN high_priority_queue = 1 .. Len(high_priority_queue)
      /\ DOMAIN normal_priority_queue = 1 .. Len(normal_priority_queue)
  BY LenProperties DEF TypeOK
<1>3. Waiting[pos].priority \in Priority
  BY <1>1 DEF SimulationRequest
<1>4. CASE pos <= Len(high_priority_queue)
  <2>1. pos \in 1 .. Len(high_priority_queue) /\ ~(pos > Len(high_priority_queue))
    BY <1>1, <1>2, <1>4
  <2>2. Waiting[pos].priority = "High"
    BY <1>1, <1>2, <1>4, <2>1 DEF QueuesSorted, is_high
  <2> QED
    BY <1>1, <1>4, <2>1, <2>2 DEF Dequeue, QueueOf, Priority
<1>5. CASE ~(pos <= Len(high_priority_queue))
  <2>1. /\ pos - Len(high_priority_queue) \in 1 .. Len(normal_priority_queue)
        /\ pos > Len(high_priority_queue)
    BY <1>1, <1>2, <1>5
  <2>2. Waiting[pos].priority = "Normal"
    BY <1>1, <1>2, <1>3, <1>5, <2>1 DEF QueuesSorted, is_high, Priority
  <2> QED
    BY <1>1, <1>5, <2>1, <2>2 DEF Dequeue, QueueOf, Priority
<1> QED
  BY <1>4, <1>5
---------------------------------------------------------------------------

\* Nothing of this priority is added where the load is counted.
LEMMA LoadNotGrown ==
  ASSUME LoadBounds, LoadBounds', NEW prio \in Priority,
         QueueOf(prio)' = QueueOf(prio), Unstarted(prio)' = Unstarted(prio),
         Cardinality(RunningWith(prio))' <= Cardinality(RunningWith(prio))
  PROVE  Load(prio)' <= Load(prio) /\ FreshIn(prio)' <= FreshIn(prio)
<1>1. FreshIn(prio)' = FreshIn(prio)
  BY DEF FreshIn, Fresh
<1>2. /\ Outside(prio) = Unstarted(prio) + Cardinality(RunningWith(prio))
      /\ Outside(prio)' = Unstarted(prio)' + Cardinality(RunningWith(prio))'
      /\ Unstarted(prio) \in Nat /\ Cardinality(RunningWith(prio)) \in Nat
      /\ Cardinality(RunningWith(prio))' \in Nat /\ Len(QueueOf(prio)) \in Nat
      /\ FreshIn(prio) \in Nat
  BY DEF LoadBounds
<1>3. Len(QueueOf(prio))' = Len(QueueOf(prio))
  OBVIOUS
<1> QED
  BY <1>1, <1>2, <1>3 DEF Load

LEMMA RunningWithRemoved ==
  ASSUME IsFiniteSet(simulations), NEW s \in simulations, NEW prio \in Priority
  PROVE  Cardinality({t \in simulations \ {s} : t.request.priority = prio}) =
           Cardinality(RunningWith(prio)) - (IF s.request.priority = prio THEN 1 ELSE 0)
<1>1. IsFiniteSet(RunningWith(prio)) /\ Cardinality(RunningWith(prio)) \in Nat
  BY FS_Subset, FS_CardinalityType DEF RunningWith
<1>2. {t \in simulations \ {s} : t.request.priority = prio} = RunningWith(prio) \ {s}
  BY DEF RunningWith
<1>3. s \in RunningWith(prio) <=> s.request.priority = prio
  BY DEF RunningWith
<1>4. Cardinality(RunningWith(prio) \ {s}) =
        IF s \in RunningWith(prio) THEN Cardinality(RunningWith(prio)) - 1
                                   ELSE Cardinality(RunningWith(prio))
  BY <1>1, FS_RemoveElement
<1> QED
  <2>1. CASE s.request.priority = prio
    BY <1>2, <1>3, <1>4, <2>1
  <2>2. CASE s.request.priority # prio
    <3>1. Cardinality(RunningWith(prio)) - 0 = Cardinality(RunningWith(prio))
      BY <1>1
    <3> QED
      BY <1>2, <1>3, <1>4, <2>2, <3>1
  <2> QED
    BY <2>1, <2>2

LEMMA RunningWithAdded ==
  ASSUME NEW Sims, IsFiniteSet(Sims), NEW s, NEW prio \in Priority
  PROVE  LET Of(S) == {t \in S : t.request.priority = prio}
         IN  /\ Cardinality(Of(Sims)) \in Nat
             /\ Cardinality(Of(Sims \cup {s})) <=
                  Cardinality(Of(Sims)) + (IF s.request.priority = prio THEN 1 ELSE 0)
<1> DEFINE Of(S) == {t \in S : t.request.priority = prio}
<1>1. IsFiniteSet(Of(Sims)) /\ Cardinality(Of(Sims)) \in Nat
  BY FS_Subset, FS_CardinalityType
<1>2. Of(Sims \cup {s}) = IF s.request.priority = prio THEN Of(Sims) \cup {s} ELSE Of(Sims)
  OBVIOUS
<1> HIDE DEF Of
<1>3. Cardinality(Of(Sims) \cup {s}) =
        IF s \in Of(Sims) THEN Cardinality(Of(Sims)) ELSE Cardinality(Of(Sims)) + 1
  BY <1>1, FS_AddElement
<1>4. /\ Cardinality(Of(Sims)) \in Nat
      /\ Cardinality(Of(Sims \cup {s})) <=
           Cardinality(Of(Sims)) + (IF s.request.priority = prio THEN 1 ELSE 0)
  BY <1>1, <1>2, <1>3
<1> QED
  BY <1>4 DEF Of

\* The outcome of a simulation: the request that is put back was simulated, and
\* takes the place in the load that its simulation gives up.
LEMMA OutcomeLoad ==
  ASSUME TypeOK, SlotsInv, LoadBounds, LoadBounds', NEW s \in simulations,
         NEW answer \in RelayAnswer, OnSimulationOutcome(s, answer)
  PROVE  LoadStep
<1> DEFINE sim == [s.request EXCEPT !.retries = @ + 1]
<1> SUFFICES ASSUME NEW prio \in Priority
             PROVE  Load(prio)' <= Load(prio) /\ FreshIn(prio)' <= FreshIn(prio)
  BY DEF LoadStep
<1>1. s.request \in SimulationRequest
  BY DEF TypeOK, Simulation
<1>2. /\ sim \in SimulationRequest /\ sim.priority = s.request.priority
      /\ sim \notin Unsimulated
  BY <1>1 DEF SimulationRequest, Unsimulated
<1>3. UNCHANGED ready /\ simulations' = simulations \ {s}
  BY DEF OnSimulationOutcome, PollSimulation
<1>4. UNCHANGED queueVars \/ PushBack(sim)
  BY DEF OnSimulationOutcome, OnSuccess, OnFatal, OnReschedule
<1>5. Cardinality(RunningWith(prio))' =
        Cardinality(RunningWith(prio)) - (IF s.request.priority = prio THEN 1 ELSE 0)
  <2>1. RunningWith(prio)' = {t \in simulations \ {s} : t.request.priority = prio}
    BY <1>3 DEF RunningWith
  <2> QED
    BY <2>1, RunningWithRemoved DEF SlotsInv
<1>6. Unstarted(prio)' = Unstarted(prio)
  BY <1>3 DEF Unstarted
<1> HIDE DEF sim
<1>7. Cardinality(RunningWith(prio)) \in Nat
  BY DEF LoadBounds
<1>8. CASE QueueOf(prio)' = QueueOf(prio)
  <2>1. Cardinality(RunningWith(prio))' <= Cardinality(RunningWith(prio))
    BY <1>5, <1>7
  <2> QED
    BY <1>6, <1>8, <2>1, LoadNotGrown
<1>9. CASE /\ PushBack(sim) /\ s.request.priority = prio
           /\ QueueOf(prio)' = Append(QueueOf(prio), sim)
  <2>1. QueueOf(prio) \in Seq(SimulationRequest)
    BY DEF TypeOK, QueueOf
  <2>2. Len(QueueOf(prio))' = Len(QueueOf(prio)) + 1
    BY <1>2, <1>9, <2>1, AppendProperties
  <2>3. Count(Append(QueueOf(prio), sim), Unsimulated) = Count(QueueOf(prio), Unsimulated) + 0
    BY <1>2, <2>1, CountAppend
  <2>4. /\ FreshIn(prio)' = Count(QueueOf(prio)', Unsimulated)
        /\ FreshIn(prio) = Count(QueueOf(prio), Unsimulated)
        /\ FreshIn(prio) \in Nat
    BY DEF LoadBounds, Unsimulated
  <2>5. FreshIn(prio)' <= FreshIn(prio)
    BY <1>9, <2>3, <2>4
  <2>6. /\ Outside(prio) = Unstarted(prio) + Cardinality(RunningWith(prio))
        /\ Outside(prio)' = Unstarted(prio)' + Cardinality(RunningWith(prio))'
        /\ Unstarted(prio) \in Nat /\ Len(QueueOf(prio)) \in Nat
    BY DEF LoadBounds
  <2>7. Load(prio)' = Load(prio)
    BY <1>5, <1>6, <1>7, <1>9, <2>2, <2>6 DEF Load
  <2> QED
    BY <1>7, <2>5, <2>6, <2>7 DEF Load
<1> QED
  BY <1>2, <1>4, <1>8, <1>9, PushBackLoad DEF queueVars, QueueOf

LEMMA PopLoad ==
  ASSUME TypeOK, QueuesSorted, LoadBounds, LoadBounds', PopNextReady
  PROVE  LoadStep
<1> SUFFICES ASSUME NEW prio \in Priority
             PROVE  Load(prio)' <= Load(prio) /\ FreshIn(prio)' <= FreshIn(prio)
  BY DEF LoadStep
<1>1. PICK pos \in DOMAIN Waiting :
        /\ Dequeue(pos)
        /\ UNCHANGED ready \/ ready' = Append(ready, Waiting[pos])
  BY DEF PopNextReady
<1> DEFINE item == Waiting[pos]
<1>2. item \in SimulationRequest
  BY WaitingProperties, ElementOfSeq
<1>3. Cardinality(RunningWith(prio))' = Cardinality(RunningWith(prio))
  BY DEF PopNextReady, RunningWith
<1>4. Unstarted(prio)' <= Unstarted(prio) + (IF item.priority = prio THEN 1 ELSE 0)
  <2>1. Unstarted(prio) \in Nat
    BY DEF LoadBounds
  <2>2. CASE UNCHANGED ready
    BY <2>1, <2>2 DEF Unstarted
  <2>3. CASE ready' = Append(ready, item)
    <3>1. ready \in Seq(SimulationRequest)
      BY DEF TypeOK
    <3>2. Count(Append(ready, item), OfPriority(prio)) =
            Count(ready, OfPriority(prio)) + (IF item \in OfPriority(prio) THEN 1 ELSE 0)
      BY <1>2, <3>1, CountAppend
    <3>3. item \in OfPriority(prio) <=> item.priority = prio
      BY <1>2 DEF OfPriority
    <3>4. Unstarted(prio)' = Count(Append(ready, item), OfPriority(prio))
      BY <2>3 DEF Unstarted, OfPriority
    <3> QED
      BY <2>1, <3>2, <3>3, <3>4 DEF Unstarted
  <2> QED
    BY <1>1, <2>2, <2>3
<1>5. /\ Outside(prio) = Unstarted(prio) + Cardinality(RunningWith(prio))
      /\ Outside(prio)' = Unstarted(prio)' + Cardinality(RunningWith(prio))'
      /\ Unstarted(prio) \in Nat /\ Len(QueueOf(prio)) \in Nat
      /\ Unstarted(prio)' \in Nat /\ Cardinality(RunningWith(prio)) \in Nat
      /\ FreshIn(prio)' = Count(QueueOf(prio)', Unsimulated)
      /\ FreshIn(prio) = Count(QueueOf(prio), Unsimulated)
      /\ FreshIn(prio) \in Nat
  BY DEF LoadBounds, Unsimulated
<1>6. CASE item.priority = prio
  <2>1. PICK k \in 1 .. Len(QueueOf(prio)) :
          QueueOf(prio)' = RemoveAt(QueueOf(prio), k) /\ QueueOf(prio)[k] = item
    BY <1>1, <1>6, DequeueLoad
  <2>2. QueueOf(prio) \in Seq(SimulationRequest)
    BY DEF TypeOK, QueueOf
  <2>3. Len(RemoveAt(QueueOf(prio), k)) = Len(QueueOf(prio)) - 1
    BY <2>2, RemoveAtProperties
  <2>4. Count(RemoveAt(QueueOf(prio), k), Unsimulated) <= Count(QueueOf(prio), Unsimulated)
    <3>1. Count(RemoveAt(QueueOf(prio), k), Unsimulated) = Count(QueueOf(prio), Unsimulated)
            - (IF QueueOf(prio)[k] \in Unsimulated THEN 1 ELSE 0)
      BY <2>2, CountRemoveAt
    <3> QED
      BY <1>5, <3>1
  <2>5. Len(QueueOf(prio))' = Len(QueueOf(prio)) - 1
    BY <2>1, <2>3
  <2> HIDE DEF item
  <2> QED
    BY <1>3, <1>4, <1>5, <1>6, <2>1, <2>4, <2>5 DEF Load
<1>7. CASE item.priority # prio
  <2>1. QueueOf(prio)' = QueueOf(prio)
    BY <1>1, <1>7, DequeueLoad
  <2>2. Len(QueueOf(prio))' = Len(QueueOf(prio))
    BY <2>1
  <2> HIDE DEF item
  <2> QED
    BY <1>3, <1>4, <1>5, <1>7, <2>1, <2>2 DEF Load
<1> QED
  BY <1>6, <1>7

LEMMA StartLoad ==
  ASSUME TypeOK, SlotsInv, LoadBounds, LoadBounds', StartSimulation
  PROVE  LoadStep
<1> DEFINE s == [request |-> Head(ready), poll |-> "unpolled"]
<1> SUFFICES ASSUME NEW prio \in Priority
             PROVE  Load(prio)' <= Load(prio) /\ FreshIn(prio)' <= FreshIn(prio)
  BY DEF LoadStep
<1>1. /\ ready # <<>> /\ ready \in Seq(SimulationRequest)
      /\ ready' = Tail(ready) /\ simulations' = simulations \cup {s}
      /\ UNCHANGED queueVars
  BY DEF StartSimulation, TypeOK
<1>2. Head(ready) \in SimulationRequest
  BY <1>1, HeadTailProperties
<1>3. Unstarted(prio)' =
        Unstarted(prio) - (IF Head(ready).priority = prio THEN 1 ELSE 0)
  <2>1. Count(Tail(ready), OfPriority(prio)) =
          Count(ready, OfPriority(prio)) - (IF Head(ready) \in OfPriority(prio) THEN 1 ELSE 0)
    BY <1>1, CountTail
  <2>2. Head(ready) \in OfPriority(prio) <=> Head(ready).priority = prio
    BY <1>2 DEF OfPriority
  <2>3. Unstarted(prio)' = Count(Tail(ready), OfPriority(prio))
    BY <1>1 DEF Unstarted, OfPriority
  <2>4. Unstarted(prio) \in Nat
    BY DEF LoadBounds
  <2> QED
    BY <2>1, <2>2, <2>3, <2>4 DEF Unstarted
<1>4. Cardinality(RunningWith(prio))' <=
        Cardinality(RunningWith(prio)) + (IF Head(ready).priority = prio THEN 1 ELSE 0)
  <2>1. RunningWith(prio)' = {t \in simulations \cup {s} : t.request.priority = prio}
    BY <1>1 DEF RunningWith
  <2>2. s.request.priority = Head(ready).priority
    OBVIOUS
  <2> HIDE DEF s
  <2>3. Cardinality({t \in simulations \cup {s} : t.request.priority = prio}) <=
          Cardinality({t \in simulations : t.request.priority = prio})
            + (IF s.request.priority = prio THEN 1 ELSE 0)
    BY RunningWithAdded DEF SlotsInv
  <2> QED
    BY <2>1, <2>2, <2>3 DEF RunningWith
<1>5. QueueOf(prio)' = QueueOf(prio)
  BY <1>1 DEF queueVars, QueueOf
<1>6. FreshIn(prio)' = FreshIn(prio) /\ Len(QueueOf(prio))' = Len(QueueOf(prio))
  BY <1>5 DEF FreshIn, Fresh
<1>7. /\ Outside(prio) = Unstarted(prio) + Cardinality(RunningWith(prio))
      /\ Outside(prio)' = Unstarted(prio)' + Cardinality(RunningWith(prio))'
      /\ Unstarted(prio) \in Nat /\ Len(QueueOf(prio)) \in Nat
      /\ Cardinality(RunningWith(prio))' \in Nat /\ Cardinality(RunningWith(prio)) \in Nat
      /\ FreshIn(prio) \in Nat
  BY DEF LoadBounds
<1> HIDE DEF s
<1> QED
  BY <1>3, <1>4, <1>6, <1>7 DEF Load
---------------------------------------------------------------------------

LEMMA FutureLoad ==
  ASSUME TypeOK, SlotsInv, LoadBounds, LoadBounds', NEW s \in simulations,
         SimulationPending(s) \/ SimulationWakes(s)
  PROVE  LoadStep
<1>1. PICK t : simulations' = (simulations \ {s}) \cup {t} /\ t.request = s.request
  <2>1. \A p : [s EXCEPT !.poll = p].request = s.request
    BY DEF TypeOK, Simulation
  <2>2. \E p : simulations' = (simulations \ {s}) \cup {[s EXCEPT !.poll = p]}
    BY DEF SimulationPending, SimulationWakes
  <2> QED
    BY <2>1, <2>2
<1>2. UNCHANGED <<queueVars, ready>>
  BY DEF SimulationPending, PollSimulation, SimulationWakes
<1> SUFFICES ASSUME NEW prio \in Priority
             PROVE  Load(prio)' <= Load(prio) /\ FreshIn(prio)' <= FreshIn(prio)
  BY DEF LoadStep
<1>3. Cardinality(RunningWith(prio))' <= Cardinality(RunningWith(prio))
  <2> DEFINE rest == simulations \ {s}
             n    == IF s.request.priority = prio THEN 1 ELSE 0
  <2>1. Cardinality({u \in rest : u.request.priority = prio}) =
          Cardinality(RunningWith(prio)) - n
    BY RunningWithRemoved DEF SlotsInv
  <2>2. IsFiniteSet(rest)
    BY FS_RemoveElement DEF SlotsInv
  <2>3. RunningWith(prio)' = {u \in rest \cup {t} : u.request.priority = prio}
    BY <1>1 DEF RunningWith
  <2>4. n = IF t.request.priority = prio THEN 1 ELSE 0
    BY <1>1
  <2> HIDE DEF rest, n
  <2>5. /\ Cardinality({u \in rest : u.request.priority = prio}) \in Nat
        /\ Cardinality({u \in rest \cup {t} : u.request.priority = prio}) <=
             Cardinality({u \in rest : u.request.priority = prio})
               + (IF t.request.priority = prio THEN 1 ELSE 0)
    BY <2>2, RunningWithAdded
  <2>6. n \in Nat /\ Cardinality(RunningWith(prio)) \in Nat
    BY DEF n, LoadBounds
  <2> QED
    BY <2>1, <2>3, <2>4, <2>5, <2>6
<1> QED
  BY <1>2, <1>3, LoadNotGrown DEF queueVars, QueueOf, Unstarted

\* A request is admitted to a queue that has room for it, and cleared queues are
\* empty: what is left to count is what is popped or running.
LEMMA AddLoad ==
  ASSUME TypeOK, LoadBounds, LoadBounds', OnAddSimulation
  PROVE  LoadStep
<1> DEFINE req == Head(from_handle).request
<1>1. UNCHANGED <<ready, simulations>>
  BY DEF OnAddSimulation, Receive, simVars
<1>2. req \in SimulationRequest
  BY ReceivedMessage DEF OnAddSimulation
<1> SUFFICES ASSUME NEW prio \in Priority
             PROVE  \/ Load(prio)' <= Load(prio) /\ FreshIn(prio)' <= FreshIn(prio)
                    \/ Len(QueueOf(prio))' <= Limit(prio)
  BY DEF LoadStep
<1>3. CASE QueueOf(prio)' = QueueOf(prio)
  <2>1. RunningWith(prio)' = RunningWith(prio) /\ Unstarted(prio)' = Unstarted(prio)
    BY <1>1 DEF RunningWith, Unstarted
  <2>2. Cardinality(RunningWith(prio)) \in Nat
    BY DEF LoadBounds
  <2>3. Cardinality(RunningWith(prio))' <= Cardinality(RunningWith(prio))
    BY <2>1, <2>2
  <2> QED
    BY <1>3, <2>1, <2>3, LoadNotGrown
<1>4. CASE QueueOf(prio)' # QueueOf(prio)
  <2>1. PushBack(req)
    BY <1>4 DEF OnAddSimulation, queueVars, QueueOf
  <2>2. req.priority = prio /\ QueueOf(prio)' = Append(QueueOf(prio), req)
    BY <1>2, <1>4, <2>1, PushBackLoad
  <2>3. Len(QueueOf(prio)) < Limit(prio)
    <3>1. UNCHANGED queueVars \/ IF is_high(req) THEN has_high_priority_capacity
                                                 ELSE has_normal_priority_capacity
      BY DEF OnAddSimulation
    <3>2. ~UNCHANGED queueVars
      BY <1>4 DEF queueVars, QueueOf
    <3> QED
      BY <2>2, <3>1, <3>2
      DEF is_high, has_high_priority_capacity, has_normal_priority_capacity, QueueOf, Limit
  <2>4. QueueOf(prio) \in Seq(SimulationRequest)
    BY DEF TypeOK, QueueOf
  <2>5. Len(Append(QueueOf(prio), req)) = Len(QueueOf(prio)) + 1
    BY <1>2, <2>4, AppendProperties
  <2>6. Len(QueueOf(prio))' = Len(QueueOf(prio)) + 1
    BY <2>2, <2>5
  <2>7. Len(QueueOf(prio)) \in Nat /\ Limit(prio) \in Nat
    BY ConfigAssumption DEF LoadBounds, Limit
  <2> QED
    BY <2>3, <2>6, <2>7
<1> QED
  BY <1>3, <1>4

LEMMA EmptiedLoad ==
  ASSUME OnClearQueue \/ DropService
  PROVE  LoadStep
<1>1. high_priority_queue' = <<>> /\ normal_priority_queue' = <<>>
  BY DEF OnClearQueue, DropService
<1>2. \A prio : Len(QueueOf(prio))' = 0 /\ Limit(prio) \in Nat
  BY <1>1, ConfigAssumption DEF QueueOf, Limit
<1> QED
  BY <1>2 DEF LoadStep

LEMMA NextLoad ==
  ASSUME TypeOK, SlotsInv, QueuesSorted, LoadBounds, LoadBounds', [Next]_vars
  PROVE  LoadStep
<1>1. ASSUME UNCHANGED <<queueVars, ready, simulations>> PROVE LoadStep
  <2>1. ASSUME NEW prio \in Priority
        PROVE  Load(prio)' <= Load(prio) /\ FreshIn(prio)' <= FreshIn(prio)
    <3>1. /\ QueueOf(prio)' = QueueOf(prio) /\ RunningWith(prio)' = RunningWith(prio)
          /\ Unstarted(prio)' = Unstarted(prio)
      BY <1>1 DEF queueVars, QueueOf, RunningWith, Unstarted
    <3>2. Cardinality(RunningWith(prio)) \in Nat
      BY DEF LoadBounds
    <3>3. Cardinality(RunningWith(prio))' <= Cardinality(RunningWith(prio))
      BY <3>1, <3>2
    <3> QED
      BY <3>1, <3>3, LoadNotGrown
  <2> QED
    BY <2>1 DEF LoadStep
<1>2. CASE HandleStep
  <2>1. UNCHANGED <<queueVars, ready, simulations>>
    BY <1>2 DEF HandleStep, send_bundle_simulation, add_bundle_simulation, Submit,
                SubmitToDroppedService, CancelAdd, update_block_number, clear_queue,
                events, DropEventStream, simVars
  <2> QED
    BY <1>1, <2>1
<1>3. CASE OnUpdateBlockNumber \/ OnAddEventListener
  BY <1>1, <1>3 DEF OnUpdateBlockNumber, OnAddEventListener, Receive, simVars
<1>4. CASE \/ BeginPoll \/ MessagesDrained \/ CoopYield \/ OutcomesDrained
           \/ PopBestRequestsDone \/ UNCHANGED vars
  <2>1. UNCHANGED <<queueVars, ready, simulations>>
    BY <1>4 DEF BeginPoll, MessagesDrained, CoopYield, OutcomesDrained,
                PopBestRequestsDone, vars, simVars
  <2> QED
    BY <1>1, <2>1
<1> QED
  BY <1>2, <1>3, <1>4, OutcomeLoad, PopLoad, StartLoad, FutureLoad, AddLoad, EmptiedLoad
  DEF Next, PollStep, OnMessage, Wakes

LoadInv == \A prio \in Priority :
  /\ Load(prio) <= Limit(prio) + max_concurrent_simulations
  /\ FreshIn(prio) <= Limit(prio)

LEMMA LoadInductive ==
  ASSUME LoadBounds, LoadBounds', LoadInv, LoadStep
  PROVE  LoadInv'
<1> SUFFICES ASSUME NEW prio \in Priority
             PROVE  /\ Load(prio)' <= Limit(prio) + max_concurrent_simulations
                    /\ FreshIn(prio)' <= Limit(prio)
  BY DEF LoadInv, Limit
<1>1. Limit(prio) \in Nat /\ max_concurrent_simulations \in Nat
  BY ConfigAssumption DEF Limit
<1>2. /\ Outside(prio) \in Nat /\ Len(QueueOf(prio)) \in Nat /\ FreshIn(prio) \in Nat
      /\ Outside(prio)' \in Nat /\ Len(QueueOf(prio))' \in Nat /\ FreshIn(prio)' \in Nat
      /\ Outside(prio)' <= max_concurrent_simulations
      /\ FreshIn(prio)' <= Len(QueueOf(prio))'
  BY DEF LoadBounds
<1>3. /\ Load(prio) = Len(QueueOf(prio)) + Outside(prio)
      /\ Load(prio)' = Len(QueueOf(prio))' + Outside(prio)'
  BY DEF Load
<1>4. /\ Load(prio) <= Limit(prio) + max_concurrent_simulations
      /\ FreshIn(prio) <= Limit(prio)
  BY DEF LoadInv
<1>5. \/ Load(prio)' <= Load(prio) /\ FreshIn(prio)' <= FreshIn(prio)
      \/ Len(QueueOf(prio))' <= Limit(prio)
  BY DEF LoadStep
<1> QED
  BY <1>1, <1>2, <1>3, <1>4, <1>5

\* Whatever is rescheduled, a queue exceeds its configured length by no more than
\* max_concurrent_simulations, and not by requests that were never simulated.
THEOREM QueuesBounded == Spec => []OverflowBound
<1>1. TypeOK /\ SlotsInv => LoadBounds
  BY LoadsBounded
<1>2. Init /\ LoadBounds => LoadInv
  <2> SUFFICES ASSUME Init, LoadBounds, NEW prio \in Priority
               PROVE  /\ Load(prio) <= Limit(prio) + max_concurrent_simulations
                      /\ FreshIn(prio) <= Limit(prio)
    BY DEF LoadInv
  <2>1. Len(QueueOf(prio)) = 0
    BY DEF Init, QueueOf
  <2>2. /\ Outside(prio) \in Nat /\ Outside(prio) <= max_concurrent_simulations
        /\ FreshIn(prio) \in Nat /\ FreshIn(prio) <= 0
    BY <2>1 DEF LoadBounds
  <2> QED
    BY <2>1, <2>2, ConfigAssumption DEF Load, Limit
<1>3. /\ TypeOK /\ SlotsInv /\ RoundInv /\ LoadBounds /\ LoadBounds' /\ LoadInv
      /\ [Next]_vars
      => LoadInv'
  BY NextLoad, LoadInductive DEF RoundInv
<1>4. LoadInv => OverflowBound
  <2> SUFFICES ASSUME LoadInv PROVE OverflowBound
    OBVIOUS
  <2>1. "High" \in Priority /\ "Normal" \in Priority
    BY DEF Priority
  <2> QED
    BY <2>1 DEF LoadInv, OverflowBound, Load, FreshIn, QueueOf, Limit
<1> QED
  BY <1>1, <1>2, <1>3, <1>4, TypeCorrect, SlotsAlways, RoundAlways, PTL DEF Spec
=============================================================================
