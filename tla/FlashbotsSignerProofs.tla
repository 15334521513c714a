----------------------- MODULE FlashbotsSignerProofs -----------------------
(***************************************************************************)
(* Theorems about the signing middleware, for any number of slots and calls.*)
(***************************************************************************)
EXTENDS FlashbotsSigner, FiniteSetTheorems, TLAPS

Signatures == {"nothing", "none", "own", "the caller's"}

\* What a call may be, whatever the slots are: in each stage it has a request of
\* the right kind, and a future that may still call the inner service owns a
\* reservation.
CallInv(c) ==
  LET r == request[c] IN
  /\ stage[c] = "none" => reached[c] = "nothing" /\ ~reserved[c]
  /\ stage[c] # "none" => r \in Request
  /\ stage[c] \in {"passing", "collecting", "signing", "called"} => reserved[c] /\ r.method = "POST"
  /\ stage[c] \in {"invalid", "done"} => ~reserved[c]
  /\ stage[c] \in {"invalid", "passing", "collecting", "signing"} => reached[c] = "nothing"
  /\ stage[c] = "passing" => ~is_json(r) \/ r.has_sig
  /\ stage[c] \in {"collecting", "signing"} => is_json(r) /\ ~r.has_sig
  /\ reached[c] # "nothing" =>
       /\ r.method = "POST"
       /\ reached[c] = IF r.has_sig THEN "the caller's" ELSE IF is_json(r) THEN "own" ELSE "none"

\* The types of all but the slots.
CallTypes ==
  /\ ready \in BOOLEAN
  /\ request \in [Calls -> Request \cup {NoRequest}]
  /\ stage \in [Calls -> {"none", "invalid", "passing", "collecting", "signing", "called", "done"}]
  /\ reserved \in [Calls -> BOOLEAN]
  /\ reached \in [Calls -> Signatures]

Same(d) ==
  /\ request'[d] = request[d] /\ stage'[d] = stage[d]
  /\ reserved'[d] = reserved[d] /\ reached'[d] = reached[d]

LEMMA TypesStep == CallTypes /\ [Next]_vars => CallTypes'
<1> SUFFICES ASSUME CallTypes, [Next]_vars PROVE CallTypes'
  OBVIOUS
<1> USE DEF CallTypes, Signatures
<1>1. CASE poll_ready
  BY <1>1 DEF poll_ready
<1>2. ASSUME NEW c \in Calls, NEW r \in Request, call(c, r) PROVE CallTypes'
  BY <1>2 DEF call, Enter
<1>3. ASSUME NEW c \in Calls, Step(c) \/ DropCall(c) PROVE CallTypes'
  BY <1>3 DEF Step, DropCall, RejectMethod, PassThrough, CollectBody, Sign, Fail, InnerAnswers,
     CallInner, Advance, Finish
<1>4. CASE UNCHANGED vars
  BY <1>4 DEF vars
<1> QED
  BY <1>1, <1>2, <1>3, <1>4 DEF Next

LEMMA OtherCallsSame ==
  ASSUME CallTypes, NEW c \in Calls, NEW d \in Calls \ {c},
         Step(c) \/ DropCall(c) \/ \E r \in Request : call(c, r)
  PROVE  Same(d)
<1> USE DEF CallTypes, Same
<1>1. CASE Step(c) \/ DropCall(c)
  BY <1>1 DEF Step, DropCall, RejectMethod, PassThrough, CollectBody, Sign, Fail, InnerAnswers,
     CallInner, Advance, Finish
<1>2. CASE \E r \in Request : call(c, r)
  BY <1>2 DEF call, Enter
<1> QED
  BY <1>1, <1>2

LEMMA CallInvStep ==
  ASSUME CallTypes, NEW d \in Calls, CallInv(d), [Next]_vars PROVE CallInv(d)'
<1>1. CASE Same(d)
  BY <1>1 DEF Same, CallInv, is_json
<1>2. CASE poll_ready \/ UNCHANGED vars
  <2>1. Same(d)
    BY <1>2 DEF poll_ready, vars, Same
  <2> QED
    BY <1>1, <2>1
<1>3. ASSUME NEW r \in Request, call(d, r) PROVE CallInv(d)'
  <2>1. /\ request'[d] = r /\ r \in Request
        /\ reached'[d] = "nothing"
    BY <1>3 DEF call, Enter, CallTypes, CallInv
  <2>2. CASE r.method # "POST"
    <3>1. stage'[d] = "invalid"
      BY <1>3, <2>2 DEF call, Enter, CallTypes
    <3>2. ~reserved'[d]
      <4>1. reserved' = [reserved EXCEPT ![d] = FALSE]
        BY <1>3, <2>2 DEF call
      <4> QED
        BY <4>1 DEF CallTypes
    <3> QED
      BY <2>1, <3>1, <3>2 DEF CallInv
  <2>3. CASE r.method = "POST" /\ (~is_json(r) \/ r.has_sig)
    <3>1. stage'[d] = "passing" /\ reserved'[d]
      BY <1>3, <2>3 DEF call, Enter, CallTypes
    <3> QED
      BY <2>1, <2>3, <3>1 DEF CallInv, is_json
  <2>4. CASE r.method = "POST" /\ is_json(r) /\ ~r.has_sig
    <3>1. stage'[d] = "collecting" /\ reserved'[d]
      BY <1>3, <2>4 DEF call, Enter, CallTypes
    <3> QED
      BY <2>1, <2>4, <3>1 DEF CallInv, is_json
  <2> QED
    BY <2>2, <2>3, <2>4
<1>4. CASE Step(d) \/ DropCall(d)
  <2> USE DEF CallTypes, CallInv, is_json
  <2>1. CASE Finish(d) /\ stage[d] # "none"
    BY <2>1 DEF Finish
  <2>2. CASE PassThrough(d)
    BY <2>2 DEF PassThrough, CallInner, Advance
  <2>3. CASE CollectBody(d)
    BY <2>3 DEF CollectBody, Advance
  <2>4. CASE Sign(d)
    BY <2>4 DEF Sign, CallInner, Advance
  <2> QED
    BY <1>4, <2>1, <2>2, <2>3, <2>4 DEF Step, DropCall, RejectMethod, Fail, InnerAnswers
<1>5. ASSUME NEW c \in Calls \ {d}, Step(c) \/ DropCall(c) \/ \E r \in Request : call(c, r)
      PROVE  CallInv(d)'
  BY <1>1, <1>5, OtherCallsSame
<1> QED
  BY <1>2, <1>3, <1>4, <1>5 DEF Next

CallsInv == CallTypes /\ \A c \in Calls : CallInv(c)

LEMMA CallsInvAlways == Spec => []CallsInv
<1>1. Init => CallsInv
  BY DEF Init, CallsInv, CallTypes, CallInv, Signatures
<1>2. CallsInv /\ [Next]_vars => CallsInv'
  BY TypesStep, CallInvStep DEF CallsInv
<1> QED
  BY <1>1, <1>2, PTL DEF Spec

\* The inner service is never called through an instance without a reservation.
THEOREM NeverCalledUnready == Spec => []CalledWhenReady
<1>1. CallsInv => CalledWhenReady
  BY DEF CallsInv, CallInv, CalledWhenReady
<1> QED
  BY <1>1, CallsInvAlways, PTL

\* Every request that reaches the inner service carries the signature it should.
THEOREM AlwaysProperlySigned == Spec => []ProperlySigned
<1>1. CallsInv => ProperlySigned
  BY DEF CallsInv, CallInv, ProperlySigned
<1> QED
  BY <1>1, CallsInvAlways, PTL
-----------------------------------------------------------------------------
(* The slots.                                                              *)

SlotsInv == free \in Nat /\ IsFiniteSet(Holders) /\ SlotsAccounted

\* The only things a step does to the slots.
SlotsStep ==
  \/ UNCHANGED <<free, ready, Holders>>
  \/ ~ready /\ free > 0 /\ ready' = TRUE /\ free' = free - 1 /\ Holders' = Holders
  \/ ready /\ ready' = FALSE /\ free' = free + 1 /\ Holders' = Holders
  \/ ready /\ ready' = FALSE /\ free' = free
     /\ \E c \in Calls \ Holders : Holders' = Holders \cup {c}
  \/ ready' = ready /\ free' = free + 1
     /\ \E c \in Holders : Holders' = Holders \ {c}

LEMMA NextSlots == CallsInv /\ [Next]_vars => SlotsStep
<1> SUFFICES ASSUME CallsInv, [Next]_vars PROVE SlotsStep
  OBVIOUS
<1> USE DEF CallsInv, CallTypes
<1>1. CASE poll_ready
  BY <1>1 DEF poll_ready, SlotsStep, Holders
<1>2. ASSUME NEW c \in Calls, NEW r \in Request, call(c, r) PROVE SlotsStep
  <2>1. c \notin Holders
    BY <1>2 DEF call, CallInv, Holders
  <2>2. CASE r.method = "POST"
    <3>1. Holders' = Holders \cup {c}
      BY <1>2, <2>2 DEF call, Holders
    <3>2. ready /\ ready' = FALSE /\ free' = free
      BY <1>2, <2>2 DEF call
    <3> QED
      BY <2>1, <3>1, <3>2 DEF SlotsStep
  <2>3. CASE r.method # "POST"
    <3>1. Holders' = Holders
      BY <1>2, <2>1, <2>3 DEF call, Holders
    <3>2. ready /\ ready' = FALSE /\ free' = free + 1
      BY <1>2, <2>3 DEF call
    <3> QED
      BY <3>1, <3>2 DEF SlotsStep
  <2> QED
    BY <2>2, <2>3
<1>3. ASSUME NEW c \in Calls, Finish(c) PROVE SlotsStep
  <2>1. CASE reserved[c]
    <3>1. c \in Holders /\ Holders' = Holders \ {c} /\ ready' = ready /\ free' = free + 1
      BY <1>3, <2>1 DEF Finish, Holders
    <3> QED
      BY <3>1 DEF SlotsStep
  <2>2. CASE ~reserved[c]
    <3>1. Holders' = Holders /\ ready' = ready /\ free' = free
      BY <1>3, <2>2 DEF Finish, Holders
    <3> QED
      BY <3>1 DEF SlotsStep
  <2> QED
    BY <2>1, <2>2
<1>4. CASE UNCHANGED <<free, ready, reserved>>
  BY <1>4 DEF SlotsStep, Holders
<1> QED
  BY <1>1, <1>2, <1>3, <1>4 DEF Next, Step, DropCall, RejectMethod, PassThrough, CollectBody,
     Sign, Fail, InnerAnswers, CallInner, vars

LEMMA SlotsInvStep == SlotsInv /\ SlotsStep => SlotsInv'
<1> SUFFICES ASSUME SlotsInv, SlotsStep PROVE SlotsInv'
  OBVIOUS
<1> USE SignerAssumption DEF SlotsInv, SlotsAccounted
<1>1. Cardinality(Holders) \in Nat
  BY FS_CardinalityType
<1>2. CASE UNCHANGED <<free, ready, Holders>>
  BY <1>2
<1>3. CASE ~ready /\ free > 0 /\ ready' = TRUE /\ free' = free - 1 /\ Holders' = Holders
  BY <1>1, <1>3
<1>4. CASE ready /\ ready' = FALSE /\ free' = free + 1 /\ Holders' = Holders
  BY <1>1, <1>4
<1>5. ASSUME ready, ready' = FALSE, free' = free,
             NEW c \in Calls \ Holders, Holders' = Holders \cup {c}
      PROVE  SlotsInv'
  <2>1. IsFiniteSet(Holders \cup {c}) /\ Cardinality(Holders \cup {c}) = Cardinality(Holders) + 1
    BY <1>5, FS_AddElement
  <2> QED
    BY <1>1, <1>5, <2>1
<1>6. ASSUME ready' = ready, free' = free + 1, NEW c \in Holders, Holders' = Holders \ {c}
      PROVE  SlotsInv'
  <2>1. IsFiniteSet(Holders \ {c}) /\ Cardinality(Holders \ {c}) = Cardinality(Holders) - 1
    BY <1>6, FS_RemoveElement
  <2> QED
    BY <1>1, <1>6, <2>1
<1> QED
  BY <1>2, <1>3, <1>4, <1>5, <1>6 DEF SlotsStep

LEMMA SlotsInvAlways == Spec => []SlotsInv
<1>1. Init => SlotsInv
  <2> SUFFICES ASSUME Init PROVE SlotsInv
    OBVIOUS
  <2>1. Holders = {} /\ free = Slots /\ ready = FALSE
    BY DEF Init, Holders
  <2>2. IsFiniteSet(Holders) /\ Cardinality(Holders) = 0
    BY <2>1, FS_EmptySet
  <2> QED
    BY <2>1, <2>2, SignerAssumption DEF SlotsInv, SlotsAccounted
<1> QED
  BY <1>1, CallsInvAlways, NextSlots, SlotsInvStep, PTL DEF Spec

\* No slot of the inner service leaks or is used twice.
THEOREM SlotsNeverLeak == Spec => []SlotsAccounted
<1>1. SlotsInv => SlotsAccounted
  BY DEF SlotsInv
<1> QED
  BY <1>1, SlotsInvAlways, PTL

\* Type correctness of the middleware.  That free never exceeds Slots needs the
\* account of the slots: the step that frees one does not look at their number.
THEOREM TypeCorrect == Spec => []TypeOK
<1>1. CallsInv /\ SlotsInv => TypeOK
  <2> SUFFICES ASSUME CallsInv, SlotsInv PROVE TypeOK
    OBVIOUS
  <2>1. free \in 0 .. Slots
    <3>1. Cardinality(Holders) \in Nat
      BY FS_CardinalityType DEF SlotsInv
    <3> QED
      BY <3>1, SignerAssumption DEF SlotsInv, SlotsAccounted
  <2>2. \A c \in Calls : stage[c] # "none" => request[c] # NoRequest
    BY SignerAssumption DEF CallsInv, CallInv
  <2> QED
    BY <2>1, <2>2 DEF CallsInv, CallTypes, Signatures, TypeOK
<1> QED
  BY <1>1, CallsInvAlways, SlotsInvAlways, PTL
=============================================================================
