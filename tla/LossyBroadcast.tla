--------------------------- MODULE LossyBroadcast ---------------------------
(***************************************************************************)
(* What the broadcast promises each subscriber: the messages published      *)
(* after it subscribed, in order.  It may miss messages, but only those     *)
(* followed by at least `capacity` others, and the stream ends only when    *)
(* there is no publisher and nothing else is left.                          *)
(***************************************************************************)
EXTENDS Naturals

CONSTANTS Subscribers, capacity

VARIABLES
  publishing,   \* a publisher exists
  published,    \* messages published; they are 1 .. published
  status,       \* "new", "on", "ended" or "left", for each subscriber
  last          \* the last message a subscriber got, or the last one before it

vars == <<publishing, published, status, last>>

Init ==
  /\ publishing = TRUE
  /\ published = 0
  /\ status = [s \in Subscribers |-> "new"]
  /\ last = [s \in Subscribers |-> 0]

Publish ==
  /\ publishing
  /\ published' = published + 1
  /\ UNCHANGED <<publishing, status, last>>

Close == publishing' = FALSE /\ UNCHANGED <<published, status, last>>

Subscribe(s) ==
  /\ publishing
  /\ status[s] = "new"
  /\ status' = [status EXCEPT ![s] = "on"]
  /\ last' = [last EXCEPT ![s] = published]
  /\ UNCHANGED <<publishing, published>>

\* All messages between the last one the subscriber got and m are too old.
MissedUpTo(s, m) == \A i \in last[s] + 1 .. m - 1 : i + capacity <= published

Deliver(s, m) ==
  /\ status[s] = "on"
  /\ last[s] < m
  /\ MissedUpTo(s, m)
  /\ last' = [last EXCEPT ![s] = m]
  /\ UNCHANGED <<publishing, published, status>>

End(s) ==
  /\ status[s] = "on"
  /\ ~publishing
  /\ MissedUpTo(s, published + 1)
  /\ status' = [status EXCEPT ![s] = "ended"]
  /\ UNCHANGED <<publishing, published, last>>

Leave(s) ==
  /\ status[s] = "on"
  /\ status' = [status EXCEPT ![s] = "left"]
  /\ UNCHANGED <<publishing, published, last>>

Next ==
  \/ Publish \/ Close
  \/ \E s \in Subscribers :
       \/ Subscribe(s) \/ End(s) \/ Leave(s)
       \/ \E m \in 1 .. published : Deliver(s, m)

Spec == Init /\ [][Next]_vars
=============================================================================
