--------------------------- MODULE StreamContract ---------------------------
(***************************************************************************)
(* What the owner of an EventStream may rely on.  An open stream yields     *)
(* items; it ends at once or after a last error; None is told when it ends, *)
(* perhaps again to an owner that polls on, and nothing is yielded after    *)
(* it.  Only the owner's retry() reopens it.                                *)
(***************************************************************************)
EXTENDS Naturals

VARIABLES
  phase,    \* "open", "closing" after the last error, or "ended"
  told,     \* the owner has been told None
  count,    \* items yielded
  retrying  \* observed only: the owner awaits retry(), and does not poll

vars == <<phase, told, count>>

Init == phase = "open" /\ told = FALSE /\ count = 0

Yield == phase = "open" /\ count' = count + 1 /\ UNCHANGED <<phase, told>>

YieldLastError ==
  /\ phase = "open"
  /\ phase' = "closing"
  /\ count' = count + 1
  /\ UNCHANGED told

End ==
  /\ phase \in {"open", "closing"}
  /\ phase' = "ended"
  /\ told' = TRUE
  /\ UNCHANGED count

Reopen == phase' = "open" /\ told' = FALSE /\ UNCHANGED count

Next == Yield \/ YieldLastError \/ End \/ Reopen

\* A stream that reported its last error ends, unless it is reopened or its owner
\* does not look.
Spec == Init /\ [][Next]_vars /\ WF_vars(phase = "closing" /\ ~retrying /\ End)

Safety == Init /\ [][Next]_vars
=============================================================================
