---------------------- MODULE MCBundleSimulatorService ----------------------
(***************************************************************************)
(* Instances of BundleSimulatorService for TLC.  The service starts at      *)
(* block 1, so it builds block 2, and block 2 or 3 may be reported.         *)
(***************************************************************************)
EXTENDS BundleSimulatorRefinement, BundleSimulatorArrivals, BundleSimulatorDocs

\* Simulated at once and never outdated.
Anytime == [block |-> 0, max_block |-> NoMaxBlock]
\* For block 2 only: simulated at once, outdated as soon as block 2 is reported.
Now == [block |-> 1, max_block |-> 2]
\* Waits for block 2 to be reported, outdated after block 3.
Later == [block |-> 2, max_block |-> 3]

AnytimeOnly    == {Anytime}
NowOnly        == {Now}
NowOrLater     == {Now, Later}
AnytimeOrLater == {Anytime, Later}

\* No caller waits for the answer, which makes no difference to the queues and leaves
\* room for a fourth bundle.
SentOnly == \A r \in Requests : reply'[r] # "Awaiting"

SentSpec == Init /\ [][Next /\ SentOnly]_vars

\* The load can be simulated at once; the bundle it competes with may have to wait.
LoadAnytime ==
  \A i \in DOMAIN from_handle' : LET msg == from_handle'[i] IN
    msg.type = "AddSimulation" /\ msg.request.id \in Load => msg.request.inclusion = Anytime

FairLoad == Init /\ [][NextArrivals /\ LoadAnytime]_vars /\ Fairness

RequestSymmetry == Permutations(Requests)
=============================================================================
