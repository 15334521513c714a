------------------------ MODULE BundleSimulatorDocs ------------------------
(***************************************************************************)
(* What the doc comments say of the bundle simulation queue and the code    *)
(* does not do.  TLC finds a counterexample to the property below.          *)
(***************************************************************************)
EXTENDS BundleSimulatorService

\* service.rs:511-514: current is the "new block number", old the "replaced" one,
\* so the two differ.
BlockNumberEventTellsNew ==
  \A l \in Listeners : \A i \in DOMAIN mailbox[l] :
    mailbox[l][i].type = "BlockNumberUpdated" =>
      mailbox[l][i].current # mailbox[l][i].old
=============================================================================
