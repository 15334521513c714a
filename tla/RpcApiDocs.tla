----------------------------- MODULE RpcApiDocs -----------------------------
(***************************************************************************)
(* What the doc comments of the RPC crate say and the code does not do.     *)
(***************************************************************************)
EXTENDS RpcApi

\* types.rs:595: EthCallBundle is the "Bundle of transactions for `eth_callBundle`",
\* so that is what an eth_callBundle request carries.
CallBundleTakesABundle ==
  stage = "requested" /\ method.name = "eth_callBundle" /\ message.altered = NotAltered =>
    Decode(Struct("EthCallBundle"), message.json[1]) # {}
=============================================================================
