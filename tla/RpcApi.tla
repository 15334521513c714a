------------------------------- MODULE RpcApi -------------------------------
(***************************************************************************)
(* The JSON-RPC interfaces of mev-share-rpc-api (mev.rs, eth.rs,            *)
(* flashbots.rs): a call of a client trait, its way to a server that        *)
(* implements the server trait, and the answer's way back.                  *)
(*                                                                         *)
(* Either side may be another implementation of the interface: a searcher   *)
(* that does not use this crate, or the relay.  What it sends is what this  *)
(* crate would send, possibly written in another way (Rewrite).             *)
(***************************************************************************)
EXTENDS RpcTypes

CONSTANT Passed(_)   \* the values that are passed for a sequence of types

Method(name, args, params, result) ==
  [name |-> name, args |-> args, params |-> params, result |-> result]

\* The generated client passes the arguments of the trait function on.
Plain(name, params, result) == Method(name, params, params, result)

MevApi ==
  {Plain("mev_sendBundle", <<Struct("SendBundleRequest")>>, Struct("SendBundleResponse")),
   Plain("mev_simBundle", <<Struct("SendBundleRequest"), Struct("SimBundleOverrides")>>,
         Struct("SimBundleResponse"))}

EthBundleApi ==
  {Plain("eth_sendBundle", <<Struct("EthSendBundle")>>, Struct("EthBundleHash")),
   Plain("eth_callBundle", <<Struct("EthCallBundleResponse")>>,
         Struct("EthCallBundleTransactionResult")),
   Plain("eth_cancelBundle", <<Struct("CancelBundleRequest")>>, UnitT),
   Plain("eth_sendPrivateTransaction", <<Struct("PrivateTransactionRequest")>>, HexT),
   Plain("eth_sendPrivateRawTransaction", <<HexT>>, HexT),
   Plain("eth_cancelPrivateTransaction", <<Struct("CancelPrivateTransactionRequest")>>, BoolT)}

FlashbotsApi ==
  {Method("flashbots_getUserStatsV2", <<HexT>>, <<Struct("GetUserStatsRequest")>>,
          Struct("UserStats")),
   Method("flashbots_getBundleStatsV2", <<HexT, HexT>>, <<Struct("GetBundleStatsRequest")>>,
          Custom("BundleStats"))}

Methods == MevApi \cup EthBundleApi \cup FlashbotsApi

\* As many values as types, each of its type.
AreValues(types, values) ==
  /\ values = [i \in DOMAIN types |-> values[i]]
  /\ \A i \in DOMAIN types : IsValue(types[i], values[i])

\* The traits are typed.
ASSUME PassedAssumption ==
  \A m \in Methods :
    /\ \A args \in Passed(m.args) : AreValues(m.args, args)
    /\ \A result \in Passed(<<m.result>>) : AreValues(<<m.result>>, result)

\* FlashbotsApiClient puts its arguments into a request struct.
ParamsOf(method, args) ==
  CASE method.name = "flashbots_getUserStatsV2" -> <<[blockNumber |-> args[1]]>>
    [] method.name = "flashbots_getBundleStatsV2" ->
         <<[bundleHash |-> args[1], blockNumber |-> args[2]]>>
    [] OTHER -> args

VARIABLES
  method,    \* of the call
  stage,     \* how far the call is
  message,   \* what is on the wire: the params or the result
  taken,     \* the params the server has decoded
  outcome    \* what the caller gets

vars == <<method, stage, message, taken, outcome>>

NotAltered == [kind |-> "none", field |-> "none"]

\* A result is a sequence of one.  meant is what the sender's values were, altered
\* how another implementation has written them.
Message(types, values, json) ==
  [types |-> types, meant |-> values, json |-> json, altered |-> NotAltered]

NoMessage == Message(<<>>, <<>>, <<>>)

NoOutcome == [kind |-> "none", value |-> {}]

Init ==
  /\ method \in Methods
  /\ stage = "idle"
  /\ message = NoMessage
  /\ taken = <<>>
  /\ outcome = NoOutcome

Written(types, values) == Combine([i \in DOMAIN types |-> Encode(types[i], values[i])])

Read(types, json) == Combine([i \in DOMAIN types |-> Decode(types[i], json[i])])

Done(kind, value) == stage' = "done" /\ outcome' = [kind |-> kind, value |-> value]

\* The generated client panics on a parameter that does not serialize.
Call ==
  /\ stage = "idle"
  /\ \E args \in Passed(method.args) :
       LET params == ParamsOf(method, args)
           json   == Written(method.params, params) IN
       \/ /\ json = {}
          /\ message' = Message(method.params, params, <<>>)
          /\ Done("call_panic", {})
       \/ \E sent \in json :
            /\ message' = Message(method.params, params, sent)
            /\ stage' = "requested"
            /\ UNCHANGED outcome
  /\ UNCHANGED <<method, taken>>

\* Other ways to write an object: leave a field out, make it null, write a decimal
\* string as a hex string or as a number, add an entry.
Alterations(map) ==
       [kind : {"omit", "null"}, field : DOMAIN map]
  \cup [kind : {"hex", "number"}, field : {f \in DOMAIN map : IsStr("dec", map[f])}]
  \cup [kind : {"extra"}, field : {"extra"}]

Rewritten(map, a) ==
  CASE a.kind = "omit"   -> [f \in DOMAIN map \ {a.field} |-> map[f]]
    [] a.kind = "null"   -> [map EXCEPT ![a.field] = Null]
    [] a.kind = "hex"    -> [map EXCEPT ![a.field] = Str(Hex(@.string.dec))]
    [] a.kind = "number" -> [map EXCEPT ![a.field] = Num(@.string.dec)]
    [] a.kind = "extra"  -> [f \in DOMAIN map \cup {"extra"} |->
                               IF f = "extra" THEN Null ELSE map[f]]

\* The sender is another implementation.
Rewrite ==
  /\ stage \in {"requested", "answered"}
  /\ message.altered = NotAltered
  /\ Is("object", message.json[1])
  /\ LET map == message.json[1].object IN
     \E a \in Alterations(map) :
       message' = [message EXCEPT !.json[1] = Obj(Rewritten(map, a)), !.altered = a]
  /\ UNCHANGED <<method, stage, taken, outcome>>

\* The server decodes the params, or answers that they are invalid.
ServerReceives ==
  /\ stage = "requested"
  /\ LET params == Read(message.types, message.json) IN
     \/ /\ params = {}
        /\ stage' = "rejected"
        /\ UNCHANGED taken
     \/ /\ stage' = "taken"
        /\ taken' \in params
  /\ UNCHANGED <<method, message, outcome>>

\* The implementation of the server trait works on the request.
Serve ==
  /\ stage = "taken"
  /\ stage' = "serving"
  /\ message' = NoMessage
  /\ taken' = <<>>
  /\ UNCHANGED <<method, outcome>>

\* A result that does not serialize becomes an error.
Answer ==
  /\ stage = "serving"
  /\ \E result \in Passed(<<method.result>>) :
       LET json == Written(<<method.result>>, result) IN
       \/ /\ json = {}
          /\ Done("error", {})
          /\ UNCHANGED message
       \/ \E sent \in json :
            /\ message' = Message(<<method.result>>, result, sent)
            /\ stage' = "answered"
            /\ UNCHANGED outcome
  /\ UNCHANGED <<method, taken>>

\* The implementation returns an error, or the request was rejected.
AnswerError ==
  /\ stage \in {"serving", "rejected"}
  /\ message' = NoMessage
  /\ Done("error", {})
  /\ UNCHANGED <<method, taken>>

Panics(type, json) ==
  type = Custom("BundleStats") /\ Is("object", json) /\ StatsPanic(json.object)

ClientReceives ==
  /\ stage = "answered"
  /\ IF Panics(method.result, message.json[1])
     THEN Done("answer_panic", {})
     ELSE LET result == Decode(method.result, message.json[1])
          IN  Done(IF result = {} THEN "unreadable" ELSE "value", result)
  /\ UNCHANGED <<method, message, taken>>

\* The next call.
Finish ==
  /\ stage = "done"
  /\ method' \in Methods
  /\ stage' = "idle"
  /\ message' = NoMessage
  /\ outcome' = NoOutcome
  /\ UNCHANGED taken

Next ==
  \/ Call \/ Rewrite \/ ServerReceives \/ Serve \/ Answer \/ AnswerError
  \/ ClientReceives \/ Finish

Spec == Init /\ [][Next]_vars
-----------------------------------------------------------------------------
(* Properties.                                                             *)

\* What a struct that was meant to be v should be read as: an entry that is
\* missing is an empty field if the type has one, and otherwise an error.
Reading(fields, v, a) ==
  LET emptied == [v EXCEPT ![a.field] = DefaultOf(fields[a.field])]
      mode    == fields[a.field].mode IN
  CASE a.kind \in {"none", "extra", "hex", "number"} -> {v}
    [] a.kind = "omit" /\ mode # "required"          -> {emptied}
    [] a.kind = "null" /\ mode = "optional"          -> {emptied}
    [] OTHER                                         -> {}

\* A relay that has not received the bundle tells nothing about it.
ReadingOfStats(v, a) ==
  IF v.variant = "Unknown" \/ (a.kind = "omit" /\ a.field = "receivedAt")
  THEN {[variant |-> "Unknown", fields |-> [isSimulated |-> FALSE]]}
  ELSE {[v EXCEPT !.fields = w] : w \in Reading(BundleStats[v.variant], v.fields, a)}

\* The statistics say of themselves which they are.  The types allow Seen with
\* is_simulated and Simulated without, which are read as something else.
StatsAgree(v) == v.variant # "Unknown" => (v.fields.isSimulated <=> v.variant = "Simulated")

\* The server of this crate gets from a call exactly what the caller passed, from
\* another searcher's request what its entries say, whatever is left to a default,
\* and rejects a request only if something is missing that has none.
RequestUnderstood ==
  stage \in {"taken", "rejected"} =>
    LET type == message.types[1]
        v    == message.meant[1]
        read == IF stage = "taken" THEN {taken[1]} ELSE {} IN
    /\ stage = "taken" => Tail(taken) = Tail(message.meant)
    /\ read = IF Is("struct", type)
              THEN Reading(Fields[type.struct], v, message.altered) ELSE {v}

\* The caller gets what the server or the relay answered, with the same leniency.
AnswerUnderstood ==
  outcome.kind \in {"value", "unreadable", "answer_panic"} =>
    LET type == method.result
        v    == message.meant[1] IN
    IF type = Custom("BundleStats")
    THEN StatsAgree(v) => outcome.value = ReadingOfStats(v, message.altered)
    ELSE outcome.value = IF Is("struct", type)
                         THEN Reading(Fields[type.struct], v, message.altered) ELSE {v}

\* Some number in an EthCallBundleResponse does not fit in a u128.
TooWide(v) ==
  \/ \E n \in {v.bundleGasPrice, v.coinbaseDiff, v.ethSentToCoinbase, v.gasFees} : n > u128_MAX
  \/ \E i \in DOMAIN v.results : LET r == v.results[i] IN
       \E n \in {r.coinbaseDiff, r.ethSentToCoinbase, r.gasFees, r.gasPrice} : n > u128_MAX

\* The client panics in two cases only: a relay that has received a bundle does not
\* say whether it was simulated, and a number is passed to call_bundle that does
\* not fit in a u128.
PanicsAreKnown ==
  /\ outcome.kind = "answer_panic" =>
       /\ message.altered = [kind |-> "omit", field |-> "isSimulated"]
       /\ message.meant[1].variant # "Unknown"
  /\ outcome.kind = "call_panic" =>
       method.name = "eth_callBundle" /\ TooWide(message.meant[1])
=============================================================================
