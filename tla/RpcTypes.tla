------------------------------ MODULE RpcTypes ------------------------------
(***************************************************************************)
(* The RPC types of mev-share-rpc-api (crates/mev-share-rpc-api/src/        *)
(* types.rs) and their serde code.                                         *)
(*                                                                         *)
(* A struct is described by its fields, under their names on the wire; what *)
(* serde derives from such a description, and what its attributes change,   *)
(* is Encode and Decode.  Code written by hand has operators of its own.    *)
(* Both return the set of results: none when they fail.  None is <<>> and   *)
(* Some(v) is <<v>>.  Structs have structs in them, so the codec comes in    *)
(* layers, each of which knows those within: as many as the types need.     *)
(* SimBundleLogs would need any number; they are coded three deep.          *)
(*                                                                         *)
(* A definition named X_Y is X with the bug Y; no specification uses it.    *)
(***************************************************************************)
EXTENDS Naturals, Sequences, FiniteSets

CONSTANT u128_MAX  \* u128::MAX, scaled down

ASSUME WidthAssumption == u128_MAX \in Nat
-----------------------------------------------------------------------------
(* JSON.  Each kind of value has a field name of its own.  A string is a    *)
(* hex number, a decimal one or other text.                                 *)

Null    == [null |-> TRUE]
Bool(b) == [bool |-> b]
Num(n)  == [number |-> n]
Str(s)  == [string |-> s]
Arr(s)  == [array |-> s]
Obj(f)  == [object |-> f]

Hex(n)  == [hex |-> n]
Dec(n)  == [dec |-> n]
Text(t) == [text |-> t]

Is(kind, json) == DOMAIN json = {kind}

IsStr(form, json) == Is("string", json) /\ Is(form, json.string)
-----------------------------------------------------------------------------
(* Types and fields.                                                       *)

Leaf(codec)  == [leaf |-> codec]
Vec(type)    == [vec |-> type]
Struct(name) == [struct |-> name]
Custom(name) == [custom |-> name]

\* Leaves that other crates encode: U64, H256, Address and Bytes are hex strings.
HexT    == Leaf("hex")
NumberT == Leaf("number")
BoolT   == Leaf("bool")
StringT == Leaf("string")
UnitT   == Leaf("unit")

Required(type)  == [type |-> type, mode |-> "required"]
\* Option<_> with skip_serializing_if = "Option::is_none"
Optional(type)  == [type |-> type, mode |-> "optional"]
\* default: may be absent, is always written
Defaulted(type) == [type |-> type, mode |-> "default"]
\* default and skip_serializing_if = "..::is_empty"
Omitted(type)   == [type |-> type, mode |-> "omitted"]
-----------------------------------------------------------------------------
(* The structs.                                                            *)

SendBundleRequest ==
  [version |-> Required(Custom("ProtocolVersion")), inclusion |-> Required(Struct("Inclusion")),
   body |-> Required(Vec(Custom("BundleItem"))), validity |-> Optional(Struct("Validity")),
   privacy |-> Optional(Struct("Privacy"))]

Inclusion == [block |-> Required(HexT), maxBlock |-> Optional(HexT)]

\* The variants of BundleItem, in the order in which they are tried.
BundleItem ==
  << [hash |-> Required(HexT)],
     [tx |-> Required(HexT), canRevert |-> Required(BoolT)] >>

Validity == [refund       |-> Optional(Vec(Struct("Refund"))),
             refundConfig |-> Optional(Vec(Struct("RefundConfig")))]

Refund == [bodyIdx |-> Required(NumberT), percent |-> Required(NumberT)]

RefundConfig == [address |-> Required(HexT), percent |-> Required(NumberT)]

Privacy == [hints    |-> Optional(Custom("PrivacyHint")),
            builders |-> Optional(Vec(StringT))]

SendBundleResponse == [bundleHash |-> Required(HexT)]

ProtocolVersion == [Beta1 |-> "beta-1", V0_1 |-> "v0.1"]

SimBundleOverrides ==
  [parentBlock |-> Optional(Leaf("block")), blockNumber |-> Optional(HexT),
   coinbase |-> Optional(HexT), timestamp |-> Optional(HexT), gasLimit |-> Optional(HexT),
   baseFee |-> Optional(HexT), timeout |-> Optional(HexT)]

SimBundleResponse ==
  [success |-> Required(BoolT), error |-> Optional(StringT), stateBlock |-> Required(HexT),
   mevGasPrice |-> Required(HexT), profit |-> Required(HexT), refundableValue |-> Required(HexT),
   gasUsed |-> Required(HexT), logs |-> Optional(Vec(Struct("SimBundleLogs")))]

\* A Log is opaque.
SimBundleLogs == [txLogs     |-> Optional(Vec(StringT)),
                  bundleLogs |-> Optional(Vec(Struct("SimBundleLogs")))]

CancelBundleRequest == [bundleHash |-> Required(StringT)]

PrivateTransactionRequest ==
  [tx |-> Required(HexT), maxBlockNumber |-> Optional(HexT),
   preferences |-> Omitted(Struct("PrivateTransactionPreferences"))]

PrivateTransactionPreferences == [validity |-> Optional(Struct("Validity")),
                                  privacy  |-> Optional(Struct("Privacy"))]

CancelPrivateTransactionRequest == [txHash |-> Required(HexT)]

\* Unknown is written as an object with one field.
Unknown == [isSimulated |-> Required(BoolT)]

StatsSeen == [isHighPriority |-> Required(BoolT), isSimulated |-> Required(BoolT),
              receivedAt |-> Required(StringT)]

StatsSimulated ==
  [isHighPriority |-> Required(BoolT), isSimulated |-> Required(BoolT),
   simulatedAt |-> Required(StringT), receivedAt |-> Required(StringT),
   consideredByBuildersAt |-> Defaulted(Vec(Struct("ConsideredByBuildersAt"))),
   sealedByBuildersAt |-> Defaulted(Vec(Struct("SealedByBuildersAt")))]

ConsideredByBuildersAt == [pubkey |-> Required(StringT), timestamp |-> Required(StringT)]

SealedByBuildersAt == [pubkey |-> Required(StringT), timestamp |-> Required(StringT)]

BundleStats == [Unknown |-> Unknown, Seen |-> StatsSeen, Simulated |-> StatsSimulated]

Numeric == Custom("u256_numeric_string")

UserStats ==
  [isHighPriority |-> Required(BoolT),
   allTimeValidatorPayments |-> Required(Numeric), allTimeGasSimulated |-> Required(Numeric),
   last7dValidatorPayments |-> Required(Numeric), last7dGasSimulated |-> Required(Numeric),
   last1dValidatorPayments |-> Required(Numeric), last1dGasSimulated |-> Required(Numeric)]

EthSendBundle ==
  [txs |-> Required(Vec(HexT)), blockNumber |-> Required(HexT),
   minTimestamp |-> Optional(NumberT), maxTimestamp |-> Optional(NumberT),
   revertingTxHashes |-> Omitted(Vec(HexT)), replacementUuid |-> Optional(StringT)]

EthBundleHash == [bundleHash |-> Required(HexT)]

EthCallBundle ==
  [txs |-> Required(Vec(HexT)), blockNumber |-> Required(HexT),
   stateBlockNumber |-> Required(Leaf("block")), timestamp |-> Optional(NumberT)]

EthCallBundleResponse ==
  [bundleGasPrice |-> Required(Numeric), bundleHash |-> Required(StringT),
   coinbaseDiff |-> Required(Numeric), ethSentToCoinbase |-> Required(Numeric),
   gasFees |-> Required(Numeric),
   results |-> Required(Vec(Struct("EthCallBundleTransactionResult"))),
   stateBlockNumber |-> Required(NumberT), totalGasUsed |-> Required(NumberT)]

EthCallBundleTransactionResult ==
  [coinbaseDiff |-> Required(Numeric), ethSentToCoinbase |-> Required(Numeric),
   fromAddress |-> Required(HexT), gasFees |-> Required(Numeric),
   gasPrice |-> Required(Numeric), gasUsed |-> Required(NumberT),
   toAddress |-> Required(HexT), txHash |-> Required(HexT), value |-> Required(HexT)]

\* Of flashbots.rs.
GetUserStatsRequest == [blockNumber |-> Required(HexT)]

GetBundleStatsRequest == [bundleHash |-> Required(HexT), blockNumber |-> Required(HexT)]

Fields ==
  [SendBundleRequest |-> SendBundleRequest, Inclusion |-> Inclusion, Validity |-> Validity,
   Refund |-> Refund, RefundConfig |-> RefundConfig, Privacy |-> Privacy,
   SendBundleResponse |-> SendBundleResponse, SimBundleOverrides |-> SimBundleOverrides,
   SimBundleResponse |-> SimBundleResponse, SimBundleLogs |-> SimBundleLogs,
   CancelBundleRequest |-> CancelBundleRequest,
   PrivateTransactionRequest |-> PrivateTransactionRequest,
   PrivateTransactionPreferences |-> PrivateTransactionPreferences,
   CancelPrivateTransactionRequest |-> CancelPrivateTransactionRequest,
   ConsideredByBuildersAt |-> ConsideredByBuildersAt, SealedByBuildersAt |-> SealedByBuildersAt,
   UserStats |-> UserStats, EthSendBundle |-> EthSendBundle, EthBundleHash |-> EthBundleHash,
   EthCallBundle |-> EthCallBundle, EthCallBundleResponse |-> EthCallBundleResponse,
   EthCallBundleTransactionResult |-> EthCallBundleTransactionResult,
   GetUserStatsRequest |-> GetUserStatsRequest, GetBundleStatsRequest |-> GetBundleStatsRequest]
-----------------------------------------------------------------------------
(* Hand-written pieces that do not recur.                                  *)

\* The flags of PrivacyHint.
HintNames == {"calldata", "contract_address", "logs", "function_selector", "hash", "tx_hash"}

PrivacyHint == [HintNames -> BOOLEAN]

NoHints == [name \in HintNames |-> FALSE]

with_hint(hints, name) == [hints EXCEPT ![name] = TRUE]

has_hint(hints, name) == hints[name]

num_hints(hints) == Cardinality({name \in HintNames : hints[name]})

\* A sequence announced as empty is closed at once.
EncodeHints(hints) ==
  LET flag(name) == IF has_hint(hints, name) THEN <<Str(Text(name))>> ELSE <<>>
  IN  IF num_hints(hints) = 0
      THEN Arr(<<>>)
      ELSE Arr(flag("calldata") \o flag("contract_address") \o flag("logs")
               \o flag("function_selector") \o flag("hash") \o flag("tx_hash"))

\* A name that is not one of the six is an error.
DecodeHints(json) ==
  {hints \in PrivacyHint :
     /\ Is("array", json)
     /\ \A i \in DOMAIN json.array : /\ IsStr("text", json.array[i])
                                     /\ json.array[i].string.text \in DOMAIN hints
     /\ \A name \in DOMAIN hints :
          hints[name] <=> \E i \in DOMAIN json.array : json.array[i] = Str(Text(name))}

\* The value must fit in a u128 to be written.
EncodeNumeric(n) == {Str(Dec(m)) : m \in {n} \cap (0 .. u128_MAX)}

\* StringifiedNumeric: a decimal or hex string, or a number.
DecodeNumeric(json) ==
  CASE IsStr("dec", json)   -> {json.string.dec}
    [] IsStr("hex", json)   -> {json.string.hex}
    [] Is("number", json)   -> {json.number}
    [] OTHER                -> {}

StatsPanic_Unguarded(map) == "isSimulated" \notin DOMAIN map

\* map["isSimulated"] panics when there is no such entry.
StatsPanic(map) == "receivedAt" \in DOMAIN map /\ "isSimulated" \notin DOMAIN map

StatsVariant(map) ==
  IF "receivedAt" \notin DOMAIN map THEN "Unknown"
  ELSE IF map["isSimulated"] = Bool(FALSE) THEN "Seen" ELSE "Simulated"

is_empty_EitherNone(preferences) == preferences.validity = <<>> \/ preferences.privacy = <<>>

is_empty(preferences) == preferences.validity = <<>> /\ preferences.privacy = <<>>

\* The test of an Omitted field: Vec::is_empty or that of the preferences.
Skipped(field, v) ==
  \/ field.mode = "optional" /\ v = <<>>
  \/ field.mode = "omitted" /\ IF field.type = Struct("PrivateTransactionPreferences")
                               THEN is_empty(v) ELSE v = <<>>

\* What an absent field is read as.
DefaultOf(field) ==
  IF field.type = Struct("PrivateTransactionPreferences")
  THEN [validity |-> <<>>, privacy |-> <<>>]
  ELSE <<>>
-----------------------------------------------------------------------------
(* The codec.                                                              *)

EncodeLeaf(codec, v) ==
  CASE codec = "hex"                -> Str(Hex(v))
    [] codec = "number"             -> Num(v)
    [] codec = "bool"               -> Bool(v)
    [] codec \in {"string", "block"} -> Str(v)
    [] codec = "unit"               -> Null

DecodeLeaf(codec, json) ==
  CASE codec = "hex"    /\ IsStr("hex", json)  -> {json.string.hex}
    [] codec = "number" /\ Is("number", json)  -> {json.number}
    [] codec = "bool"   /\ Is("bool", json)    -> {json.bool}
    [] codec = "string" /\ Is("string", json)  -> {json.string}
    [] codec = "block"  /\ Is("string", json)  -> {json.string}
    [] codec = "unit"   /\ json = Null         -> {<<>>}
    [] OTHER                                   -> {}

\* One result out of each set of results, if all of them have one.
Combine(results) ==
  IF \E i \in DOMAIN results : results[i] = {}
  THEN {}
  ELSE {[i \in DOMAIN results |-> CHOOSE x \in results[i] : TRUE]}

\* EncodePart is the codec of the types of the fields.
EncodeField(EncodePart(_, _), field, w) ==
  EncodePart(field.type, IF field.mode = "optional" THEN w[1] ELSE w)

WrittenFields(fields, v) == {f \in DOMAIN fields : ~Skipped(fields[f], v[f])}

EncodeFields(EncodePart(_, _), fields, v) ==
  {Obj(map) : map \in Combine([f \in WrittenFields(fields, v) |->
                                 EncodeField(EncodePart, fields[f], v[f])])}

EncodeCustom(EncodePart(_, _), name, v) ==
  CASE name = "PrivacyHint"         -> {EncodeHints(v)}
    [] name = "BundleItem"          -> EncodeFields(EncodePart, BundleItem[v.variant], v.fields)
    [] name = "ProtocolVersion"     -> {Str(Text(ProtocolVersion[v]))}
    [] name = "BundleStats"         -> EncodeFields(EncodePart, BundleStats[v.variant], v.fields)
    [] name = "u256_numeric_string" -> EncodeNumeric(v)

EncodeItem(EncodePart(_, _), type, v) ==
  CASE Is("leaf", type)   -> {EncodeLeaf(type.leaf, v)}
    [] Is("struct", type) -> EncodeFields(EncodePart, Fields[type.struct], v)
    [] Is("custom", type) -> EncodeCustom(EncodePart, type.custom, v)

EncodeLayer(EncodePart(_, _), type, v) ==
  IF Is("vec", type)
  THEN {Arr(s) : s \in Combine([i \in DOMAIN v |-> EncodeItem(EncodePart, type.vec, v[i])])}
  ELSE EncodeItem(EncodePart, type, v)

DecodeAbsent_NoDefault(field) == IF field.mode = "optional" THEN {<<>>} ELSE {}

DecodeAbsent(field) == IF field.mode = "required" THEN {} ELSE {DefaultOf(field)}

DecodePresent(DecodePart(_, _), field, json) ==
  IF field.mode # "optional" THEN DecodePart(field.type, json)
  ELSE IF json = Null THEN {<<>>}
  ELSE {<<v>> : v \in DecodePart(field.type, json)}

\* Entries that are not fields are ignored.
DecodeFields(DecodePart(_, _), fields, json) ==
  IF ~Is("object", json) THEN {}
  ELSE Combine([f \in DOMAIN fields |-> IF f \in DOMAIN json.object
                                        THEN DecodePresent(DecodePart, fields[f], json.object[f])
                                        ELSE DecodeAbsent(fields[f])])

\* Untagged: the first variant that fits.  read is what each is read as.
DecodeBundleItem(read) ==
  UNION {{[variant |-> k, fields |-> v] : v \in read[k]} :
           k \in {k \in DOMAIN read : \A j \in 1 .. k - 1 : read[j] = {}}}

\* Not for a map with which StatsPanic.
DecodeStats(json, read) ==
  IF ~Is("object", json) THEN {}
  ELSE LET variant == StatsVariant(json.object)
       IN  {[variant |-> variant, fields |-> v] :
              v \in IF variant = "Unknown" THEN {[isSimulated |-> FALSE]} ELSE read[variant]}

DecodeVariants(DecodePart(_, _), variants, json) ==
  [k \in DOMAIN variants |-> DecodeFields(DecodePart, variants[k], json)]

DecodeCustom(DecodePart(_, _), name, json) ==
  CASE name = "PrivacyHint"         -> DecodeHints(json)
    [] name = "BundleItem"          -> DecodeBundleItem(DecodeVariants(DecodePart, BundleItem, json))
    [] name = "ProtocolVersion"     ->
         {v \in DOMAIN ProtocolVersion : json = Str(Text(ProtocolVersion[v]))}
    [] name = "BundleStats"         -> DecodeStats(json, DecodeVariants(DecodePart, BundleStats, json))
    [] name = "u256_numeric_string" -> DecodeNumeric(json)

DecodeItem(DecodePart(_, _), type, json) ==
  CASE Is("leaf", type)   -> DecodeLeaf(type.leaf, json)
    [] Is("struct", type) -> DecodeFields(DecodePart, Fields[type.struct], json)
    [] Is("custom", type) -> DecodeCustom(DecodePart, type.custom, json)

DecodeLayer(DecodePart(_, _), type, json) ==
  IF Is("vec", type)
  THEN IF ~Is("array", json) THEN {}
       ELSE Combine([i \in DOMAIN json.array |-> DecodeItem(DecodePart, type.vec, json.array[i])])
  ELSE DecodeItem(DecodePart, type, json)

\* The deepest type, PrivateTransactionRequest, has three structs within, and leaves
\* within those.
NoCodec(type, v) == {}
Encode0(type, v) == EncodeLayer(NoCodec, type, v)
Encode1(type, v) == EncodeLayer(Encode0, type, v)
Encode2(type, v) == EncodeLayer(Encode1, type, v)
Encode3(type, v) == EncodeLayer(Encode2, type, v)
Encode(type, v)  == EncodeLayer(Encode3, type, v)

Decode0(type, json) == DecodeLayer(NoCodec, type, json)
Decode1(type, json) == DecodeLayer(Decode0, type, json)
Decode2(type, json) == DecodeLayer(Decode1, type, json)
Decode3(type, json) == DecodeLayer(Decode2, type, json)
Decode(type, json)  == DecodeLayer(Decode3, type, json)
-----------------------------------------------------------------------------
(* The values of the types, in the same layers.  A string that is not a     *)
(* number is not written as a decimal one.                                  *)

IsLeaf(codec, v) ==
  \/ codec \in {"hex", "number"} /\ v \in Nat
  \/ codec = "bool" /\ v \in BOOLEAN
  \/ codec \in {"string", "block"} /\ (Is("text", v) \/ Is("hex", v))
  \/ codec = "unit" /\ v = <<>>

IsField(IsPart(_, _), field, w) ==
  IF field.mode = "optional"
  THEN w = <<>> \/ (w = <<w[1]>> /\ IsPart(field.type, w[1]))
  ELSE IsPart(field.type, w)

HasFields(IsPart(_, _), fields, v) ==
  v = [f \in DOMAIN fields |-> v[f]] /\ \A f \in DOMAIN fields : IsField(IsPart, fields[f], v[f])

HasVariant(IsPart(_, _), variants, v) ==
  /\ v = [variant |-> v.variant, fields |-> v.fields]
  /\ v.variant \in DOMAIN variants
  /\ HasFields(IsPart, variants[v.variant], v.fields)

IsCustom(IsPart(_, _), name, v) ==
  \/ name = "PrivacyHint" /\ v \in PrivacyHint
  \/ name = "BundleItem" /\ HasVariant(IsPart, BundleItem, v)
  \/ name = "ProtocolVersion" /\ v \in DOMAIN ProtocolVersion
  \/ name = "u256_numeric_string" /\ v \in Nat

IsItem(IsPart(_, _), type, v) ==
  \/ Is("leaf", type) /\ IsLeaf(type.leaf, v)
  \/ /\ Is("struct", type)
     /\ type.struct \in DOMAIN Fields
     /\ HasFields(IsPart, Fields[type.struct], v)
  \/ Is("custom", type) /\ IsCustom(IsPart, type.custom, v)

IsLayer(IsPart(_, _), type, v) ==
  IF Is("vec", type)
  THEN v = [i \in DOMAIN v |-> v[i]] /\ \A i \in DOMAIN v : IsItem(IsPart, type.vec, v[i])
  ELSE IsItem(IsPart, type, v)

IsNothing(type, v) == FALSE
Is0(type, v) == IsLayer(IsNothing, type, v)
Is1(type, v) == IsLayer(Is0, type, v)
Is2(type, v) == IsLayer(Is1, type, v)
Is3(type, v) == IsLayer(Is2, type, v)
Is4(type, v) == IsLayer(Is3, type, v)

\* Unknown has no fields; is_simulated is what is written for it.
IsStats(v) ==
  HasVariant(Is3, BundleStats, v) /\ (v.variant = "Unknown" => v.fields = [isSimulated |-> FALSE])

IsValue(type, v) == IF type = Custom("BundleStats") THEN IsStats(v) ELSE Is4(type, v)
=============================================================================
