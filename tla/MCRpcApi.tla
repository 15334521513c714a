------------------------------ MODULE MCRpcApi ------------------------------
(***************************************************************************)
(* The values that are passed in the instance for TLC: of each struct a     *)
(* value with little in it and a full one, each varied in one field.        *)
(***************************************************************************)
EXTENDS RpcApiDocs

\* How deep optional and repeated parts are filled in.
MaxDepth == 3

Texts == {Text("a"), Text("b")}

Hints == {NoHints} \cup {with_hint(with_hint(NoHints, a), b) : a, b \in DOMAIN NoHints}
                   \cup {[name \in DOMAIN NoHints |-> TRUE]}

First(S) == CHOOSE x \in S : TRUE

RECURSIVE ValuesOf(_, _)

FieldValues(field, depth) ==
  CASE field.mode = "optional" /\ depth = 0 -> {<<>>}
    [] field.mode = "optional"              -> {<<>>} \cup {<<v>> : v \in ValuesOf(field.type, depth)}
    [] OTHER                                -> ValuesOf(field.type, depth)

\* Optional fields are empty in the first value and filled in the full one.
StructValues(fields, depth) ==
  LET values == [f \in DOMAIN fields |-> FieldValues(fields[f], depth)]
      first  == [f \in DOMAIN fields |-> First(values[f])]
      full   == [f \in DOMAIN fields |-> IF \E v \in values[f] : v # first[f]
                                         THEN First(values[f] \ {first[f]})
                                         ELSE first[f]]
  IN  UNION {{[base EXCEPT ![f] = v] : base \in {first, full}, v \in values[f]} :
               f \in DOMAIN fields}

ValuesOf(type, depth) ==
  CASE type = BoolT                     -> BOOLEAN
    [] type \in {HexT, NumberT}         -> {0, 1}
    [] type = Numeric                   -> {0, u128_MAX, u128_MAX + 1}
    [] type = UnitT                     -> {<<>>}
    [] type = StringT                   -> Texts
    [] type = Leaf("block")             -> {Text("latest"), Hex(1)}
    [] Is("vec", type) /\ depth = 0     -> {<<>>}
    [] Is("vec", type) /\ depth # 0     ->
         LET values == ValuesOf(type.vec, depth - 1)
         IN  {<<>>} \cup {<<v>> : v \in values} \cup {<<First(values), v>> : v \in values}
    [] Is("struct", type)               -> StructValues(Fields[type.struct], depth)
    [] type = Custom("PrivacyHint")     -> Hints
    [] type = Custom("ProtocolVersion") -> DOMAIN ProtocolVersion
    [] type = Custom("BundleItem")      ->
         UNION {{[variant |-> k, fields |-> v] : v \in StructValues(BundleItem[k], depth)} :
                  k \in DOMAIN BundleItem}
    [] type = Custom("BundleStats")     ->
         {[variant |-> "Unknown", fields |-> [isSimulated |-> FALSE]]}
           \cup UNION {{[variant |-> k, fields |-> v] : v \in StructValues(BundleStats[k], depth)} :
                         k \in {"Seen", "Simulated"}}

Signatures == {m.args : m \in Methods} \cup {<<m.result>> : m \in Methods}

\* One argument differs from the first value at a time.
PassedFor ==
  [types \in Signatures |->
     LET values == [i \in DOMAIN types |-> ValuesOf(types[i], MaxDepth)]
         first  == [i \in DOMAIN types |-> First(values[i])]
     IN  UNION {{[first EXCEPT ![i] = v] : v \in values[i]} : i \in DOMAIN types}]

MCPassed(types) == PassedFor[types]
=============================================================================
