---------------------------- MODULE RpcApiProofs ----------------------------
(***************************************************************************)
(* Theorems about the RPC interfaces.  They hold for every width of a u128  *)
(* and for every set of values of the types that is passed                  *)
(* (WidthAssumption, PassedAssumption).                                     *)
(*                                                                         *)
(* That the codec reads what it has written is shown layer by layer.  The   *)
(* layers are operators that take the one within as a parameter, and a      *)
(* lemma cannot be stated for every operator: each layer has its own, and   *)
(* their proofs differ in the names only.                                   *)
(***************************************************************************)
EXTENDS RpcApi, FiniteSetTheorems, TLAPS
-----------------------------------------------------------------------------
(* Combinations and the regularity of the fields.                         *)

\* A combination has one result out of each set.
LEMMA CombineMember ==
  ASSUME NEW results, NEW map \in Combine(results)
  PROVE  /\ map = [i \in DOMAIN results |-> map[i]]
         /\ \A i \in DOMAIN results : map[i] \in results[i]
BY DEF Combine

\* There is a combination if no set is empty.
LEMMA CombineNonempty ==
  ASSUME NEW results, \A i \in DOMAIN results : results[i] # {}
  PROVE  Combine(results) # {}
BY DEF Combine

\* There is none if a set is empty.
LEMMA CombineEmpty ==
  ASSUME NEW results, NEW i \in DOMAIN results, results[i] = {}
  PROVE  Combine(results) = {}
BY DEF Combine

\* Singletons have one combination.
LEMMA CombineSingletons ==
  ASSUME NEW results, NEW v, v = [i \in DOMAIN results |-> v[i]],
         \A i \in DOMAIN results : results[i] = {v[i]}
  PROVE  Combine(results) = {v}
<1>1. ~\E i \in DOMAIN results : results[i] = {}
  OBVIOUS
<1>2. [i \in DOMAIN results |-> CHOOSE x \in results[i] : TRUE] = v
  <2>1. \A i \in DOMAIN results : (CHOOSE x \in results[i] : TRUE) = v[i]
    OBVIOUS
  <2> QED
    BY <2>1
<1> QED
  BY <1>1, <1>2 DEF Combine

\* The only type whose default is not an empty sequence.
Preferences == Struct("PrivateTransactionPreferences")

\* The only type that is written as null.
IsUnit(type) == Is("leaf", type) /\ type.leaf = "unit"

\* The only type that is written as a decimal string.
IsNumeric(type) == Is("custom", type) /\ type.custom = "u256_numeric_string"

\* What holds of every field of the types and is needed to tell an absent entry, a null and
\* a number in another form apart from everything else: none is a unit, a number is always
\* required, and the preferences are never optional.
Regular(field) ==
  /\ field.mode \in {"required", "optional", "default", "omitted"}
  /\ ~IsUnit(field.type)
  /\ IsNumeric(field.type) => field.mode = "required"
  /\ field.mode \in {"optional", "default"} => field.type # Preferences

\* No field has the name of the entry that nobody knows.
AreRegular(fields) == "extra" \notin DOMAIN fields /\ \A f \in DOMAIN fields : Regular(fields[f])

\* The fields of every struct are regular.
LEMMA FieldsRegular == \A name \in DOMAIN Fields : AreRegular(Fields[name])
<1> USE DEF AreRegular, Regular, Required, Optional, Defaulted, Omitted, IsUnit, IsNumeric,
           Is, Custom, Preferences,
           HexT, NumberT, BoolT, StringT, Numeric, Struct, Leaf, Vec
<1>1. AreRegular(SendBundleRequest)
  BY DEF SendBundleRequest
<1>2. AreRegular(Inclusion)
  BY DEF Inclusion
<1>3. AreRegular(Validity)
  BY DEF Validity
<1>4. AreRegular(Refund)
  BY DEF Refund
<1>5. AreRegular(RefundConfig)
  BY DEF RefundConfig
<1>6. AreRegular(Privacy)
  BY DEF Privacy
<1>7. AreRegular(SendBundleResponse)
  BY DEF SendBundleResponse
<1>8. AreRegular(SimBundleOverrides)
  BY DEF SimBundleOverrides
<1>9. AreRegular(SimBundleResponse)
  BY DEF SimBundleResponse
<1>10. AreRegular(SimBundleLogs)
  BY DEF SimBundleLogs
<1>11. AreRegular(CancelBundleRequest)
  BY DEF CancelBundleRequest
<1>12. AreRegular(PrivateTransactionRequest)
  BY DEF PrivateTransactionRequest
<1>13. AreRegular(PrivateTransactionPreferences)
  BY DEF PrivateTransactionPreferences
<1>14. AreRegular(CancelPrivateTransactionRequest)
  BY DEF CancelPrivateTransactionRequest
<1>15. AreRegular(ConsideredByBuildersAt)
  BY DEF ConsideredByBuildersAt
<1>16. AreRegular(SealedByBuildersAt)
  BY DEF SealedByBuildersAt
<1>17. AreRegular(UserStats)
  BY DEF UserStats
<1>18. AreRegular(EthSendBundle)
  BY DEF EthSendBundle
<1>19. AreRegular(EthBundleHash)
  BY DEF EthBundleHash
<1>20. AreRegular(EthCallBundle)
  BY DEF EthCallBundle
<1>21. AreRegular(EthCallBundleResponse)
  BY DEF EthCallBundleResponse
<1>22. AreRegular(EthCallBundleTransactionResult)
  BY DEF EthCallBundleTransactionResult
<1>23. AreRegular(GetUserStatsRequest)
  BY DEF GetUserStatsRequest
<1>24. AreRegular(GetBundleStatsRequest)
  BY DEF GetBundleStatsRequest
<1> HIDE DEF AreRegular
<1> QED
  BY ONLY <1>1, <1>2, <1>3, <1>4, <1>5, <1>6, <1>7, <1>8, <1>9, <1>10, <1>11, <1>12, <1>13,
     <1>14, <1>15, <1>16, <1>17, <1>18, <1>19, <1>20, <1>21, <1>22, <1>23, <1>24 DEF Fields

\* The fields of every variant are regular.
LEMMA VariantsRegular ==
  /\ \A k \in DOMAIN BundleItem : AreRegular(BundleItem[k])
  /\ \A k \in DOMAIN BundleStats : AreRegular(BundleStats[k])
<1> USE DEF AreRegular, Regular, Required, Defaulted, IsUnit, IsNumeric, Is, Custom, Preferences,
           HexT, BoolT, StringT, Struct, Leaf, Vec
<1>1. \A k \in DOMAIN BundleItem : AreRegular(BundleItem[k])
  BY DEF BundleItem
<1>2. AreRegular(Unknown) /\ AreRegular(StatsSeen)
  BY DEF Unknown, StatsSeen
<1>3. AreRegular(StatsSimulated)
  BY DEF StatsSimulated
<1> HIDE DEF AreRegular
<1> QED
  BY ONLY <1>1, <1>2, <1>3 DEF BundleStats

-----------------------------------------------------------------------------
(* What is not made of layers.                                             *)

\* e, written for v, is read as v and nothing else.  Only a unit is written as null, and only
\* a numeric string as a decimal one.
ReadAs(type, v, e, read) ==
  /\ read = {v}
  /\ ~IsUnit(type) => e # Null
  /\ IsStr("dec", e) => IsNumeric(type) /\ e = Str(Dec(v))

\* A leaf is read as it was written.
LEMMA LeafRead ==
  ASSUME NEW type, Is("leaf", type), NEW v, IsLeaf(type.leaf, v)
  PROVE  LET e == EncodeLeaf(type.leaf, v) IN ReadAs(type, v, e, DecodeLeaf(type.leaf, e))
<1> USE DEF ReadAs, IsLeaf, EncodeLeaf, DecodeLeaf, IsUnit, IsStr, Is
<1>1. CASE type.leaf = "hex"
  BY <1>1 DEF Str, Hex, Null
<1>2. CASE type.leaf = "number"
  BY <1>2 DEF Num, Null
<1>3. CASE type.leaf = "bool"
  BY <1>3 DEF Bool, Null
<1>4. CASE type.leaf = "string"
  BY <1>4 DEF Str, Null
<1>5. CASE type.leaf = "block"
  BY <1>5 DEF Str, Null
<1>6. CASE type.leaf = "unit"
  BY <1>6 DEF Null
<1> QED
  BY <1>1, <1>2, <1>3, <1>4, <1>5, <1>6

\* A numeric string is read as the number that was written.
LEMMA NumericRead ==
  ASSUME NEW type, IsNumeric(type), NEW v \in Nat, NEW e \in EncodeNumeric(v)
  PROVE  ReadAs(type, v, e, DecodeNumeric(e))
<1>1. e = Str(Dec(v))
  BY DEF EncodeNumeric
<1>2. IsStr("dec", e) /\ ~IsStr("hex", e) /\ ~Is("number", e) /\ e.string.dec = v /\ e # Null
  BY <1>1 DEF IsStr, Is, Str, Dec, Null
<1> QED
  BY <1>1, <1>2 DEF ReadAs, DecodeNumeric

\* The versions have different names.
LEMMA VersionRead ==
  ASSUME NEW type, NEW v \in DOMAIN ProtocolVersion, NEW e, e = Str(Text(ProtocolVersion[v]))
  PROVE  ReadAs(type, v, e, {w \in DOMAIN ProtocolVersion : e = Str(Text(ProtocolVersion[w]))})
<1>1. \A w \in DOMAIN ProtocolVersion : e = Str(Text(ProtocolVersion[w])) <=> w = v
  BY DEF ProtocolVersion, Str, Text
<1>2. ~IsStr("dec", e) /\ e # Null
  BY DEF IsStr, Is, Str, Text, Null
<1> QED
  BY <1>1, <1>2 DEF ReadAs

\* What is in a sequence.
Elements(s) == {s[i] : i \in DOMAIN s}

\* What is in a concatenation.
LEMMA ConcatElements ==
  ASSUME NEW S, NEW s \in Seq(S), NEW t \in Seq(S)
  PROVE  s \o t \in Seq(S) /\ Elements(s \o t) = Elements(s) \cup Elements(t)
<1>1. s \o t \in Seq(S)
  OBVIOUS
<1>2. ASSUME NEW x \in Elements(s \o t) PROVE x \in Elements(s) \cup Elements(t)
  <2>1. PICK i \in 1 .. Len(s) + Len(t) : x = (s \o t)[i]
    BY <1>2 DEF Elements
  <2>2. CASE i <= Len(s)
    BY <2>1, <2>2 DEF Elements
  <2>3. CASE i > Len(s)
    <3>1. x = t[i - Len(s)] /\ i - Len(s) \in DOMAIN t
      BY <2>1, <2>3
    <3> QED
      BY <3>1 DEF Elements
  <2> QED
    BY <2>2, <2>3
<1>3. ASSUME NEW i \in DOMAIN s PROVE s[i] \in Elements(s \o t)
  <2>1. i \in DOMAIN (s \o t) /\ (s \o t)[i] = s[i]
    OBVIOUS
  <2> QED
    BY <2>1 DEF Elements
<1>4. ASSUME NEW i \in DOMAIN t PROVE t[i] \in Elements(s \o t)
  <2>1. Len(s) + i \in DOMAIN (s \o t) /\ (s \o t)[Len(s) + i] = t[i]
    OBVIOUS
  <2> QED
    BY <2>1 DEF Elements
<1> QED
  BY <1>1, <1>2, <1>3, <1>4 DEF Elements

\* The same for six sequences.
LEMMA ConcatSix ==
  ASSUME NEW S, NEW a \in Seq(S), NEW b \in Seq(S), NEW c \in Seq(S),
         NEW d \in Seq(S), NEW e \in Seq(S), NEW f \in Seq(S)
  PROVE  /\ a \o b \o c \o d \o e \o f \in Seq(S)
         /\ Elements(a \o b \o c \o d \o e \o f)
              = Elements(a) \cup Elements(b) \cup Elements(c)
                \cup Elements(d) \cup Elements(e) \cup Elements(f)
<1>1. PICK ab : ab = a \o b
  OBVIOUS
<1>2. ab \in Seq(S) /\ Elements(ab) = Elements(a) \cup Elements(b)
  BY <1>1, ConcatElements
<1>3. PICK abc : abc = ab \o c
  OBVIOUS
<1>4. abc \in Seq(S) /\ Elements(abc) = Elements(ab) \cup Elements(c)
  BY <1>2, <1>3, ConcatElements
<1>5. PICK abcd : abcd = abc \o d
  OBVIOUS
<1>6. abcd \in Seq(S) /\ Elements(abcd) = Elements(abc) \cup Elements(d)
  BY <1>4, <1>5, ConcatElements
<1>7. PICK abcde : abcde = abcd \o e
  OBVIOUS
<1>8. abcde \in Seq(S) /\ Elements(abcde) = Elements(abcd) \cup Elements(e)
  BY <1>6, <1>7, ConcatElements
<1>9. abcde \o f \in Seq(S) /\ Elements(abcde \o f) = Elements(abcde) \cup Elements(f)
  BY <1>8, ConcatElements
<1> QED
  BY <1>1, <1>2, <1>3, <1>4, <1>5, <1>6, <1>7, <1>8, <1>9, Zenon

\* The name of a hint on the wire.
HintText(name) == Str(Text(name))

\* The names of all hints on the wire.
HintTexts == {HintText(name) : name \in HintNames}

\* PrivacyHint: the hints are read as they were written, whichever of the six are set, none of
\* them included.
LEMMA HintsRead ==
  ASSUME NEW hints \in PrivacyHint
  PROVE  DecodeHints(EncodeHints(hints)) = {hints} /\ Is("array", EncodeHints(hints))
<1> DEFINE flag(name) == IF has_hint(hints, name) THEN <<HintText(name)>> ELSE <<>>
           flags == flag("calldata") \o flag("contract_address") \o flag("logs")
                    \o flag("function_selector") \o flag("hash") \o flag("tx_hash")
           set == {name \in HintNames : hints[name]}
<1>1. ASSUME NEW name \in HintNames
      PROVE  /\ flag(name) \in Seq(HintTexts)
             /\ Elements(flag(name)) = IF hints[name] THEN {HintText(name)} ELSE {}
  <2>1. HintText(name) \in HintTexts
    BY DEF HintTexts
  <2>2. CASE hints[name]
    <3>1. flag(name) = <<HintText(name)>>
      BY <2>2 DEF has_hint
    <3> QED
      BY <3>1, <2>1, <2>2 DEF Elements
  <2>3. CASE ~hints[name]
    <3>1. flag(name) = <<>>
      BY <2>3 DEF has_hint
    <3> QED
      BY <3>1, <2>3 DEF Elements
  <2> QED
    BY <2>2, <2>3
<1>2. flags \in Seq(HintTexts) /\ Elements(flags) = {HintText(name) : name \in set}
  <2> HIDE DEF flag
  <2>1. /\ flags \in Seq(HintTexts)
        /\ Elements(flags)
             = Elements(flag("calldata")) \cup Elements(flag("contract_address"))
               \cup Elements(flag("logs")) \cup Elements(flag("function_selector"))
               \cup Elements(flag("hash")) \cup Elements(flag("tx_hash"))
    <3>1. /\ flag("calldata") \in Seq(HintTexts) /\ flag("contract_address") \in Seq(HintTexts)
          /\ flag("logs") \in Seq(HintTexts) /\ flag("function_selector") \in Seq(HintTexts)
          /\ flag("hash") \in Seq(HintTexts) /\ flag("tx_hash") \in Seq(HintTexts)
      BY <1>1 DEF HintNames
    <3> QED
      BY <3>1, ConcatSix, SMTT(60)
  <2> HIDE DEF flags
  <2> QED
    BY <1>1, <2>1 DEF HintNames
<1> HIDE DEF flag, flags
<1>3. num_hints(hints) = 0 <=> set = {}
  <2>1. IsFiniteSet(HintNames)
    <3>1. \A x, y : IsFiniteSet({x, y})
      <4> SUFFICES ASSUME NEW x, NEW y PROVE IsFiniteSet({x, y})
        OBVIOUS
      <4>1. {x, y} = {x} \cup {y}
        OBVIOUS
      <4>2. IsFiniteSet({x}) /\ IsFiniteSet({y})
        BY FS_Singleton
      <4> QED
        BY <4>1, <4>2, FS_Union
    <3>4. HintNames = {"calldata", "contract_address"} \cup {"logs", "function_selector"}
                      \cup {"hash", "tx_hash"}
      BY DEF HintNames
    <3> QED
      BY <3>1, <3>4, FS_Union
  <2> QED
    BY <2>1, FS_EmptySet, FS_Subset DEF num_hints
<1> HIDE DEF set
<1>4. PICK s : /\ EncodeHints(hints) = Arr(s)
               /\ s \in Seq(HintTexts)
               /\ Elements(s) = {HintText(name) : name \in set}
  <2>1. CASE set = {}
    <3>1. EncodeHints(hints) = Arr(<<>>)
      BY <1>3, <2>1 DEF EncodeHints
    <3> QED
      <4>1. Elements(<<>>) = {}
        BY DEF Elements
      <4>2. {HintText(name) : name \in set} = {}
        BY <2>1
      <4>3. <<>> \in Seq(HintTexts)
        OBVIOUS
      <4> QED
        BY <3>1, <4>1, <4>2, <4>3, Zenon
  <2>2. CASE set # {}
    <3>1. EncodeHints(hints) = Arr(flags)
      BY <1>3, <2>2 DEF EncodeHints, flag, flags, HintText
    <3> QED
      BY <3>1, <1>2
  <2> QED
    BY <2>1, <2>2
<1>5. \A i \in DOMAIN s : s[i] \in HintTexts
  BY <1>4
<1>6. \A name \in HintNames : hints[name] <=> \E i \in DOMAIN s : s[i] = HintText(name)
  <2>1. \A a, b \in HintNames : HintText(a) = HintText(b) => a = b
    BY DEF HintText, Str, Text
  <2> QED
    BY <1>4, <2>1 DEF Elements, set
<1>7. \A i \in DOMAIN s : IsStr("text", s[i]) /\ s[i].string.text \in HintNames
  BY <1>5 DEF HintTexts, HintText, IsStr, Is, Str, Text
<1>8. Is("array", Arr(s)) /\ Arr(s).array = s
  BY DEF Is, Arr
<1>9. \A other \in PrivacyHint :
        (\A name \in HintNames : other[name] <=> \E i \in DOMAIN s : s[i] = HintText(name))
          <=> other = hints
  BY <1>6 DEF PrivacyHint
<1>10. \A other \in PrivacyHint : DOMAIN other = HintNames
  BY DEF PrivacyHint
<1> QED
  BY <1>4, <1>7, <1>8, <1>9, <1>10 DEF DecodeHints, HintText

\* ReadAs for a field; a null may stand for an optional one.
FieldReadAs(field, w, e, read) ==
  /\ read = {w}
  /\ IsStr("dec", e) => IsNumeric(field.type) /\ e = Str(Dec(w))

\* A BundleItem is read as the variant that was written if no earlier one can be read.
LEMMA FirstReadIs ==
  ASSUME NEW read, DOMAIN read = {1, 2}, NEW v, v = [variant |-> v.variant, fields |-> v.fields],
         v.variant \in {1, 2}, read[v.variant] = {v.fields}, v.variant = 2 => read[1] = {}
  PROVE  DecodeBundleItem(read) = {v}
<1> DEFINE first == {k \in DOMAIN read : \A j \in 1 .. k - 1 : read[j] = {}}
<1>1. 1 \in first
  OBVIOUS
<1>2. 2 \in first <=> read[1] = {}
  <2>1. 1 .. 2 - 1 = {1}
    OBVIOUS
  <2> QED
    BY <2>1
<1>3. first \subseteq {1, 2}
  OBVIOUS
<1>4. DecodeBundleItem(read)
        = UNION {{[variant |-> k, fields |-> w] : w \in read[k]} : k \in first}
  BY DEF DecodeBundleItem
<1> HIDE DEF first
<1>5. CASE v.variant = 1
  <2>1. first = {1}
    BY <1>1, <1>2, <1>3, <1>5
  <2> QED
    BY <1>4, <1>5, <2>1
<1>6. CASE v.variant = 2
  <2>1. first = {1, 2}
    BY <1>1, <1>2, <1>3, <1>6
  <2>2. {[variant |-> 1, fields |-> w] : w \in read[1]} = {}
    BY <1>6
  <2>3. {[variant |-> 2, fields |-> w] : w \in read[2]} = {v}
    BY <1>6
  <2> QED
    BY <1>4, <2>1, <2>2, <2>3
<1> QED
  BY <1>5, <1>6

\* Within the innermost layer nothing is coded.
LEMMA ReadN ==
  ASSUME NEW type, NEW v, IsNothing(type, v), NEW e \in NoCodec(type, v)
  PROVE  ReadAs(type, v, e, NoCodec(type, e))
BY DEF IsNothing

\* Nor are there values.
LEMMA PreferencesN ==
  ASSUME NEW v, IsNothing(Preferences, v)
  PROVE  v = [f \in {"validity", "privacy"} |-> v[f]]
BY DEF IsNothing

\* PrivateTransactionPreferences::is_empty: what is skipped is what an absent entry is read as.
LEMMA EmptyPreferences ==
  ASSUME NEW v, v = [f \in {"validity", "privacy"} |-> v[f]]
  PROVE  v # <<>> /\ (is_empty(v) => v = [validity |-> <<>>, privacy |-> <<>>])
<1>1. DOMAIN v # {}
  OBVIOUS
<1>2. DOMAIN <<>> = {}
  OBVIOUS
<1> QED
  BY <1>1, <1>2 DEF is_empty

\* An object is neither null nor a decimal string.
LEMMA ObjectsReadAs ==
  ASSUME NEW type, NEW v, NEW e, Is("object", e)
  PROVE  ReadAs(type, v, e, {v})
BY DEF ReadAs, IsStr, Is, Null

\* Nor is an array.
LEMMA HintsReadAs ==
  ASSUME NEW type, NEW v, NEW e, Is("array", e)
  PROVE  ReadAs(type, v, e, {v})
BY DEF ReadAs, IsStr, Is, Null

-----------------------------------------------------------------------------
(* Layer 0.                                                               *)

\* A field is read as it was written, a skipped one as its default.
LEMMA FieldReadN ==
  ASSUME NEW field, Regular(field), NEW w, IsField(IsNothing, field, w)
  PROVE  /\ Skipped(field, w) => DecodeAbsent(field) = {w}
         /\ ~Skipped(field, w) =>
              \A e \in EncodeField(NoCodec, field, w) :
                FieldReadAs(field, w, e, DecodePresent(NoCodec, field, e))
<1>1. ASSUME Skipped(field, w) PROVE DecodeAbsent(field) = {w}
  <2>1. CASE w = <<>>
    BY <1>1, <2>1, EmptyPreferences, PreferencesN
     DEF Skipped, DecodeAbsent, DefaultOf, Regular, IsField, Preferences
  <2>2. CASE w # <<>>
    <3>1. field.mode = "omitted" /\ field.type = Preferences /\ is_empty(w)
      BY <1>1, <2>2 DEF Skipped, Preferences
    <3> QED
      BY <3>1, EmptyPreferences, PreferencesN
       DEF DecodeAbsent, DefaultOf, IsField, Preferences
  <2> QED
    BY <2>1, <2>2
<1>2. ASSUME ~Skipped(field, w), NEW e \in EncodeField(NoCodec, field, w)
      PROVE  FieldReadAs(field, w, e, DecodePresent(NoCodec, field, e))
  <2>1. CASE field.mode = "optional"
    <3>1. w = <<w[1]>> /\ IsNothing(field.type, w[1])
      BY <1>2, <2>1 DEF Skipped, IsField
    <3>2. e \in NoCodec(field.type, w[1])
      BY <1>2, <2>1 DEF EncodeField
    <3>3. ReadAs(field.type, w[1], e, NoCodec(field.type, e))
      BY <3>1, <3>2, ReadN
    <3> QED
      BY <2>1, <3>1, <3>3 DEF ReadAs, FieldReadAs, DecodePresent, Regular
  <2>2. CASE field.mode # "optional"
    <3>1. IsNothing(field.type, w) /\ e \in NoCodec(field.type, w)
      BY <1>2, <2>2 DEF IsField, EncodeField
    <3>2. ReadAs(field.type, w, e, NoCodec(field.type, e))
      BY <3>1, ReadN
    <3> QED
      BY <2>2, <3>2 DEF ReadAs, FieldReadAs, DecodePresent, Regular
  <2> QED
    BY <2>1, <2>2
<1> QED
  BY <1>1, <1>2

\* An object is read as the fields that were written.
LEMMA FieldsRead0 ==
  ASSUME NEW fields, AreRegular(fields), NEW v, HasFields(IsNothing, fields, v),
         NEW e \in EncodeFields(NoCodec, fields, v)
  PROVE  Is("object", e) /\ DecodeFields(NoCodec, fields, e) = {v}
<1> DEFINE written == [f \in WrittenFields(fields, v) |-> EncodeField(NoCodec, fields[f], v[f])]
<1>1. PICK map \in Combine(written) : e = Obj(map)
  BY DEF EncodeFields
<1>2. /\ DOMAIN map = WrittenFields(fields, v)
      /\ \A f \in WrittenFields(fields, v) : map[f] \in EncodeField(NoCodec, fields[f], v[f])
  BY CombineMember
<1>3. Is("object", e) /\ e.object = map
  BY <1>1 DEF Is, Obj
<1> DEFINE read == [f \in DOMAIN fields |-> IF f \in DOMAIN map
                                            THEN DecodePresent(NoCodec, fields[f], map[f])
                                            ELSE DecodeAbsent(fields[f])]
<1>4. ASSUME NEW f \in DOMAIN fields PROVE read[f] = {v[f]}
  BY <1>2, FieldReadN DEF HasFields, AreRegular, WrittenFields, FieldReadAs
<1>5. DOMAIN read = DOMAIN fields
  OBVIOUS
<1>6. v = [f \in DOMAIN fields |-> v[f]]
  BY DEF HasFields
<1>7. DecodeFields(NoCodec, fields, e) = Combine(read)
  BY <1>3 DEF DecodeFields
<1> HIDE DEF read
<1>8. Combine(read) = {v}
  BY <1>4, <1>5, <1>6, CombineSingletons
<1> QED
  BY <1>3, <1>7, <1>8

\* So is what is not a vector: a leaf, a struct, or one of the hand-written types.  Of a
\* BundleItem with a tx the first variant finds no hash.
LEMMA ItemRead0 ==
  ASSUME NEW type, NEW v, IsItem(IsNothing, type, v), NEW e \in EncodeItem(NoCodec, type, v)
  PROVE  ReadAs(type, v, e, DecodeItem(NoCodec, type, e))
<1>1. CASE Is("leaf", type)
  BY <1>1, LeafRead DEF IsItem, EncodeItem, DecodeItem, Is
<1>2. CASE Is("struct", type)
  <2>1. /\ AreRegular(Fields[type.struct]) /\ HasFields(IsNothing, Fields[type.struct], v)
        /\ e \in EncodeFields(NoCodec, Fields[type.struct], v)
    BY <1>2, FieldsRegular DEF IsItem, EncodeItem, Is
  <2>2. Is("object", e) /\ DecodeFields(NoCodec, Fields[type.struct], e) = {v}
    BY <2>1, FieldsRead0
  <2> QED
    BY <1>2, <2>2, ObjectsReadAs DEF DecodeItem, Is
<1>3. CASE Is("custom", type)
  <2>1. IsCustom(IsNothing, type.custom, v) /\ e \in EncodeCustom(NoCodec, type.custom, v)
    BY <1>3 DEF IsItem, EncodeItem, Is
  <2>2. DecodeItem(NoCodec, type, e) = DecodeCustom(NoCodec, type.custom, e)
    BY <1>3 DEF DecodeItem, Is
  <2>3. CASE type.custom = "BundleItem"
    <3>1. /\ v = [variant |-> v.variant, fields |-> v.fields]
          /\ v.variant \in DOMAIN BundleItem
          /\ HasFields(IsNothing, BundleItem[v.variant], v.fields)
          /\ e \in EncodeFields(NoCodec, BundleItem[v.variant], v.fields)
      BY <2>1, <2>3 DEF IsCustom, HasVariant, EncodeCustom
    <3>2. Is("object", e) /\ DecodeFields(NoCodec, BundleItem[v.variant], e) = {v.fields}
      BY <3>1, VariantsRegular, FieldsRead0
    <3>3. v.variant = 2 => DecodeFields(NoCodec, BundleItem[1], e) = {}
      <4> SUFFICES ASSUME v.variant = 2 PROVE DecodeFields(NoCodec, BundleItem[1], e) = {}
        OBVIOUS
      <4>1. PICK map : /\ e = Obj(map)
                         /\ map \in Combine([f \in WrittenFields(BundleItem[2], v.fields) |->
                                        EncodeField(NoCodec, BundleItem[2][f], v.fields[f])])
        BY <3>1 DEF EncodeFields
      <4>2. "hash" \notin DOMAIN map
        BY <4>1, CombineMember DEF WrittenFields, BundleItem
      <4> DEFINE read == [f \in DOMAIN BundleItem[1] |->
                            IF f \in DOMAIN map
                            THEN DecodePresent(NoCodec, BundleItem[1][f], map[f])
                            ELSE DecodeAbsent(BundleItem[1][f])]
      <4>3. "hash" \in DOMAIN read /\ read["hash"] = {}
        BY <4>2 DEF BundleItem, DecodeAbsent, Required
      <4>4. DecodeFields(NoCodec, BundleItem[1], e) = Combine(read)
        BY <3>2, <4>1 DEF DecodeFields, Obj
      <4> HIDE DEF read
      <4> QED
        BY <4>3, <4>4, CombineEmpty
    <3>4. DecodeBundleItem(DecodeVariants(NoCodec, BundleItem, e)) = {v}
      <4> DEFINE read == [k \in DOMAIN BundleItem |-> DecodeFields(NoCodec, BundleItem[k], e)]
      <4>1. /\ DOMAIN read = {1, 2}
            /\ read[v.variant] = {v.fields}
            /\ v.variant = 2 => read[1] = {}
        BY <3>1, <3>2, <3>3 DEF BundleItem
      <4>2. DecodeVariants(NoCodec, BundleItem, e) = read
        BY DEF DecodeVariants
      <4> HIDE DEF read
      <4> QED
        BY <3>1, <4>1, <4>2, FirstReadIs, v.variant \in {1, 2} DEF BundleItem
    <3> QED
      BY <1>3, <2>2, <2>3, <3>2, <3>4, ObjectsReadAs DEF DecodeCustom
  <2>4. CASE type.custom = "PrivacyHint"
    BY <1>3, <2>1, <2>2, <2>4, HintsRead, HintsReadAs
     DEF IsCustom, EncodeCustom, DecodeCustom
  <2>5. CASE type.custom = "ProtocolVersion"
    <3>1. v \in DOMAIN ProtocolVersion /\ e = Str(Text(ProtocolVersion[v]))
      BY <2>1, <2>5 DEF IsCustom, EncodeCustom
    <3>2. DecodeItem(NoCodec, type, e)
            = {w \in DOMAIN ProtocolVersion : e = Str(Text(ProtocolVersion[w]))}
      BY <2>2, <2>5 DEF DecodeCustom
    <3> QED
      BY <3>1, <3>2, VersionRead
  <2>6. CASE type.custom = "u256_numeric_string"
    <3>1. v \in Nat /\ e \in EncodeNumeric(v)
      BY <2>1, <2>6 DEF IsCustom, EncodeCustom
    <3>2. DecodeItem(NoCodec, type, e) = DecodeNumeric(e)
      BY <2>2, <2>6 DEF DecodeCustom
    <3> QED
      BY <1>3, <2>6, <3>1, <3>2, NumericRead DEF IsNumeric
  <2> QED
    BY <2>1, <2>3, <2>4, <2>5, <2>6 DEF IsCustom
<1> QED
  BY <1>1, <1>2, <1>3 DEF IsItem

\* So is every value of a type.
LEMMA Read0 ==
  ASSUME NEW type, NEW v, Is0(type, v), NEW e \in Encode0(type, v)
  PROVE  ReadAs(type, v, e, Decode0(type, e))
<1>1. CASE Is("vec", type)
  <2>1. PICK s \in Combine([i \in DOMAIN v |-> EncodeItem(NoCodec, type.vec, v[i])]) : e = Arr(s)
    BY <1>1 DEF Encode0, EncodeLayer
  <2>2. DOMAIN s = DOMAIN v /\ \A i \in DOMAIN v : s[i] \in EncodeItem(NoCodec, type.vec, v[i])
    BY CombineMember
  <2>3. v = [i \in DOMAIN v |-> v[i]] /\ \A i \in DOMAIN v : IsItem(IsNothing, type.vec, v[i])
    BY <1>1 DEF Is0, IsLayer
  <2> DEFINE read == [i \in DOMAIN s |-> DecodeItem(NoCodec, type.vec, s[i])]
  <2>4. \A i \in DOMAIN v : read[i] = {v[i]}
    BY <2>2, <2>3, ItemRead0 DEF ReadAs
  <2>5. DOMAIN read = DOMAIN v
    BY <2>2
  <2>6. Decode0(type, e) = Combine(read)
    BY <1>1, <2>1 DEF Decode0, DecodeLayer, Is, Arr
  <2> HIDE DEF read
  <2>7. Combine(read) = {v}
    BY <2>3, <2>4, <2>5, CombineSingletons
  <2> QED
    BY <2>1, <2>6, <2>7 DEF ReadAs, Is, IsStr, Arr, Null
<1>2. CASE ~Is("vec", type)
  <2>1. IsItem(IsNothing, type, v) /\ e \in EncodeItem(NoCodec, type, v)
    BY <1>2 DEF Is0, Encode0, IsLayer, EncodeLayer
  <2>2. Decode0(type, e) = DecodeItem(NoCodec, type, e)
    BY <1>2 DEF Decode0, DecodeLayer
  <2> QED
    BY <2>1, <2>2, ItemRead0
<1> QED
  BY <1>1, <1>2

\* Preferences have their two fields.
LEMMA Preferences0 ==
  ASSUME NEW v, Is0(Preferences, v)
  PROVE  v = [f \in {"validity", "privacy"} |-> v[f]]
<1>1. Is("struct", Preferences) /\ ~Is("vec", Preferences)
      /\ ~Is("leaf", Preferences) /\ ~Is("custom", Preferences)
  BY DEF Preferences, Is, Struct
<1>2. v = [f \in DOMAIN Fields[Preferences.struct] |-> v[f]]
  BY <1>1 DEF Is0, IsLayer, IsItem, HasFields
<1>3. Fields[Preferences.struct] = PrivateTransactionPreferences
  BY DEF Preferences, Struct, Fields
<1> QED
  BY <1>2, <1>3 DEF PrivateTransactionPreferences

-----------------------------------------------------------------------------
(* Layer 1.                                                               *)

\* A field is read as it was written, a skipped one as its default.
LEMMA FieldRead0 ==
  ASSUME NEW field, Regular(field), NEW w, IsField(Is0, field, w)
  PROVE  /\ Skipped(field, w) => DecodeAbsent(field) = {w}
         /\ ~Skipped(field, w) =>
              \A e \in EncodeField(Encode0, field, w) :
                FieldReadAs(field, w, e, DecodePresent(Decode0, field, e))
<1>1. ASSUME Skipped(field, w) PROVE DecodeAbsent(field) = {w}
  <2>1. CASE w = <<>>
    BY <1>1, <2>1, EmptyPreferences, Preferences0
     DEF Skipped, DecodeAbsent, DefaultOf, Regular, IsField, Preferences
  <2>2. CASE w # <<>>
    <3>1. field.mode = "omitted" /\ field.type = Preferences /\ is_empty(w)
      BY <1>1, <2>2 DEF Skipped, Preferences
    <3> QED
      BY <3>1, EmptyPreferences, Preferences0
       DEF DecodeAbsent, DefaultOf, IsField, Preferences
  <2> QED
    BY <2>1, <2>2
<1>2. ASSUME ~Skipped(field, w), NEW e \in EncodeField(Encode0, field, w)
      PROVE  FieldReadAs(field, w, e, DecodePresent(Decode0, field, e))
  <2>1. CASE field.mode = "optional"
    <3>1. w = <<w[1]>> /\ Is0(field.type, w[1])
      BY <1>2, <2>1 DEF Skipped, IsField
    <3>2. e \in Encode0(field.type, w[1])
      BY <1>2, <2>1 DEF EncodeField
    <3>3. ReadAs(field.type, w[1], e, Decode0(field.type, e))
      BY <3>1, <3>2, Read0
    <3> QED
      BY <2>1, <3>1, <3>3 DEF ReadAs, FieldReadAs, DecodePresent, Regular
  <2>2. CASE field.mode # "optional"
    <3>1. Is0(field.type, w) /\ e \in Encode0(field.type, w)
      BY <1>2, <2>2 DEF IsField, EncodeField
    <3>2. ReadAs(field.type, w, e, Decode0(field.type, e))
      BY <3>1, Read0
    <3> QED
      BY <2>2, <3>2 DEF ReadAs, FieldReadAs, DecodePresent, Regular
  <2> QED
    BY <2>1, <2>2
<1> QED
  BY <1>1, <1>2

\* An object is read as the fields that were written.
LEMMA FieldsRead1 ==
  ASSUME NEW fields, AreRegular(fields), NEW v, HasFields(Is0, fields, v),
         NEW e \in EncodeFields(Encode0, fields, v)
  PROVE  Is("object", e) /\ DecodeFields(Decode0, fields, e) = {v}
<1> DEFINE written == [f \in WrittenFields(fields, v) |-> EncodeField(Encode0, fields[f], v[f])]
<1>1. PICK map \in Combine(written) : e = Obj(map)
  BY DEF EncodeFields
<1>2. /\ DOMAIN map = WrittenFields(fields, v)
      /\ \A f \in WrittenFields(fields, v) : map[f] \in EncodeField(Encode0, fields[f], v[f])
  BY CombineMember
<1>3. Is("object", e) /\ e.object = map
  BY <1>1 DEF Is, Obj
<1> DEFINE read == [f \in DOMAIN fields |-> IF f \in DOMAIN map
                                            THEN DecodePresent(Decode0, fields[f], map[f])
                                            ELSE DecodeAbsent(fields[f])]
<1>4. ASSUME NEW f \in DOMAIN fields PROVE read[f] = {v[f]}
  BY <1>2, FieldRead0 DEF HasFields, AreRegular, WrittenFields, FieldReadAs
<1>5. DOMAIN read = DOMAIN fields
  OBVIOUS
<1>6. v = [f \in DOMAIN fields |-> v[f]]
  BY DEF HasFields
<1>7. DecodeFields(Decode0, fields, e) = Combine(read)
  BY <1>3 DEF DecodeFields
<1> HIDE DEF read
<1>8. Combine(read) = {v}
  BY <1>4, <1>5, <1>6, CombineSingletons
<1> QED
  BY <1>3, <1>7, <1>8

\* So is what is not a vector: a leaf, a struct, or one of the hand-written types.  Of a
\* BundleItem with a tx the first variant finds no hash.
LEMMA ItemRead1 ==
  ASSUME NEW type, NEW v, IsItem(Is0, type, v), NEW e \in EncodeItem(Encode0, type, v)
  PROVE  ReadAs(type, v, e, DecodeItem(Decode0, type, e))
<1>1. CASE Is("leaf", type)
  BY <1>1, LeafRead DEF IsItem, EncodeItem, DecodeItem, Is
<1>2. CASE Is("struct", type)
  <2>1. /\ AreRegular(Fields[type.struct]) /\ HasFields(Is0, Fields[type.struct], v)
        /\ e \in EncodeFields(Encode0, Fields[type.struct], v)
    BY <1>2, FieldsRegular DEF IsItem, EncodeItem, Is
  <2>2. Is("object", e) /\ DecodeFields(Decode0, Fields[type.struct], e) = {v}
    BY <2>1, FieldsRead1
  <2> QED
    BY <1>2, <2>2, ObjectsReadAs DEF DecodeItem, Is
<1>3. CASE Is("custom", type)
  <2>1. IsCustom(Is0, type.custom, v) /\ e \in EncodeCustom(Encode0, type.custom, v)
    BY <1>3 DEF IsItem, EncodeItem, Is
  <2>2. DecodeItem(Decode0, type, e) = DecodeCustom(Decode0, type.custom, e)
    BY <1>3 DEF DecodeItem, Is
  <2>3. CASE type.custom = "BundleItem"
    <3>1. /\ v = [variant |-> v.variant, fields |-> v.fields]
          /\ v.variant \in DOMAIN BundleItem
          /\ HasFields(Is0, BundleItem[v.variant], v.fields)
          /\ e \in EncodeFields(Encode0, BundleItem[v.variant], v.fields)
      BY <2>1, <2>3 DEF IsCustom, HasVariant, EncodeCustom
    <3>2. Is("object", e) /\ DecodeFields(Decode0, BundleItem[v.variant], e) = {v.fields}
      BY <3>1, VariantsRegular, FieldsRead1
    <3>3. v.variant = 2 => DecodeFields(Decode0, BundleItem[1], e) = {}
      <4> SUFFICES ASSUME v.variant = 2 PROVE DecodeFields(Decode0, BundleItem[1], e) = {}
        OBVIOUS
      <4>1. PICK map : /\ e = Obj(map)
                         /\ map \in Combine([f \in WrittenFields(BundleItem[2], v.fields) |->
                                        EncodeField(Encode0, BundleItem[2][f], v.fields[f])])
        BY <3>1 DEF EncodeFields
      <4>2. "hash" \notin DOMAIN map
        BY <4>1, CombineMember DEF WrittenFields, BundleItem
      <4> DEFINE read == [f \in DOMAIN BundleItem[1] |->
                            IF f \in DOMAIN map
                            THEN DecodePresent(Decode0, BundleItem[1][f], map[f])
                            ELSE DecodeAbsent(BundleItem[1][f])]
      <4>3. "hash" \in DOMAIN read /\ read["hash"] = {}
        BY <4>2 DEF BundleItem, DecodeAbsent, Required
      <4>4. DecodeFields(Decode0, BundleItem[1], e) = Combine(read)
        BY <3>2, <4>1 DEF DecodeFields, Obj
      <4> HIDE DEF read
      <4> QED
        BY <4>3, <4>4, CombineEmpty
    <3>4. DecodeBundleItem(DecodeVariants(Decode0, BundleItem, e)) = {v}
      <4> DEFINE read == [k \in DOMAIN BundleItem |-> DecodeFields(Decode0, BundleItem[k], e)]
      <4>1. /\ DOMAIN read = {1, 2}
            /\ read[v.variant] = {v.fields}
            /\ v.variant = 2 => read[1] = {}
        BY <3>1, <3>2, <3>3 DEF BundleItem
      <4>2. DecodeVariants(Decode0, BundleItem, e) = read
        BY DEF DecodeVariants
      <4> HIDE DEF read
      <4> QED
        BY <3>1, <4>1, <4>2, FirstReadIs, v.variant \in {1, 2} DEF BundleItem
    <3> QED
      BY <1>3, <2>2, <2>3, <3>2, <3>4, ObjectsReadAs DEF DecodeCustom
  <2>4. CASE type.custom = "PrivacyHint"
    BY <1>3, <2>1, <2>2, <2>4, HintsRead, HintsReadAs
     DEF IsCustom, EncodeCustom, DecodeCustom
  <2>5. CASE type.custom = "ProtocolVersion"
    <3>1. v \in DOMAIN ProtocolVersion /\ e = Str(Text(ProtocolVersion[v]))
      BY <2>1, <2>5 DEF IsCustom, EncodeCustom
    <3>2. DecodeItem(Decode0, type, e)
            = {w \in DOMAIN ProtocolVersion : e = Str(Text(ProtocolVersion[w]))}
      BY <2>2, <2>5 DEF DecodeCustom
    <3> QED
      BY <3>1, <3>2, VersionRead
  <2>6. CASE type.custom = "u256_numeric_string"
    <3>1. v \in Nat /\ e \in EncodeNumeric(v)
      BY <2>1, <2>6 DEF IsCustom, EncodeCustom
    <3>2. DecodeItem(Decode0, type, e) = DecodeNumeric(e)
      BY <2>2, <2>6 DEF DecodeCustom
    <3> QED
      BY <1>3, <2>6, <3>1, <3>2, NumericRead DEF IsNumeric
  <2> QED
    BY <2>1, <2>3, <2>4, <2>5, <2>6 DEF IsCustom
<1> QED
  BY <1>1, <1>2, <1>3 DEF IsItem

\* So is every value of a type.
LEMMA Read1 ==
  ASSUME NEW type, NEW v, Is1(type, v), NEW e \in Encode1(type, v)
  PROVE  ReadAs(type, v, e, Decode1(type, e))
<1>1. CASE Is("vec", type)
  <2>1. PICK s \in Combine([i \in DOMAIN v |-> EncodeItem(Encode0, type.vec, v[i])]) : e = Arr(s)
    BY <1>1 DEF Encode1, EncodeLayer
  <2>2. DOMAIN s = DOMAIN v /\ \A i \in DOMAIN v : s[i] \in EncodeItem(Encode0, type.vec, v[i])
    BY CombineMember
  <2>3. v = [i \in DOMAIN v |-> v[i]] /\ \A i \in DOMAIN v : IsItem(Is0, type.vec, v[i])
    BY <1>1 DEF Is1, IsLayer
  <2> DEFINE read == [i \in DOMAIN s |-> DecodeItem(Decode0, type.vec, s[i])]
  <2>4. \A i \in DOMAIN v : read[i] = {v[i]}
    BY <2>2, <2>3, ItemRead1 DEF ReadAs
  <2>5. DOMAIN read = DOMAIN v
    BY <2>2
  <2>6. Decode1(type, e) = Combine(read)
    BY <1>1, <2>1 DEF Decode1, DecodeLayer, Is, Arr
  <2> HIDE DEF read
  <2>7. Combine(read) = {v}
    BY <2>3, <2>4, <2>5, CombineSingletons
  <2> QED
    BY <2>1, <2>6, <2>7 DEF ReadAs, Is, IsStr, Arr, Null
<1>2. CASE ~Is("vec", type)
  <2>1. IsItem(Is0, type, v) /\ e \in EncodeItem(Encode0, type, v)
    BY <1>2 DEF Is1, Encode1, IsLayer, EncodeLayer
  <2>2. Decode1(type, e) = DecodeItem(Decode0, type, e)
    BY <1>2 DEF Decode1, DecodeLayer
  <2> QED
    BY <2>1, <2>2, ItemRead1
<1> QED
  BY <1>1, <1>2

\* Preferences have their two fields.
LEMMA Preferences1 ==
  ASSUME NEW v, Is1(Preferences, v)
  PROVE  v = [f \in {"validity", "privacy"} |-> v[f]]
<1>1. Is("struct", Preferences) /\ ~Is("vec", Preferences)
      /\ ~Is("leaf", Preferences) /\ ~Is("custom", Preferences)
  BY DEF Preferences, Is, Struct
<1>2. v = [f \in DOMAIN Fields[Preferences.struct] |-> v[f]]
  BY <1>1 DEF Is1, IsLayer, IsItem, HasFields
<1>3. Fields[Preferences.struct] = PrivateTransactionPreferences
  BY DEF Preferences, Struct, Fields
<1> QED
  BY <1>2, <1>3 DEF PrivateTransactionPreferences

-----------------------------------------------------------------------------
(* Layer 2.                                                               *)

\* A field is read as it was written, a skipped one as its default.
LEMMA FieldRead1 ==
  ASSUME NEW field, Regular(field), NEW w, IsField(Is1, field, w)
  PROVE  /\ Skipped(field, w) => DecodeAbsent(field) = {w}
         /\ ~Skipped(field, w) =>
              \A e \in EncodeField(Encode1, field, w) :
                FieldReadAs(field, w, e, DecodePresent(Decode1, field, e))
<1>1. ASSUME Skipped(field, w) PROVE DecodeAbsent(field) = {w}
  <2>1. CASE w = <<>>
    BY <1>1, <2>1, EmptyPreferences, Preferences1
     DEF Skipped, DecodeAbsent, DefaultOf, Regular, IsField, Preferences
  <2>2. CASE w # <<>>
    <3>1. field.mode = "omitted" /\ field.type = Preferences /\ is_empty(w)
      BY <1>1, <2>2 DEF Skipped, Preferences
    <3> QED
      BY <3>1, EmptyPreferences, Preferences1
       DEF DecodeAbsent, DefaultOf, IsField, Preferences
  <2> QED
    BY <2>1, <2>2
<1>2. ASSUME ~Skipped(field, w), NEW e \in EncodeField(Encode1, field, w)
      PROVE  FieldReadAs(field, w, e, DecodePresent(Decode1, field, e))
  <2>1. CASE field.mode = "optional"
    <3>1. w = <<w[1]>> /\ Is1(field.type, w[1])
      BY <1>2, <2>1 DEF Skipped, IsField
    <3>2. e \in Encode1(field.type, w[1])
      BY <1>2, <2>1 DEF EncodeField
    <3>3. ReadAs(field.type, w[1], e, Decode1(field.type, e))
      BY <3>1, <3>2, Read1
    <3> QED
      BY <2>1, <3>1, <3>3 DEF ReadAs, FieldReadAs, DecodePresent, Regular
  <2>2. CASE field.mode # "optional"
    <3>1. Is1(field.type, w) /\ e \in Encode1(field.type, w)
      BY <1>2, <2>2 DEF IsField, EncodeField
    <3>2. ReadAs(field.type, w, e, Decode1(field.type, e))
      BY <3>1, Read1
    <3> QED
      BY <2>2, <3>2 DEF ReadAs, FieldReadAs, DecodePresent, Regular
  <2> QED
    BY <2>1, <2>2
<1> QED
  BY <1>1, <1>2

\* An object is read as the fields that were written.
LEMMA FieldsRead2 ==
  ASSUME NEW fields, AreRegular(fields), NEW v, HasFields(Is1, fields, v),
         NEW e \in EncodeFields(Encode1, fields, v)
  PROVE  Is("object", e) /\ DecodeFields(Decode1, fields, e) = {v}
<1> DEFINE written == [f \in WrittenFields(fields, v) |-> EncodeField(Encode1, fields[f], v[f])]
<1>1. PICK map \in Combine(written) : e = Obj(map)
  BY DEF EncodeFields
<1>2. /\ DOMAIN map = WrittenFields(fields, v)
      /\ \A f \in WrittenFields(fields, v) : map[f] \in EncodeField(Encode1, fields[f], v[f])
  BY CombineMember
<1>3. Is("object", e) /\ e.object = map
  BY <1>1 DEF Is, Obj
<1> DEFINE read == [f \in DOMAIN fields |-> IF f \in DOMAIN map
                                            THEN DecodePresent(Decode1, fields[f], map[f])
                                            ELSE DecodeAbsent(fields[f])]
<1>4. ASSUME NEW f \in DOMAIN fields PROVE read[f] = {v[f]}
  BY <1>2, FieldRead1 DEF HasFields, AreRegular, WrittenFields, FieldReadAs
<1>5. DOMAIN read = DOMAIN fields
  OBVIOUS
<1>6. v = [f \in DOMAIN fields |-> v[f]]
  BY DEF HasFields
<1>7. DecodeFields(Decode1, fields, e) = Combine(read)
  BY <1>3 DEF DecodeFields
<1> HIDE DEF read
<1>8. Combine(read) = {v}
  BY <1>4, <1>5, <1>6, CombineSingletons
<1> QED
  BY <1>3, <1>7, <1>8

\* So is what is not a vector: a leaf, a struct, or one of the hand-written types.  Of a
\* BundleItem with a tx the first variant finds no hash.
LEMMA ItemRead2 ==
  ASSUME NEW type, NEW v, IsItem(Is1, type, v), NEW e \in EncodeItem(Encode1, type, v)
  PROVE  ReadAs(type, v, e, DecodeItem(Decode1, type, e))
<1>1. CASE Is("leaf", type)
  BY <1>1, LeafRead DEF IsItem, EncodeItem, DecodeItem, Is
<1>2. CASE Is("struct", type)
  <2>1. /\ AreRegular(Fields[type.struct]) /\ HasFields(Is1, Fields[type.struct], v)
        /\ e \in EncodeFields(Encode1, Fields[type.struct], v)
    BY <1>2, FieldsRegular DEF IsItem, EncodeItem, Is
  <2>2. Is("object", e) /\ DecodeFields(Decode1, Fields[type.struct], e) = {v}
    BY <2>1, FieldsRead2
  <2> QED
    BY <1>2, <2>2, ObjectsReadAs DEF DecodeItem, Is
<1>3. CASE Is("custom", type)
  <2>1. IsCustom(Is1, type.custom, v) /\ e \in EncodeCustom(Encode1, type.custom, v)
    BY <1>3 DEF IsItem, EncodeItem, Is
  <2>2. DecodeItem(Decode1, type, e) = DecodeCustom(Decode1, type.custom, e)
    BY <1>3 DEF DecodeItem, Is
  <2>3. CASE type.custom = "BundleItem"
    <3>1. /\ v = [variant |-> v.variant, fields |-> v.fields]
          /\ v.variant \in DOMAIN BundleItem
          /\ HasFields(Is1, BundleItem[v.variant], v.fields)
          /\ e \in EncodeFields(Encode1, BundleItem[v.variant], v.fields)
      BY <2>1, <2>3 DEF IsCustom, HasVariant, EncodeCustom
    <3>2. Is("object", e) /\ DecodeFields(Decode1, BundleItem[v.variant], e) = {v.fields}
      BY <3>1, VariantsRegular, FieldsRead2
    <3>3. v.variant = 2 => DecodeFields(Decode1, BundleItem[1], e) = {}
      <4> SUFFICES ASSUME v.variant = 2 PROVE DecodeFields(Decode1, BundleItem[1], e) = {}
        OBVIOUS
      <4>1. PICK map : /\ e = Obj(map)
                         /\ map \in Combine([f \in WrittenFields(BundleItem[2], v.fields) |->
                                        EncodeField(Encode1, BundleItem[2][f], v.fields[f])])
        BY <3>1 DEF EncodeFields
      <4>2. "hash" \notin DOMAIN map
        BY <4>1, CombineMember DEF WrittenFields, BundleItem
      <4> DEFINE read == [f \in DOMAIN BundleItem[1] |->
                            IF f \in DOMAIN map
                            THEN DecodePresent(Decode1, BundleItem[1][f], map[f])
                            ELSE DecodeAbsent(BundleItem[1][f])]
      <4>3. "hash" \in DOMAIN read /\ read["hash"] = {}
        BY <4>2 DEF BundleItem, DecodeAbsent, Required
      <4>4. DecodeFields(Decode1, BundleItem[1], e) = Combine(read)
        BY <3>2, <4>1 DEF DecodeFields, Obj
      <4> HIDE DEF read
      <4> QED
        BY <4>3, <4>4, CombineEmpty
    <3>4. DecodeBundleItem(DecodeVariants(Decode1, BundleItem, e)) = {v}
      <4> DEFINE read == [k \in DOMAIN BundleItem |-> DecodeFields(Decode1, BundleItem[k], e)]
      <4>1. /\ DOMAIN read = {1, 2}
            /\ read[v.variant] = {v.fields}
            /\ v.variant = 2 => read[1] = {}
        BY <3>1, <3>2, <3>3 DEF BundleItem
      <4>2. DecodeVariants(Decode1, BundleItem, e) = read
        BY DEF DecodeVariants
      <4> HIDE DEF read
      <4> QED
        BY <3>1, <4>1, <4>2, FirstReadIs, v.variant \in {1, 2} DEF BundleItem
    <3> QED
      BY <1>3, <2>2, <2>3, <3>2, <3>4, ObjectsReadAs DEF DecodeCustom
  <2>4. CASE type.custom = "PrivacyHint"
    BY <1>3, <2>1, <2>2, <2>4, HintsRead, HintsReadAs
     DEF IsCustom, EncodeCustom, DecodeCustom
  <2>5. CASE type.custom = "ProtocolVersion"
    <3>1. v \in DOMAIN ProtocolVersion /\ e = Str(Text(ProtocolVersion[v]))
      BY <2>1, <2>5 DEF IsCustom, EncodeCustom
    <3>2. DecodeItem(Decode1, type, e)
            = {w \in DOMAIN ProtocolVersion : e = Str(Text(ProtocolVersion[w]))}
      BY <2>2, <2>5 DEF DecodeCustom
    <3> QED
      BY <3>1, <3>2, VersionRead
  <2>6. CASE type.custom = "u256_numeric_string"
    <3>1. v \in Nat /\ e \in EncodeNumeric(v)
      BY <2>1, <2>6 DEF IsCustom, EncodeCustom
    <3>2. DecodeItem(Decode1, type, e) = DecodeNumeric(e)
      BY <2>2, <2>6 DEF DecodeCustom
    <3> QED
      BY <1>3, <2>6, <3>1, <3>2, NumericRead DEF IsNumeric
  <2> QED
    BY <2>1, <2>3, <2>4, <2>5, <2>6 DEF IsCustom
<1> QED
  BY <1>1, <1>2, <1>3 DEF IsItem

\* So is every value of a type.
LEMMA Read2 ==
  ASSUME NEW type, NEW v, Is2(type, v), NEW e \in Encode2(type, v)
  PROVE  ReadAs(type, v, e, Decode2(type, e))
<1>1. CASE Is("vec", type)
  <2>1. PICK s \in Combine([i \in DOMAIN v |-> EncodeItem(Encode1, type.vec, v[i])]) : e = Arr(s)
    BY <1>1 DEF Encode2, EncodeLayer
  <2>2. DOMAIN s = DOMAIN v /\ \A i \in DOMAIN v : s[i] \in EncodeItem(Encode1, type.vec, v[i])
    BY CombineMember
  <2>3. v = [i \in DOMAIN v |-> v[i]] /\ \A i \in DOMAIN v : IsItem(Is1, type.vec, v[i])
    BY <1>1 DEF Is2, IsLayer
  <2> DEFINE read == [i \in DOMAIN s |-> DecodeItem(Decode1, type.vec, s[i])]
  <2>4. \A i \in DOMAIN v : read[i] = {v[i]}
    BY <2>2, <2>3, ItemRead2 DEF ReadAs
  <2>5. DOMAIN read = DOMAIN v
    BY <2>2
  <2>6. Decode2(type, e) = Combine(read)
    BY <1>1, <2>1 DEF Decode2, DecodeLayer, Is, Arr
  <2> HIDE DEF read
  <2>7. Combine(read) = {v}
    BY <2>3, <2>4, <2>5, CombineSingletons
  <2> QED
    BY <2>1, <2>6, <2>7 DEF ReadAs, Is, IsStr, Arr, Null
<1>2. CASE ~Is("vec", type)
  <2>1. IsItem(Is1, type, v) /\ e \in EncodeItem(Encode1, type, v)
    BY <1>2 DEF Is2, Encode2, IsLayer, EncodeLayer
  <2>2. Decode2(type, e) = DecodeItem(Decode1, type, e)
    BY <1>2 DEF Decode2, DecodeLayer
  <2> QED
    BY <2>1, <2>2, ItemRead2
<1> QED
  BY <1>1, <1>2

\* Preferences have their two fields.
LEMMA Preferences2 ==
  ASSUME NEW v, Is2(Preferences, v)
  PROVE  v = [f \in {"validity", "privacy"} |-> v[f]]
<1>1. Is("struct", Preferences) /\ ~Is("vec", Preferences)
      /\ ~Is("leaf", Preferences) /\ ~Is("custom", Preferences)
  BY DEF Preferences, Is, Struct
<1>2. v = [f \in DOMAIN Fields[Preferences.struct] |-> v[f]]
  BY <1>1 DEF Is2, IsLayer, IsItem, HasFields
<1>3. Fields[Preferences.struct] = PrivateTransactionPreferences
  BY DEF Preferences, Struct, Fields
<1> QED
  BY <1>2, <1>3 DEF PrivateTransactionPreferences

-----------------------------------------------------------------------------
(* Layer 3.                                                               *)

\* A field is read as it was written, a skipped one as its default.
LEMMA FieldRead2 ==
  ASSUME NEW field, Regular(field), NEW w, IsField(Is2, field, w)
  PROVE  /\ Skipped(field, w) => DecodeAbsent(field) = {w}
         /\ ~Skipped(field, w) =>
              \A e \in EncodeField(Encode2, field, w) :
                FieldReadAs(field, w, e, DecodePresent(Decode2, field, e))
<1>1. ASSUME Skipped(field, w) PROVE DecodeAbsent(field) = {w}
  <2>1. CASE w = <<>>
    BY <1>1, <2>1, EmptyPreferences, Preferences2
     DEF Skipped, DecodeAbsent, DefaultOf, Regular, IsField, Preferences
  <2>2. CASE w # <<>>
    <3>1. field.mode = "omitted" /\ field.type = Preferences /\ is_empty(w)
      BY <1>1, <2>2 DEF Skipped, Preferences
    <3> QED
      BY <3>1, EmptyPreferences, Preferences2
       DEF DecodeAbsent, DefaultOf, IsField, Preferences
  <2> QED
    BY <2>1, <2>2
<1>2. ASSUME ~Skipped(field, w), NEW e \in EncodeField(Encode2, field, w)
      PROVE  FieldReadAs(field, w, e, DecodePresent(Decode2, field, e))
  <2>1. CASE field.mode = "optional"
    <3>1. w = <<w[1]>> /\ Is2(field.type, w[1])
      BY <1>2, <2>1 DEF Skipped, IsField
    <3>2. e \in Encode2(field.type, w[1])
      BY <1>2, <2>1 DEF EncodeField
    <3>3. ReadAs(field.type, w[1], e, Decode2(field.type, e))
      BY <3>1, <3>2, Read2
    <3> QED
      BY <2>1, <3>1, <3>3 DEF ReadAs, FieldReadAs, DecodePresent, Regular
  <2>2. CASE field.mode # "optional"
    <3>1. Is2(field.type, w) /\ e \in Encode2(field.type, w)
      BY <1>2, <2>2 DEF IsField, EncodeField
    <3>2. ReadAs(field.type, w, e, Decode2(field.type, e))
      BY <3>1, Read2
    <3> QED
      BY <2>2, <3>2 DEF ReadAs, FieldReadAs, DecodePresent, Regular
  <2> QED
    BY <2>1, <2>2
<1> QED
  BY <1>1, <1>2

\* An object is read as the fields that were written.
LEMMA FieldsRead3 ==
  ASSUME NEW fields, AreRegular(fields), NEW v, HasFields(Is2, fields, v),
         NEW e \in EncodeFields(Encode2, fields, v)
  PROVE  Is("object", e) /\ DecodeFields(Decode2, fields, e) = {v}
<1> DEFINE written == [f \in WrittenFields(fields, v) |-> EncodeField(Encode2, fields[f], v[f])]
<1>1. PICK map \in Combine(written) : e = Obj(map)
  BY DEF EncodeFields
<1>2. /\ DOMAIN map = WrittenFields(fields, v)
      /\ \A f \in WrittenFields(fields, v) : map[f] \in EncodeField(Encode2, fields[f], v[f])
  BY CombineMember
<1>3. Is("object", e) /\ e.object = map
  BY <1>1 DEF Is, Obj
<1> DEFINE read == [f \in DOMAIN fields |-> IF f \in DOMAIN map
                                            THEN DecodePresent(Decode2, fields[f], map[f])
                                            ELSE DecodeAbsent(fields[f])]
<1>4. ASSUME NEW f \in DOMAIN fields PROVE read[f] = {v[f]}
  BY <1>2, FieldRead2 DEF HasFields, AreRegular, WrittenFields, FieldReadAs
<1>5. DOMAIN read = DOMAIN fields
  OBVIOUS
<1>6. v = [f \in DOMAIN fields |-> v[f]]
  BY DEF HasFields
<1>7. DecodeFields(Decode2, fields, e) = Combine(read)
  BY <1>3 DEF DecodeFields
<1> HIDE DEF read
<1>8. Combine(read) = {v}
  BY <1>4, <1>5, <1>6, CombineSingletons
<1> QED
  BY <1>3, <1>7, <1>8

\* So is what is not a vector: a leaf, a struct, or one of the hand-written types.  Of a
\* BundleItem with a tx the first variant finds no hash.
LEMMA ItemRead3 ==
  ASSUME NEW type, NEW v, IsItem(Is2, type, v), NEW e \in EncodeItem(Encode2, type, v)
  PROVE  ReadAs(type, v, e, DecodeItem(Decode2, type, e))
<1>1. CASE Is("leaf", type)
  BY <1>1, LeafRead DEF IsItem, EncodeItem, DecodeItem, Is
<1>2. CASE Is("struct", type)
  <2>1. /\ AreRegular(Fields[type.struct]) /\ HasFields(Is2, Fields[type.struct], v)
        /\ e \in EncodeFields(Encode2, Fields[type.struct], v)
    BY <1>2, FieldsRegular DEF IsItem, EncodeItem, Is
  <2>2. Is("object", e) /\ DecodeFields(Decode2, Fields[type.struct], e) = {v}
    BY <2>1, FieldsRead3
  <2> QED
    BY <1>2, <2>2, ObjectsReadAs DEF DecodeItem, Is
<1>3. CASE Is("custom", type)
  <2>1. IsCustom(Is2, type.custom, v) /\ e \in EncodeCustom(Encode2, type.custom, v)
    BY <1>3 DEF IsItem, EncodeItem, Is
  <2>2. DecodeItem(Decode2, type, e) = DecodeCustom(Decode2, type.custom, e)
    BY <1>3 DEF DecodeItem, Is
  <2>3. CASE type.custom = "BundleItem"
    <3>1. /\ v = [variant |-> v.variant, fields |-> v.fields]
          /\ v.variant \in DOMAIN BundleItem
          /\ HasFields(Is2, BundleItem[v.variant], v.fields)
          /\ e \in EncodeFields(Encode2, BundleItem[v.variant], v.fields)
      BY <2>1, <2>3 DEF IsCustom, HasVariant, EncodeCustom
    <3>2. Is("object", e) /\ DecodeFields(Decode2, BundleItem[v.variant], e) = {v.fields}
      BY <3>1, VariantsRegular, FieldsRead3
    <3>3. v.variant = 2 => DecodeFields(Decode2, BundleItem[1], e) = {}
      <4> SUFFICES ASSUME v.variant = 2 PROVE DecodeFields(Decode2, BundleItem[1], e) = {}
        OBVIOUS
      <4>1. PICK map : /\ e = Obj(map)
                         /\ map \in Combine([f \in WrittenFields(BundleItem[2], v.fields) |->
                                        EncodeField(Encode2, BundleItem[2][f], v.fields[f])])
        BY <3>1 DEF EncodeFields
      <4>2. "hash" \notin DOMAIN map
        BY <4>1, CombineMember DEF WrittenFields, BundleItem
      <4> DEFINE read == [f \in DOMAIN BundleItem[1] |->
                            IF f \in DOMAIN map
                            THEN DecodePresent(Decode2, BundleItem[1][f], map[f])
                            ELSE DecodeAbsent(BundleItem[1][f])]
      <4>3. "hash" \in DOMAIN read /\ read["hash"] = {}
        BY <4>2 DEF BundleItem, DecodeAbsent, Required
      <4>4. DecodeFields(Decode2, BundleItem[1], e) = Combine(read)
        BY <3>2, <4>1 DEF DecodeFields, Obj
      <4> HIDE DEF read
      <4> QED
        BY <4>3, <4>4, CombineEmpty
    <3>4. DecodeBundleItem(DecodeVariants(Decode2, BundleItem, e)) = {v}
      <4> DEFINE read == [k \in DOMAIN BundleItem |-> DecodeFields(Decode2, BundleItem[k], e)]
      <4>1. /\ DOMAIN read = {1, 2}
            /\ read[v.variant] = {v.fields}
            /\ v.variant = 2 => read[1] = {}
        BY <3>1, <3>2, <3>3 DEF BundleItem
      <4>2. DecodeVariants(Decode2, BundleItem, e) = read
        BY DEF DecodeVariants
      <4> HIDE DEF read
      <4> QED
        BY <3>1, <4>1, <4>2, FirstReadIs, v.variant \in {1, 2} DEF BundleItem
    <3> QED
      BY <1>3, <2>2, <2>3, <3>2, <3>4, ObjectsReadAs DEF DecodeCustom
  <2>4. CASE type.custom = "PrivacyHint"
    BY <1>3, <2>1, <2>2, <2>4, HintsRead, HintsReadAs
     DEF IsCustom, EncodeCustom, DecodeCustom
  <2>5. CASE type.custom = "ProtocolVersion"
    <3>1. v \in DOMAIN ProtocolVersion /\ e = Str(Text(ProtocolVersion[v]))
      BY <2>1, <2>5 DEF IsCustom, EncodeCustom
    <3>2. DecodeItem(Decode2, type, e)
            = {w \in DOMAIN ProtocolVersion : e = Str(Text(ProtocolVersion[w]))}
      BY <2>2, <2>5 DEF DecodeCustom
    <3> QED
      BY <3>1, <3>2, VersionRead
  <2>6. CASE type.custom = "u256_numeric_string"
    <3>1. v \in Nat /\ e \in EncodeNumeric(v)
      BY <2>1, <2>6 DEF IsCustom, EncodeCustom
    <3>2. DecodeItem(Decode2, type, e) = DecodeNumeric(e)
      BY <2>2, <2>6 DEF DecodeCustom
    <3> QED
      BY <1>3, <2>6, <3>1, <3>2, NumericRead DEF IsNumeric
  <2> QED
    BY <2>1, <2>3, <2>4, <2>5, <2>6 DEF IsCustom
<1> QED
  BY <1>1, <1>2, <1>3 DEF IsItem

\* So is every value of a type.
LEMMA Read3 ==
  ASSUME NEW type, NEW v, Is3(type, v), NEW e \in Encode3(type, v)
  PROVE  ReadAs(type, v, e, Decode3(type, e))
<1>1. CASE Is("vec", type)
  <2>1. PICK s \in Combine([i \in DOMAIN v |-> EncodeItem(Encode2, type.vec, v[i])]) : e = Arr(s)
    BY <1>1 DEF Encode3, EncodeLayer
  <2>2. DOMAIN s = DOMAIN v /\ \A i \in DOMAIN v : s[i] \in EncodeItem(Encode2, type.vec, v[i])
    BY CombineMember
  <2>3. v = [i \in DOMAIN v |-> v[i]] /\ \A i \in DOMAIN v : IsItem(Is2, type.vec, v[i])
    BY <1>1 DEF Is3, IsLayer
  <2> DEFINE read == [i \in DOMAIN s |-> DecodeItem(Decode2, type.vec, s[i])]
  <2>4. \A i \in DOMAIN v : read[i] = {v[i]}
    BY <2>2, <2>3, ItemRead3 DEF ReadAs
  <2>5. DOMAIN read = DOMAIN v
    BY <2>2
  <2>6. Decode3(type, e) = Combine(read)
    BY <1>1, <2>1 DEF Decode3, DecodeLayer, Is, Arr
  <2> HIDE DEF read
  <2>7. Combine(read) = {v}
    BY <2>3, <2>4, <2>5, CombineSingletons
  <2> QED
    BY <2>1, <2>6, <2>7 DEF ReadAs, Is, IsStr, Arr, Null
<1>2. CASE ~Is("vec", type)
  <2>1. IsItem(Is2, type, v) /\ e \in EncodeItem(Encode2, type, v)
    BY <1>2 DEF Is3, Encode3, IsLayer, EncodeLayer
  <2>2. Decode3(type, e) = DecodeItem(Decode2, type, e)
    BY <1>2 DEF Decode3, DecodeLayer
  <2> QED
    BY <2>1, <2>2, ItemRead3
<1> QED
  BY <1>1, <1>2

\* Preferences have their two fields.
LEMMA Preferences3 ==
  ASSUME NEW v, Is3(Preferences, v)
  PROVE  v = [f \in {"validity", "privacy"} |-> v[f]]
<1>1. Is("struct", Preferences) /\ ~Is("vec", Preferences)
      /\ ~Is("leaf", Preferences) /\ ~Is("custom", Preferences)
  BY DEF Preferences, Is, Struct
<1>2. v = [f \in DOMAIN Fields[Preferences.struct] |-> v[f]]
  BY <1>1 DEF Is3, IsLayer, IsItem, HasFields
<1>3. Fields[Preferences.struct] = PrivateTransactionPreferences
  BY DEF Preferences, Struct, Fields
<1> QED
  BY <1>2, <1>3 DEF PrivateTransactionPreferences

-----------------------------------------------------------------------------
(* Layer 4.                                                               *)

\* A field is read as it was written, a skipped one as its default.
LEMMA FieldRead3 ==
  ASSUME NEW field, Regular(field), NEW w, IsField(Is3, field, w)
  PROVE  /\ Skipped(field, w) => DecodeAbsent(field) = {w}
         /\ ~Skipped(field, w) =>
              \A e \in EncodeField(Encode3, field, w) :
                FieldReadAs(field, w, e, DecodePresent(Decode3, field, e))
<1>1. ASSUME Skipped(field, w) PROVE DecodeAbsent(field) = {w}
  <2>1. CASE w = <<>>
    BY <1>1, <2>1, EmptyPreferences, Preferences3
     DEF Skipped, DecodeAbsent, DefaultOf, Regular, IsField, Preferences
  <2>2. CASE w # <<>>
    <3>1. field.mode = "omitted" /\ field.type = Preferences /\ is_empty(w)
      BY <1>1, <2>2 DEF Skipped, Preferences
    <3> QED
      BY <3>1, EmptyPreferences, Preferences3
       DEF DecodeAbsent, DefaultOf, IsField, Preferences
  <2> QED
    BY <2>1, <2>2
<1>2. ASSUME ~Skipped(field, w), NEW e \in EncodeField(Encode3, field, w)
      PROVE  FieldReadAs(field, w, e, DecodePresent(Decode3, field, e))
  <2>1. CASE field.mode = "optional"
    <3>1. w = <<w[1]>> /\ Is3(field.type, w[1])
      BY <1>2, <2>1 DEF Skipped, IsField
    <3>2. e \in Encode3(field.type, w[1])
      BY <1>2, <2>1 DEF EncodeField
    <3>3. ReadAs(field.type, w[1], e, Decode3(field.type, e))
      BY <3>1, <3>2, Read3
    <3> QED
      BY <2>1, <3>1, <3>3 DEF ReadAs, FieldReadAs, DecodePresent, Regular
  <2>2. CASE field.mode # "optional"
    <3>1. Is3(field.type, w) /\ e \in Encode3(field.type, w)
      BY <1>2, <2>2 DEF IsField, EncodeField
    <3>2. ReadAs(field.type, w, e, Decode3(field.type, e))
      BY <3>1, Read3
    <3> QED
      BY <2>2, <3>2 DEF ReadAs, FieldReadAs, DecodePresent, Regular
  <2> QED
    BY <2>1, <2>2
<1> QED
  BY <1>1, <1>2

\* An object is read as the fields that were written.
LEMMA FieldsRead4 ==
  ASSUME NEW fields, AreRegular(fields), NEW v, HasFields(Is3, fields, v),
         NEW e \in EncodeFields(Encode3, fields, v)
  PROVE  Is("object", e) /\ DecodeFields(Decode3, fields, e) = {v}
<1> DEFINE written == [f \in WrittenFields(fields, v) |-> EncodeField(Encode3, fields[f], v[f])]
<1>1. PICK map \in Combine(written) : e = Obj(map)
  BY DEF EncodeFields
<1>2. /\ DOMAIN map = WrittenFields(fields, v)
      /\ \A f \in WrittenFields(fields, v) : map[f] \in EncodeField(Encode3, fields[f], v[f])
  BY CombineMember
<1>3. Is("object", e) /\ e.object = map
  BY <1>1 DEF Is, Obj
<1> DEFINE read == [f \in DOMAIN fields |-> IF f \in DOMAIN map
                                            THEN DecodePresent(Decode3, fields[f], map[f])
                                            ELSE DecodeAbsent(fields[f])]
<1>4. ASSUME NEW f \in DOMAIN fields PROVE read[f] = {v[f]}
  BY <1>2, FieldRead3 DEF HasFields, AreRegular, WrittenFields, FieldReadAs
<1>5. DOMAIN read = DOMAIN fields
  OBVIOUS
<1>6. v = [f \in DOMAIN fields |-> v[f]]
  BY DEF HasFields
<1>7. DecodeFields(Decode3, fields, e) = Combine(read)
  BY <1>3 DEF DecodeFields
<1> HIDE DEF read
<1>8. Combine(read) = {v}
  BY <1>4, <1>5, <1>6, CombineSingletons
<1> QED
  BY <1>3, <1>7, <1>8

\* So is what is not a vector: a leaf, a struct, or one of the hand-written types.  Of a
\* BundleItem with a tx the first variant finds no hash.
LEMMA ItemRead4 ==
  ASSUME NEW type, NEW v, IsItem(Is3, type, v), NEW e \in EncodeItem(Encode3, type, v)
  PROVE  ReadAs(type, v, e, DecodeItem(Decode3, type, e))
<1>1. CASE Is("leaf", type)
  BY <1>1, LeafRead DEF IsItem, EncodeItem, DecodeItem, Is
<1>2. CASE Is("struct", type)
  <2>1. /\ AreRegular(Fields[type.struct]) /\ HasFields(Is3, Fields[type.struct], v)
        /\ e \in EncodeFields(Encode3, Fields[type.struct], v)
    BY <1>2, FieldsRegular DEF IsItem, EncodeItem, Is
  <2>2. Is("object", e) /\ DecodeFields(Decode3, Fields[type.struct], e) = {v}
    BY <2>1, FieldsRead4
  <2> QED
    BY <1>2, <2>2, ObjectsReadAs DEF DecodeItem, Is
<1>3. CASE Is("custom", type)
  <2>1. IsCustom(Is3, type.custom, v) /\ e \in EncodeCustom(Encode3, type.custom, v)
    BY <1>3 DEF IsItem, EncodeItem, Is
  <2>2. DecodeItem(Decode3, type, e) = DecodeCustom(Decode3, type.custom, e)
    BY <1>3 DEF DecodeItem, Is
  <2>3. CASE type.custom = "BundleItem"
    <3>1. /\ v = [variant |-> v.variant, fields |-> v.fields]
          /\ v.variant \in DOMAIN BundleItem
          /\ HasFields(Is3, BundleItem[v.variant], v.fields)
          /\ e \in EncodeFields(Encode3, BundleItem[v.variant], v.fields)
      BY <2>1, <2>3 DEF IsCustom, HasVariant, EncodeCustom
    <3>2. Is("object", e) /\ DecodeFields(Decode3, BundleItem[v.variant], e) = {v.fields}
      BY <3>1, VariantsRegular, FieldsRead4
    <3>3. v.variant = 2 => DecodeFields(Decode3, BundleItem[1], e) = {}
      <4> SUFFICES ASSUME v.variant = 2 PROVE DecodeFields(Decode3, BundleItem[1], e) = {}
        OBVIOUS
      <4>1. PICK map : /\ e = Obj(map)
                         /\ map \in Combine([f \in WrittenFields(BundleItem[2], v.fields) |->
                                        EncodeField(Encode3, BundleItem[2][f], v.fields[f])])
        BY <3>1 DEF EncodeFields
      <4>2. "hash" \notin DOMAIN map
        BY <4>1, CombineMember DEF WrittenFields, BundleItem
      <4> DEFINE read == [f \in DOMAIN BundleItem[1] |->
                            IF f \in DOMAIN map
                            THEN DecodePresent(Decode3, BundleItem[1][f], map[f])
                            ELSE DecodeAbsent(BundleItem[1][f])]
      <4>3. "hash" \in DOMAIN read /\ read["hash"] = {}
        BY <4>2 DEF BundleItem, DecodeAbsent, Required
      <4>4. DecodeFields(Decode3, BundleItem[1], e) = Combine(read)
        BY <3>2, <4>1 DEF DecodeFields, Obj
      <4> HIDE DEF read
      <4> QED
        BY <4>3, <4>4, CombineEmpty
    <3>4. DecodeBundleItem(DecodeVariants(Decode3, BundleItem, e)) = {v}
      <4> DEFINE read == [k \in DOMAIN BundleItem |-> DecodeFields(Decode3, BundleItem[k], e)]
      <4>1. /\ DOMAIN read = {1, 2}
            /\ read[v.variant] = {v.fields}
            /\ v.variant = 2 => read[1] = {}
        BY <3>1, <3>2, <3>3 DEF BundleItem
      <4>2. DecodeVariants(Decode3, BundleItem, e) = read
        BY DEF DecodeVariants
      <4> HIDE DEF read
      <4> QED
        BY <3>1, <4>1, <4>2, FirstReadIs, v.variant \in {1, 2} DEF BundleItem
    <3> QED
      BY <1>3, <2>2, <2>3, <3>2, <3>4, ObjectsReadAs DEF DecodeCustom
  <2>4. CASE type.custom = "PrivacyHint"
    BY <1>3, <2>1, <2>2, <2>4, HintsRead, HintsReadAs
     DEF IsCustom, EncodeCustom, DecodeCustom
  <2>5. CASE type.custom = "ProtocolVersion"
    <3>1. v \in DOMAIN ProtocolVersion /\ e = Str(Text(ProtocolVersion[v]))
      BY <2>1, <2>5 DEF IsCustom, EncodeCustom
    <3>2. DecodeItem(Decode3, type, e)
            = {w \in DOMAIN ProtocolVersion : e = Str(Text(ProtocolVersion[w]))}
      BY <2>2, <2>5 DEF DecodeCustom
    <3> QED
      BY <3>1, <3>2, VersionRead
  <2>6. CASE type.custom = "u256_numeric_string"
    <3>1. v \in Nat /\ e \in EncodeNumeric(v)
      BY <2>1, <2>6 DEF IsCustom, EncodeCustom
    <3>2. DecodeItem(Decode3, type, e) = DecodeNumeric(e)
      BY <2>2, <2>6 DEF DecodeCustom
    <3> QED
      BY <1>3, <2>6, <3>1, <3>2, NumericRead DEF IsNumeric
  <2> QED
    BY <2>1, <2>3, <2>4, <2>5, <2>6 DEF IsCustom
<1> QED
  BY <1>1, <1>2, <1>3 DEF IsItem

\* So is every value of a type.
LEMMA Read4 ==
  ASSUME NEW type, NEW v, Is4(type, v), NEW e \in Encode(type, v)
  PROVE  ReadAs(type, v, e, Decode(type, e))
<1>1. CASE Is("vec", type)
  <2>1. PICK s \in Combine([i \in DOMAIN v |-> EncodeItem(Encode3, type.vec, v[i])]) : e = Arr(s)
    BY <1>1 DEF Encode, EncodeLayer
  <2>2. DOMAIN s = DOMAIN v /\ \A i \in DOMAIN v : s[i] \in EncodeItem(Encode3, type.vec, v[i])
    BY CombineMember
  <2>3. v = [i \in DOMAIN v |-> v[i]] /\ \A i \in DOMAIN v : IsItem(Is3, type.vec, v[i])
    BY <1>1 DEF Is4, IsLayer
  <2> DEFINE read == [i \in DOMAIN s |-> DecodeItem(Decode3, type.vec, s[i])]
  <2>4. \A i \in DOMAIN v : read[i] = {v[i]}
    BY <2>2, <2>3, ItemRead4 DEF ReadAs
  <2>5. DOMAIN read = DOMAIN v
    BY <2>2
  <2>6. Decode(type, e) = Combine(read)
    BY <1>1, <2>1 DEF Decode, DecodeLayer, Is, Arr
  <2> HIDE DEF read
  <2>7. Combine(read) = {v}
    BY <2>3, <2>4, <2>5, CombineSingletons
  <2> QED
    BY <2>1, <2>6, <2>7 DEF ReadAs, Is, IsStr, Arr, Null
<1>2. CASE ~Is("vec", type)
  <2>1. IsItem(Is3, type, v) /\ e \in EncodeItem(Encode3, type, v)
    BY <1>2 DEF Is4, Encode, IsLayer, EncodeLayer
  <2>2. Decode(type, e) = DecodeItem(Decode3, type, e)
    BY <1>2 DEF Decode, DecodeLayer
  <2> QED
    BY <2>1, <2>2, ItemRead4
<1> QED
  BY <1>1, <1>2

-----------------------------------------------------------------------------
(* What is written in another way.                                         *)

\* null is an error, except where a unit or an optional field is expected.
LEMMA NullUnread ==
  ASSUME NEW type, ~IsUnit(type), NEW v, Is3(type, v)
  PROVE  Decode3(type, Null) = {}
<1>1. ~Is("array", Null) /\ ~Is("object", Null) /\ ~Is("string", Null) /\ ~Is("number", Null)
      /\ ~Is("bool", Null)
  BY DEF Is, Null
<1>2. CASE Is("vec", type)
  BY <1>1, <1>2 DEF Decode3, DecodeLayer
<1>3. CASE ~Is("vec", type)
  <2>1. Decode3(type, Null) = DecodeItem(Decode2, type, Null) /\ IsItem(Is2, type, v)
    BY <1>3 DEF Decode3, DecodeLayer, Is3, IsLayer
  <2>2. CASE Is("leaf", type)
    <3>1. DecodeItem(Decode2, type, Null) = DecodeLeaf(type.leaf, Null)
      BY <2>2 DEF DecodeItem, Is
    <3> QED
      BY <1>1, <2>1, <2>2, <3>1 DEF DecodeLeaf, IsStr, IsUnit
  <2>3. CASE Is("struct", type)
    BY <1>1, <2>1, <2>3 DEF DecodeItem, DecodeFields, Is
  <2>4. CASE Is("custom", type)
    <3>1. IsCustom(Is2, type.custom, v)
      BY <2>1, <2>4 DEF IsItem, Is
    <3>2. DecodeItem(Decode2, type, Null) = DecodeCustom(Decode2, type.custom, Null)
      BY <2>4 DEF DecodeItem, Is
    <3>3. CASE type.custom = "PrivacyHint"
      BY <1>1, <2>1, <3>2, <3>3 DEF DecodeCustom, DecodeHints
    <3>4. CASE type.custom = "BundleItem"
      <4>1. \A k \in DOMAIN BundleItem : DecodeFields(Decode2, BundleItem[k], Null) = {}
        BY <1>1 DEF DecodeFields
      <4>2. DecodeBundleItem(DecodeVariants(Decode2, BundleItem, Null)) = {}
        BY <4>1 DEF DecodeBundleItem, DecodeVariants
      <4> QED
        BY <2>1, <3>2, <3>4, <4>2 DEF DecodeCustom
    <3>5. CASE type.custom = "ProtocolVersion"
      <4>1. \A w \in DOMAIN ProtocolVersion : Null # Str(Text(ProtocolVersion[w]))
        BY DEF Null, Str
      <4> QED
        BY <2>1, <3>2, <3>5, <4>1 DEF DecodeCustom
    <3>6. CASE type.custom = "u256_numeric_string"
      BY <1>1, <2>1, <3>2, <3>6 DEF DecodeCustom, DecodeNumeric, IsStr
    <3> QED
      BY <3>1, <3>3, <3>4, <3>5, <3>6 DEF IsCustom
  <2> QED
    BY <2>1, <2>2, <2>3, <2>4 DEF IsItem
<1> QED
  BY <1>2, <1>3

\* A numeric string is read from a hex string and from a number as well.
LEMMA NumericForms ==
  ASSUME NEW type, IsNumeric(type), NEW n
  PROVE  Decode3(type, Str(Hex(n))) = {n} /\ Decode3(type, Num(n)) = {n}
<1>1. \A json : Decode3(type, json) = DecodeNumeric(json)
  BY DEF IsNumeric, Decode3, DecodeLayer, DecodeItem, DecodeCustom, Is
<1>2. IsStr("hex", Str(Hex(n))) /\ ~IsStr("dec", Str(Hex(n))) /\ ~Is("number", Str(Hex(n)))
  BY DEF IsStr, Is, Str, Hex
<1>3. DecodeNumeric(Str(Hex(n))) = {n}
  BY <1>2 DEF DecodeNumeric, Str, Hex
<1>4. ~IsStr("hex", Num(n)) /\ ~IsStr("dec", Num(n)) /\ Is("number", Num(n))
  BY DEF IsStr, Is, Num
<1>5. DecodeNumeric(Num(n)) = {n}
  BY <1>4 DEF DecodeNumeric, Num
<1> QED
  BY <1>1, <1>3, <1>5

\* What a struct is read as when another implementation has written one of its entries in
\* another way: the meaning that Reading gives to it.
LEMMA RewrittenRead ==
  ASSUME NEW fields, AreRegular(fields), NEW v, HasFields(Is3, fields, v),
         NEW e \in EncodeFields(Encode3, fields, v),
         NEW a \in Alterations(e.object)
  PROVE  DecodeFields(Decode3, fields, Obj(Rewritten(e.object, a))) = Reading(fields, v, a)
<1> DEFINE map == e.object
           new == Rewritten(map, a)
           read == [f \in DOMAIN fields |-> IF f \in DOMAIN new
                                            THEN DecodePresent(Decode3, fields[f], new[f])
                                            ELSE DecodeAbsent(fields[f])]
           emptied == [v EXCEPT ![a.field] = DefaultOf(fields[a.field])]
<1>1. /\ DOMAIN map = WrittenFields(fields, v)
      /\ \A f \in WrittenFields(fields, v) : map[f] \in EncodeField(Encode3, fields[f], v[f])
      /\ map = [f \in DOMAIN map |-> map[f]]
  <2>1. PICK m \in Combine([f \in WrittenFields(fields, v) |->
                               EncodeField(Encode3, fields[f], v[f])]) :
          e = Obj(m)
    BY DEF EncodeFields
  <2>2. map = m
    BY <2>1 DEF Obj
  <2> QED
    BY <2>2, CombineMember
<1>2. \A f \in DOMAIN map :
        FieldReadAs(fields[f], v[f], map[f], DecodePresent(Decode3, fields[f], map[f]))
  BY <1>1, FieldRead3 DEF HasFields, AreRegular, WrittenFields
<1>3. \A f \in DOMAIN fields \ DOMAIN map : DecodeAbsent(fields[f]) = {v[f]}
  BY <1>1, FieldRead3 DEF HasFields, AreRegular, WrittenFields
<1>4. /\ v = [f \in DOMAIN fields |-> v[f]]
      /\ DOMAIN map \subseteq DOMAIN fields
      /\ "extra" \notin DOMAIN fields
  BY <1>1 DEF HasFields, AreRegular, WrittenFields
<1>5. DecodeFields(Decode3, fields, Obj(new)) = Combine(read)
  BY DEF DecodeFields, Obj, Is
<1>6. DOMAIN read = DOMAIN fields
  OBVIOUS
<1>7. CASE a.kind = "omit"
  <2>1. a.field \in DOMAIN map /\ new = [f \in DOMAIN map \ {a.field} |-> map[f]]
    BY <1>7 DEF Alterations, Rewritten
  <2>2. read[a.field] = DecodeAbsent(fields[a.field])
    BY <1>4, <2>1
  <2>3. CASE fields[a.field].mode = "required"
    <3>1. read[a.field] = {} /\ Reading(fields, v, a) = {}
      BY <1>7, <2>2, <2>3 DEF DecodeAbsent, Reading
    <3> QED
      BY <1>4, <1>5, <1>6, <2>1, <3>1, CombineEmpty
  <2>4. CASE fields[a.field].mode # "required"
    <3>1. \A f \in DOMAIN fields : read[f] = {emptied[f]}
      BY <1>2, <1>3, <1>4, <2>1, <2>2, <2>4 DEF DecodeAbsent, FieldReadAs
    <3>2. emptied = [f \in DOMAIN fields |-> emptied[f]]
      BY <1>4
    <3>3. Reading(fields, v, a) = {emptied}
      BY <1>7, <2>4 DEF Reading
    <3> HIDE DEF read, emptied
    <3> QED
      BY <1>5, <1>6, <3>1, <3>2, <3>3, CombineSingletons
  <2> QED
    BY <2>3, <2>4
<1>8. CASE a.kind = "null"
  <2>1. a.field \in DOMAIN map /\ new = [map EXCEPT ![a.field] = Null]
    BY <1>8 DEF Alterations, Rewritten
  <2>2. /\ DOMAIN new = DOMAIN map /\ new[a.field] = Null
        /\ \A f \in DOMAIN map \ {a.field} : new[f] = map[f]
    BY <1>1, <2>1
  <2>3. read[a.field] = DecodePresent(Decode3, fields[a.field], Null)
    BY <1>4, <2>1, <2>2
  <2>4. CASE fields[a.field].mode = "optional"
    <3>1. DefaultOf(fields[a.field]) = <<>>
      BY <1>4, <2>1, <2>4 DEF DefaultOf, AreRegular, Regular, Preferences
    <3>2. \A f \in DOMAIN fields : read[f] = {emptied[f]}
      BY <1>2, <1>3, <1>4, <2>1, <2>2, <2>3, <2>4, <3>1 DEF DecodePresent, FieldReadAs
    <3>3. emptied = [f \in DOMAIN fields |-> emptied[f]]
      BY <1>4
    <3>4. Reading(fields, v, a) = {emptied}
      BY <1>8, <2>4 DEF Reading
    <3> HIDE DEF read, emptied
    <3> QED
      BY <1>5, <1>6, <3>2, <3>3, <3>4, CombineSingletons
  <2>5. CASE fields[a.field].mode # "optional"
    <3>1. ~IsUnit(fields[a.field].type) /\ Is3(fields[a.field].type, v[a.field])
      BY <1>4, <2>1, <2>5 DEF AreRegular, Regular, HasFields, IsField
    <3>2. read[a.field] = {} /\ Reading(fields, v, a) = {}
      BY <1>8, <2>3, <2>5, <3>1, NullUnread DEF DecodePresent, Reading
    <3> QED
      BY <1>4, <1>5, <1>6, <2>1, <3>2, CombineEmpty
  <2> QED
    BY <2>4, <2>5
<1>9. CASE a.kind \in {"hex", "number"}
  <2>1. /\ a.field \in DOMAIN map /\ IsStr("dec", map[a.field])
        /\ a.kind = "hex" => new = [map EXCEPT ![a.field] = Str(Hex(map[a.field].string.dec))]
        /\ a.kind = "number" => new = [map EXCEPT ![a.field] = Num(map[a.field].string.dec)]
    BY <1>9 DEF Alterations, Rewritten
  <2>2. /\ IsNumeric(fields[a.field].type) /\ map[a.field].string.dec = v[a.field]
        /\ fields[a.field].mode # "optional"
    <3>1. IsNumeric(fields[a.field].type) /\ map[a.field] = Str(Dec(v[a.field]))
      BY <1>2, <2>1 DEF FieldReadAs
    <3>2. fields[a.field].mode = "required"
      BY <1>4, <2>1, <3>1 DEF AreRegular, Regular
    <3> QED
      BY <3>1, <3>2 DEF Str, Dec
  <2>3. /\ DOMAIN new = DOMAIN map
        /\ new[a.field] \in {Str(Hex(v[a.field])), Num(v[a.field])}
        /\ \A f \in DOMAIN map \ {a.field} : new[f] = map[f]
    BY <1>1, <1>9, <2>1, <2>2
  <2>4. read[a.field] = {v[a.field]}
    BY <1>4, <2>1, <2>2, <2>3, NumericForms DEF DecodePresent
  <2>5. \A f \in DOMAIN fields : read[f] = {v[f]}
    BY <1>2, <1>3, <1>4, <2>3, <2>4 DEF FieldReadAs
  <2>6. Reading(fields, v, a) = {v}
    BY <1>9 DEF Reading
  <2> HIDE DEF read
  <2> QED
    BY <1>4, <1>5, <1>6, <2>5, <2>6, CombineSingletons
<1>10. CASE a.kind = "extra"
  <2>1. new = [f \in DOMAIN map \cup {"extra"} |-> IF f = "extra" THEN Null ELSE map[f]]
    BY <1>10 DEF Rewritten
  <2>2. \A f \in DOMAIN fields : read[f] = {v[f]}
    BY <1>2, <1>3, <1>4, <2>1 DEF FieldReadAs
  <2>3. Reading(fields, v, a) = {v}
    BY <1>10 DEF Reading
  <2> HIDE DEF read
  <2> QED
    BY <1>4, <1>5, <1>6, <2>2, <2>3, CombineSingletons
<1> QED
  BY <1>7, <1>8, <1>9, <1>10 DEF Alterations

-----------------------------------------------------------------------------
(* The statistics of a bundle.                                             *)

\* What is written for bundle statistics: isSimulated always, receivedAt unless they are Unknown.
LEMMA StatsWritten ==
  ASSUME NEW v, IsStats(v), NEW e \in Encode(Custom("BundleStats"), v)
  PROVE  /\ e \in EncodeFields(Encode3, BundleStats[v.variant], v.fields)
         /\ AreRegular(BundleStats[v.variant])
         /\ HasFields(Is3, BundleStats[v.variant], v.fields)
         /\ v.variant \in {"Unknown", "Seen", "Simulated"}
         /\ v = [variant |-> v.variant, fields |-> v.fields]
         /\ Is("object", e)
         /\ "isSimulated" \in DOMAIN e.object
         /\ v.fields.isSimulated \in BOOLEAN
         /\ e.object["isSimulated"] = Bool(v.fields.isSimulated)
         /\ "receivedAt" \in DOMAIN e.object <=> v.variant # "Unknown"
         /\ v.variant = "Unknown" => v.fields = [isSimulated |-> FALSE]
<1> DEFINE fields == BundleStats[v.variant]
<1>1. /\ v.variant \in DOMAIN BundleStats /\ HasFields(Is3, fields, v.fields)
      /\ v = [variant |-> v.variant, fields |-> v.fields]
      /\ v.variant = "Unknown" => v.fields = [isSimulated |-> FALSE]
  BY DEF IsStats, HasVariant
<1>2. DOMAIN BundleStats = {"Unknown", "Seen", "Simulated"}
  BY DEF BundleStats
<1>3. e \in EncodeFields(Encode3, fields, v.fields)
  <2>1. Is("custom", Custom("BundleStats")) /\ ~Is("vec", Custom("BundleStats"))
        /\ ~Is("leaf", Custom("BundleStats")) /\ ~Is("struct", Custom("BundleStats"))
        /\ Custom("BundleStats").custom = "BundleStats"
    BY DEF Is, Custom
  <2>2. e \in EncodeCustom(Encode3, "BundleStats", v)
    BY <2>1 DEF Encode, EncodeLayer, EncodeItem
  <2> QED
    BY <2>2 DEF EncodeCustom
<1>4. PICK map \in Combine([f \in WrittenFields(fields, v.fields) |->
                              EncodeField(Encode3, fields[f], v.fields[f])]) : e = Obj(map)
  BY <1>3 DEF EncodeFields
<1>5. e.object = map /\ Is("object", e)
  BY <1>4 DEF Obj, Is
<1>6. /\ DOMAIN map = WrittenFields(fields, v.fields)
      /\ \A f \in DOMAIN map : map[f] \in EncodeField(Encode3, fields[f], v.fields[f])
  BY CombineMember
<1>7. fields["isSimulated"] = Required(BoolT) /\ "isSimulated" \in DOMAIN fields
  BY <1>1, <1>2 DEF BundleStats, Unknown, StatsSeen, StatsSimulated
<1>8. "receivedAt" \in DOMAIN fields <=> v.variant # "Unknown"
  BY <1>1, <1>2 DEF BundleStats, Unknown, StatsSeen, StatsSimulated
<1>9. "receivedAt" \in DOMAIN fields => fields["receivedAt"] = Required(StringT)
  BY <1>1, <1>2 DEF BundleStats, Unknown, StatsSeen, StatsSimulated
<1>10. \A f \in DOMAIN fields : fields[f].mode = "required" => f \in DOMAIN map
  BY <1>6 DEF WrittenFields, Skipped
<1>11. "isSimulated" \in DOMAIN map /\ ("receivedAt" \in DOMAIN map <=> v.variant # "Unknown")
  BY <1>6, <1>7, <1>8, <1>9, <1>10 DEF Required, WrittenFields
<1>12. map["isSimulated"] = Bool(v.fields.isSimulated)
  <2>1. map["isSimulated"] \in Encode3(BoolT, v.fields.isSimulated)
    BY <1>6, <1>7, <1>11 DEF EncodeField, Required
  <2> QED
    BY <2>1 DEF Encode3, EncodeLayer, EncodeItem, EncodeLeaf, BoolT, Leaf, Is
<1>13. v.fields.isSimulated \in BOOLEAN
  <2>1. Is3(BoolT, v.fields.isSimulated)
    BY <1>1, <1>7 DEF HasFields, IsField, Required
  <2> QED
    BY <2>1 DEF Is3, IsLayer, IsItem, IsLeaf, BoolT, Leaf, Is
<1> QED
  BY <1>1, <1>2, <1>3, <1>5, <1>11, <1>12, <1>13, VariantsRegular

\* The variant that map["isSimulated"] selects is the one that was written.
LEMMA VariantAgrees ==
  ASSUME NEW v, StatsAgree(v), v.variant \in {"Seen", "Simulated"},
         v.fields.isSimulated \in BOOLEAN,
         NEW map, "receivedAt" \in DOMAIN map, map["isSimulated"] = Bool(v.fields.isSimulated)
  PROVE  StatsVariant(map) = v.variant
<1>1. CASE v.variant = "Simulated"
  <2>1. v.fields.isSimulated
    BY <1>1 DEF StatsAgree
  <2>2. v.fields.isSimulated = TRUE
    BY <2>1
  <2>3. map["isSimulated"] # Bool(FALSE)
    <3>1. map["isSimulated"].bool = TRUE
      BY <2>2 DEF Bool
    <3>2. Bool(FALSE).bool = FALSE
      BY DEF Bool
    <3> QED
      BY <3>1, <3>2
  <2> QED
    BY <1>1, <2>3 DEF StatsVariant
<1>2. CASE v.variant = "Seen"
  <2>1. ~v.fields.isSimulated
    BY <1>2 DEF StatsAgree
  <2>2. v.fields.isSimulated = FALSE
    BY <2>1
  <2> QED
    BY <1>2, <2>2 DEF StatsVariant
<1> QED
  BY <1>1, <1>2

\* The decoder of the statistics, in the outermost layer.
StatsOf(e) == DecodeStats(e, DecodeVariants(Decode3, BundleStats, e))

\* It reads the fields of the variant that the entries select.
LEMMA StatsOfObject ==
  ASSUME NEW e, Is("object", e)
  PROVE  LET variant == StatsVariant(e.object) IN
         StatsOf(e) = {[variant |-> variant, fields |-> v] :
                         v \in IF variant = "Unknown" THEN {[isSimulated |-> FALSE]}
                               ELSE DecodeFields(Decode3, BundleStats[variant], e)}
<1> DEFINE read == DecodeVariants(Decode3, BundleStats, e)
           variant == StatsVariant(e.object)
<1>1. variant \in {"Unknown", "Seen", "Simulated"}
  BY DEF StatsVariant
<1>2. read[variant] = DecodeFields(Decode3, BundleStats[variant], e)
  <2>1. variant \in DOMAIN BundleStats
    BY <1>1 DEF BundleStats
  <2> HIDE DEF variant
  <2> QED
    BY <2>1 DEF DecodeVariants
<1> HIDE DEF read
<1>3. StatsOf(e) = DecodeStats(e, read)
  BY DEF StatsOf, read
<1> QED
  BY <1>2, <1>3 DEF DecodeStats

\* Bundle statistics are read as they were written.
LEMMA StatsRead ==
  ASSUME NEW v, IsStats(v), StatsAgree(v), NEW e \in Encode(Custom("BundleStats"), v)
  PROVE  StatsOf(e) = {v} /\ ~StatsPanic(e.object)
<1>1. DecodeFields(Decode3, BundleStats[v.variant], e) = {v.fields}
  BY StatsWritten, FieldsRead4
<1>2. CASE v.variant = "Unknown"
  <2>1. StatsVariant(e.object) = "Unknown"
    BY <1>2, StatsWritten DEF StatsVariant
  <2> QED
    <3>1. /\ v = [variant |-> "Unknown", fields |-> [isSimulated |-> FALSE]]
          /\ Is("object", e) /\ "receivedAt" \notin DOMAIN e.object
      BY <1>2, StatsWritten
    <3>2. StatsOf(e)
            = {[variant |-> "Unknown", fields |-> w] : w \in {[isSimulated |-> FALSE]}}
      BY <2>1, <3>1, StatsOfObject
    <3> QED
      BY <3>1, <3>2 DEF StatsPanic
<1>3. CASE v.variant # "Unknown"
  <2>1. v.fields.isSimulated \in BOOLEAN
    BY StatsWritten
  <2>2. StatsVariant(e.object) = v.variant
    BY <1>3, <2>1, StatsWritten, VariantAgrees
  <2> QED
    BY <1>1, <1>3, <2>2, StatsWritten, StatsOfObject DEF StatsPanic
<1> QED
  BY <1>2, <1>3

\* What rewriting an entry does to the two entries that select the variant.
LEMMA StatsRewritten ==
  ASSUME NEW v, IsStats(v), NEW e \in Encode(Custom("BundleStats"), v),
         NEW a \in Alterations(e.object)
  PROVE  LET new == Rewritten(e.object, a) IN
         /\ "receivedAt" \in DOMAIN new <=>
              v.variant # "Unknown" /\ ~(a.kind = "omit" /\ a.field = "receivedAt")
         /\ "isSimulated" \in DOMAIN new <=> ~(a.kind = "omit" /\ a.field = "isSimulated")
         /\ "isSimulated" \in DOMAIN new =>
              new["isSimulated"] = IF a.kind = "null" /\ a.field = "isSimulated"
                                   THEN Null ELSE Bool(v.fields.isSimulated)
<1> DEFINE map == e.object
           new == Rewritten(map, a)
<1>1. /\ "isSimulated" \in DOMAIN map /\ map["isSimulated"] = Bool(v.fields.isSimulated)
      /\ "receivedAt" \in DOMAIN map <=> v.variant # "Unknown"
  BY StatsWritten
<1>2. CASE a.kind = "omit"
  <2>1. new = [f \in DOMAIN map \ {a.field} |-> map[f]]
    BY <1>2 DEF Rewritten
  <2> QED
    BY <1>1, <1>2, <2>1
<1>3. CASE a.kind = "null"
  <2>1. new = [map EXCEPT ![a.field] = Null]
    BY <1>3 DEF Rewritten
  <2> QED
    BY <1>1, <1>3, <2>1
<1>4. CASE a.kind \in {"hex", "number"}
  <2>1. /\ DOMAIN new = DOMAIN map
        /\ \A f \in DOMAIN map \ {a.field} : new[f] = map[f]
        /\ a.field \in DOMAIN map /\ IsStr("dec", map[a.field])
    BY <1>4 DEF Alterations, Rewritten
  <2>2. a.field # "isSimulated"
    BY <1>1, <2>1 DEF IsStr, Is, Bool
  <2> QED
    BY <1>1, <1>4, <2>1, <2>2
<1>5. CASE a.kind = "extra"
  <2>1. new = [f \in DOMAIN map \cup {"extra"} |-> IF f = "extra" THEN Null ELSE map[f]]
    BY <1>5 DEF Rewritten
  <2> QED
    BY <1>1, <1>5, <2>1
<1> QED
  BY <1>2, <1>3, <1>4, <1>5 DEF Alterations

\* The index panics only if isSimulated was left out of statistics that have a receivedAt.
LEMMA StatsRewrittenPanic ==
  ASSUME NEW v, IsStats(v), NEW e \in Encode(Custom("BundleStats"), v),
         NEW a \in Alterations(e.object), StatsPanic(Rewritten(e.object, a))
  PROVE  /\ v.variant # "Unknown" /\ a = [kind |-> "omit", field |-> "isSimulated"]
         /\ ReadingOfStats(v, a) = {}
<1>1. v.variant # "Unknown" /\ a.kind = "omit" /\ a.field = "isSimulated"
  BY StatsRewritten DEF StatsPanic
<1>2. a = [kind |-> a.kind, field |-> a.field]
  BY DEF Alterations
<1>3. BundleStats[v.variant]["isSimulated"].mode = "required"
  BY <1>1, StatsWritten DEF BundleStats, StatsSeen, StatsSimulated, Required
<1>4. Reading(BundleStats[v.variant], v.fields, a) = {}
  BY <1>1, <1>3 DEF Reading
<1> QED
  BY <1>1, <1>2, <1>4 DEF ReadingOfStats

\* Otherwise rewritten statistics are read as ReadingOfStats says.
LEMMA StatsRewrittenRead ==
  ASSUME NEW v, IsStats(v), StatsAgree(v), NEW e \in Encode(Custom("BundleStats"), v),
         NEW a \in Alterations(e.object), ~StatsPanic(Rewritten(e.object, a))
  PROVE  StatsOf(Obj(Rewritten(e.object, a))) = ReadingOfStats(v, a)
<1> DEFINE new == Rewritten(e.object, a)
           unknown == [variant |-> "Unknown", fields |-> [isSimulated |-> FALSE]]
<1>1. Is("object", Obj(new)) /\ Obj(new).object = new
  BY DEF Is, Obj
<1>2. CASE "receivedAt" \notin DOMAIN new
  <2>1. StatsOf(Obj(new)) = {unknown}
    BY <1>1, <1>2, StatsOfObject DEF StatsVariant
  <2>2. ReadingOfStats(v, a) = {unknown}
    BY <1>2, StatsRewritten DEF ReadingOfStats
  <2> QED
    BY <2>1, <2>2
<1>3. CASE "receivedAt" \in DOMAIN new
  <2>1. /\ v.variant \in {"Seen", "Simulated"} /\ ~(a.kind = "omit" /\ a.field = "receivedAt")
        /\ "isSimulated" \in DOMAIN new
    BY <1>3, StatsRewritten, StatsWritten DEF StatsPanic
  <2>2. DecodeFields(Decode3, BundleStats[v.variant], Obj(new))
          = Reading(BundleStats[v.variant], v.fields, a)
    BY StatsWritten, RewrittenRead
  <2>3. ReadingOfStats(v, a) =
          {[v EXCEPT !.fields = w] : w \in Reading(BundleStats[v.variant], v.fields, a)}
    BY <2>1 DEF ReadingOfStats
  <2>4. \A w : [v EXCEPT !.fields = w] = [variant |-> v.variant, fields |-> w]
    BY StatsWritten
  <2>5. CASE a.kind = "null" /\ a.field = "isSimulated"
    <3>1. \A k \in {"Seen", "Simulated"} : DecodeFields(Decode3, BundleStats[k], Obj(new)) = {}
      <4> SUFFICES ASSUME NEW k \in {"Seen", "Simulated"}
                   PROVE  DecodeFields(Decode3, BundleStats[k], Obj(new)) = {}
        OBVIOUS
      <4> DEFINE read == [f \in DOMAIN BundleStats[k] |->
                            IF f \in DOMAIN new
                            THEN DecodePresent(Decode3, BundleStats[k][f], new[f])
                            ELSE DecodeAbsent(BundleStats[k][f])]
      <4>1. /\ "isSimulated" \in DOMAIN BundleStats[k]
            /\ BundleStats[k]["isSimulated"] = Required(BoolT)
        BY DEF BundleStats, StatsSeen, StatsSimulated
      <4>2. new["isSimulated"] = Null
        BY <2>1, <2>5, StatsRewritten
      <4>3. Decode3(BoolT, Null) = {}
        BY DEF Decode3, DecodeLayer, DecodeItem, DecodeLeaf, BoolT, Leaf, Is, Null
      <4>4. read["isSimulated"] = {}
        BY <2>1, <4>1, <4>2, <4>3 DEF DecodePresent, Required
      <4>5. DecodeFields(Decode3, BundleStats[k], Obj(new)) = Combine(read)
        BY <1>1 DEF DecodeFields
      <4>6. "isSimulated" \in DOMAIN read
        BY <4>1
      <4> HIDE DEF read
      <4> QED
        BY <4>4, <4>5, <4>6, CombineEmpty
    <3>2. StatsVariant(new) \in {"Seen", "Simulated"}
      BY <1>3 DEF StatsVariant
    <3>3. StatsOf(Obj(new)) = {}
      BY <1>1, <3>1, <3>2, StatsOfObject
    <3>4. Reading(BundleStats[v.variant], v.fields, a) = {}
      BY <2>1, <2>2, <3>1
    <3> QED
      BY <2>3, <3>3, <3>4
  <2>6. CASE ~(a.kind = "null" /\ a.field = "isSimulated")
    <3>1. new["isSimulated"] = Bool(v.fields.isSimulated) /\ v.fields.isSimulated \in BOOLEAN
      BY <2>1, <2>6, StatsRewritten, StatsWritten
    <3>2. StatsVariant(new) = v.variant
      BY <1>3, <2>1, <3>1, VariantAgrees
    <3>3. StatsOf(Obj(new)) =
            {[variant |-> v.variant, fields |-> w] :
               w \in Reading(BundleStats[v.variant], v.fields, a)}
      BY <1>1, <2>1, <2>2, <3>2, StatsOfObject
    <3> DEFINE reading == Reading(BundleStats[v.variant], v.fields, a)
    <3>4. {[v EXCEPT !.fields = w] : w \in reading}
            = {[variant |-> v.variant, fields |-> w] : w \in reading}
      BY <2>4
    <3> QED
      BY <2>3, <3>3, <3>4
  <2> QED
    BY <2>5, <2>6
<1> QED
  BY <1>2, <1>3

-----------------------------------------------------------------------------
(* What can always be written.                                             *)

\* The structs with numeric strings in them.
WideStructs == {"UserStats", "EthCallBundleResponse", "EthCallBundleTransactionResult"}

\* Their types.
IsWide(type) == Is("struct", type) /\ type.struct \in WideStructs

\* Types that may be impossible to write.
HoldsNumbers(type) ==
  LET item == IF Is("vec", type) THEN type.vec ELSE type IN IsNumeric(item) \/ IsWide(item)

\* Fields that can always be written.
WithoutNumbers(fields) == \A f \in DOMAIN fields : ~HoldsNumbers(fields[f].type)

\* There are numeric strings in the wide structs only.
LEMMA NumbersAreWide ==
  /\ \A name \in DOMAIN Fields \ WideStructs : WithoutNumbers(Fields[name])
  /\ \A k \in DOMAIN BundleItem : WithoutNumbers(BundleItem[k])
  /\ \A k \in DOMAIN BundleStats : WithoutNumbers(BundleStats[k])
<1> USE DEF WithoutNumbers, HoldsNumbers, IsWide, WideStructs, Required, Optional, Defaulted,
           Omitted, IsNumeric, Is, Custom, HexT, NumberT, BoolT, StringT, Struct, Leaf, Vec
<1>1. WithoutNumbers(SendBundleRequest)
  BY DEF SendBundleRequest
<1>2. WithoutNumbers(Inclusion)
  BY DEF Inclusion
<1>3. WithoutNumbers(Validity)
  BY DEF Validity
<1>4. WithoutNumbers(Refund)
  BY DEF Refund
<1>5. WithoutNumbers(RefundConfig)
  BY DEF RefundConfig
<1>6. WithoutNumbers(Privacy)
  BY DEF Privacy
<1>7. WithoutNumbers(SendBundleResponse)
  BY DEF SendBundleResponse
<1>8. WithoutNumbers(SimBundleOverrides)
  BY DEF SimBundleOverrides
<1>9. WithoutNumbers(SimBundleResponse)
  BY DEF SimBundleResponse
<1>10. WithoutNumbers(SimBundleLogs)
  BY DEF SimBundleLogs
<1>11. WithoutNumbers(CancelBundleRequest)
  BY DEF CancelBundleRequest
<1>12. WithoutNumbers(PrivateTransactionRequest)
  BY DEF PrivateTransactionRequest
<1>13. WithoutNumbers(PrivateTransactionPreferences)
  BY DEF PrivateTransactionPreferences
<1>14. WithoutNumbers(CancelPrivateTransactionRequest)
  BY DEF CancelPrivateTransactionRequest
<1>15. WithoutNumbers(ConsideredByBuildersAt)
  BY DEF ConsideredByBuildersAt
<1>16. WithoutNumbers(SealedByBuildersAt)
  BY DEF SealedByBuildersAt
<1>17. WithoutNumbers(EthSendBundle)
  BY DEF EthSendBundle
<1>18. WithoutNumbers(EthBundleHash)
  BY DEF EthBundleHash
<1>19. WithoutNumbers(EthCallBundle)
  BY DEF EthCallBundle
<1>20. WithoutNumbers(GetUserStatsRequest)
  BY DEF GetUserStatsRequest
<1>21. WithoutNumbers(GetBundleStatsRequest)
  BY DEF GetBundleStatsRequest
<1>22. \A k \in DOMAIN BundleItem : WithoutNumbers(BundleItem[k])
  BY DEF BundleItem
<1>23. WithoutNumbers(Unknown) /\ WithoutNumbers(StatsSeen)
  BY DEF Unknown, StatsSeen
<1>24. WithoutNumbers(StatsSimulated)
  BY DEF StatsSimulated
<1> HIDE DEF WithoutNumbers
<1>25. \A k \in DOMAIN BundleStats : WithoutNumbers(BundleStats[k])
  BY ONLY <1>23, <1>24 DEF BundleStats
<1>26. \A name \in DOMAIN Fields \ WideStructs : WithoutNumbers(Fields[name])
  BY ONLY <1>1, <1>2, <1>3, <1>4, <1>5, <1>6, <1>7, <1>8, <1>9, <1>10, <1>11, <1>12, <1>13,
     <1>14, <1>15, <1>16, <1>17, <1>18, <1>19, <1>20, <1>21 DEF Fields, WideStructs
<1> QED
  BY ONLY <1>22, <1>25, <1>26

\* Within the innermost layer there are no values.
LEMMA WrittenN ==
  ASSUME NEW type, ~HoldsNumbers(type), NEW v, IsNothing(type, v)
  PROVE  NoCodec(type, v) # {}
BY DEF IsNothing

\* A struct without numeric strings can be written.
LEMMA FieldsWritten0 ==
  ASSUME NEW fields, WithoutNumbers(fields), NEW v, HasFields(IsNothing, fields, v)
  PROVE  EncodeFields(NoCodec, fields, v) # {}
<1>1. ASSUME NEW f \in WrittenFields(fields, v) PROVE EncodeField(NoCodec, fields[f], v[f]) # {}
  <2>1. /\ IsField(IsNothing, fields[f], v[f]) /\ ~Skipped(fields[f], v[f])
        /\ ~HoldsNumbers(fields[f].type)
    BY DEF HasFields, WithoutNumbers, WrittenFields
  <2> QED
    BY <2>1, WrittenN DEF IsField, EncodeField, Skipped
<1>2. Combine([f \in WrittenFields(fields, v) |-> EncodeField(NoCodec, fields[f], v[f])]) # {}
  BY <1>1, CombineNonempty
<1> QED
  BY <1>2 DEF EncodeFields

\* So can every value of a type without them.
LEMMA Written0 ==
  ASSUME NEW type, ~HoldsNumbers(type), NEW v, Is0(type, v)
  PROVE  Encode0(type, v) # {}
<1>1. ASSUME NEW item, ~IsNumeric(item), ~IsWide(item), NEW w, IsItem(IsNothing, item, w)
      PROVE  EncodeItem(NoCodec, item, w) # {}
  <2>1. CASE Is("leaf", item)
    BY <2>1 DEF EncodeItem, Is
  <2>2. CASE Is("struct", item)
    BY <1>1, <2>2, NumbersAreWide, FieldsWritten0
     DEF IsWide, WideStructs, IsItem, EncodeItem, Is
  <2>3. CASE Is("custom", item)
    <3>1. /\ IsCustom(IsNothing, item.custom, w)
          /\ EncodeItem(NoCodec, item, w) = EncodeCustom(NoCodec, item.custom, w)
      BY <1>1, <2>3 DEF IsItem, EncodeItem, Is
    <3>2. CASE item.custom = "BundleItem"
      BY <3>1, <3>2, NumbersAreWide, FieldsWritten0 DEF IsCustom, HasVariant, EncodeCustom
    <3>3. CASE item.custom \in {"PrivacyHint", "ProtocolVersion"}
      BY <3>1, <3>3 DEF EncodeCustom
    <3> QED
      BY <1>1, <2>3, <3>1, <3>2, <3>3 DEF IsCustom, IsNumeric
  <2> QED
    BY <1>1, <2>1, <2>2, <2>3 DEF IsItem
<1>2. CASE Is("vec", type)
  <2>1. \A i \in DOMAIN v : EncodeItem(NoCodec, type.vec, v[i]) # {}
    BY <1>1, <1>2 DEF HoldsNumbers, Is0, IsLayer
  <2>2. Combine([i \in DOMAIN v |-> EncodeItem(NoCodec, type.vec, v[i])]) # {}
    BY <2>1, CombineNonempty
  <2> QED
    BY <1>2, <2>2 DEF Encode0, EncodeLayer
<1>3. CASE ~Is("vec", type)
  BY <1>1, <1>3 DEF HoldsNumbers, Is0, IsLayer, Encode0, EncodeLayer
<1> QED
  BY <1>2, <1>3

\* A struct without numeric strings can be written.
LEMMA FieldsWritten1 ==
  ASSUME NEW fields, WithoutNumbers(fields), NEW v, HasFields(Is0, fields, v)
  PROVE  EncodeFields(Encode0, fields, v) # {}
<1>1. ASSUME NEW f \in WrittenFields(fields, v) PROVE EncodeField(Encode0, fields[f], v[f]) # {}
  <2>1. /\ IsField(Is0, fields[f], v[f]) /\ ~Skipped(fields[f], v[f])
        /\ ~HoldsNumbers(fields[f].type)
    BY DEF HasFields, WithoutNumbers, WrittenFields
  <2> QED
    BY <2>1, Written0 DEF IsField, EncodeField, Skipped
<1>2. Combine([f \in WrittenFields(fields, v) |-> EncodeField(Encode0, fields[f], v[f])]) # {}
  BY <1>1, CombineNonempty
<1> QED
  BY <1>2 DEF EncodeFields

\* So can every value of a type without them.
LEMMA Written1 ==
  ASSUME NEW type, ~HoldsNumbers(type), NEW v, Is1(type, v)
  PROVE  Encode1(type, v) # {}
<1>1. ASSUME NEW item, ~IsNumeric(item), ~IsWide(item), NEW w, IsItem(Is0, item, w)
      PROVE  EncodeItem(Encode0, item, w) # {}
  <2>1. CASE Is("leaf", item)
    BY <2>1 DEF EncodeItem, Is
  <2>2. CASE Is("struct", item)
    BY <1>1, <2>2, NumbersAreWide, FieldsWritten1
     DEF IsWide, WideStructs, IsItem, EncodeItem, Is
  <2>3. CASE Is("custom", item)
    <3>1. /\ IsCustom(Is0, item.custom, w)
          /\ EncodeItem(Encode0, item, w) = EncodeCustom(Encode0, item.custom, w)
      BY <1>1, <2>3 DEF IsItem, EncodeItem, Is
    <3>2. CASE item.custom = "BundleItem"
      BY <3>1, <3>2, NumbersAreWide, FieldsWritten1 DEF IsCustom, HasVariant, EncodeCustom
    <3>3. CASE item.custom \in {"PrivacyHint", "ProtocolVersion"}
      BY <3>1, <3>3 DEF EncodeCustom
    <3> QED
      BY <1>1, <2>3, <3>1, <3>2, <3>3 DEF IsCustom, IsNumeric
  <2> QED
    BY <1>1, <2>1, <2>2, <2>3 DEF IsItem
<1>2. CASE Is("vec", type)
  <2>1. \A i \in DOMAIN v : EncodeItem(Encode0, type.vec, v[i]) # {}
    BY <1>1, <1>2 DEF HoldsNumbers, Is1, IsLayer
  <2>2. Combine([i \in DOMAIN v |-> EncodeItem(Encode0, type.vec, v[i])]) # {}
    BY <2>1, CombineNonempty
  <2> QED
    BY <1>2, <2>2 DEF Encode1, EncodeLayer
<1>3. CASE ~Is("vec", type)
  BY <1>1, <1>3 DEF HoldsNumbers, Is1, IsLayer, Encode1, EncodeLayer
<1> QED
  BY <1>2, <1>3

\* A struct without numeric strings can be written.
LEMMA FieldsWritten2 ==
  ASSUME NEW fields, WithoutNumbers(fields), NEW v, HasFields(Is1, fields, v)
  PROVE  EncodeFields(Encode1, fields, v) # {}
<1>1. ASSUME NEW f \in WrittenFields(fields, v) PROVE EncodeField(Encode1, fields[f], v[f]) # {}
  <2>1. /\ IsField(Is1, fields[f], v[f]) /\ ~Skipped(fields[f], v[f])
        /\ ~HoldsNumbers(fields[f].type)
    BY DEF HasFields, WithoutNumbers, WrittenFields
  <2> QED
    BY <2>1, Written1 DEF IsField, EncodeField, Skipped
<1>2. Combine([f \in WrittenFields(fields, v) |-> EncodeField(Encode1, fields[f], v[f])]) # {}
  BY <1>1, CombineNonempty
<1> QED
  BY <1>2 DEF EncodeFields

\* So can every value of a type without them.
LEMMA Written2 ==
  ASSUME NEW type, ~HoldsNumbers(type), NEW v, Is2(type, v)
  PROVE  Encode2(type, v) # {}
<1>1. ASSUME NEW item, ~IsNumeric(item), ~IsWide(item), NEW w, IsItem(Is1, item, w)
      PROVE  EncodeItem(Encode1, item, w) # {}
  <2>1. CASE Is("leaf", item)
    BY <2>1 DEF EncodeItem, Is
  <2>2. CASE Is("struct", item)
    BY <1>1, <2>2, NumbersAreWide, FieldsWritten2
     DEF IsWide, WideStructs, IsItem, EncodeItem, Is
  <2>3. CASE Is("custom", item)
    <3>1. /\ IsCustom(Is1, item.custom, w)
          /\ EncodeItem(Encode1, item, w) = EncodeCustom(Encode1, item.custom, w)
      BY <1>1, <2>3 DEF IsItem, EncodeItem, Is
    <3>2. CASE item.custom = "BundleItem"
      BY <3>1, <3>2, NumbersAreWide, FieldsWritten2 DEF IsCustom, HasVariant, EncodeCustom
    <3>3. CASE item.custom \in {"PrivacyHint", "ProtocolVersion"}
      BY <3>1, <3>3 DEF EncodeCustom
    <3> QED
      BY <1>1, <2>3, <3>1, <3>2, <3>3 DEF IsCustom, IsNumeric
  <2> QED
    BY <1>1, <2>1, <2>2, <2>3 DEF IsItem
<1>2. CASE Is("vec", type)
  <2>1. \A i \in DOMAIN v : EncodeItem(Encode1, type.vec, v[i]) # {}
    BY <1>1, <1>2 DEF HoldsNumbers, Is2, IsLayer
  <2>2. Combine([i \in DOMAIN v |-> EncodeItem(Encode1, type.vec, v[i])]) # {}
    BY <2>1, CombineNonempty
  <2> QED
    BY <1>2, <2>2 DEF Encode2, EncodeLayer
<1>3. CASE ~Is("vec", type)
  BY <1>1, <1>3 DEF HoldsNumbers, Is2, IsLayer, Encode2, EncodeLayer
<1> QED
  BY <1>2, <1>3

\* A struct without numeric strings can be written.
LEMMA FieldsWritten3 ==
  ASSUME NEW fields, WithoutNumbers(fields), NEW v, HasFields(Is2, fields, v)
  PROVE  EncodeFields(Encode2, fields, v) # {}
<1>1. ASSUME NEW f \in WrittenFields(fields, v) PROVE EncodeField(Encode2, fields[f], v[f]) # {}
  <2>1. /\ IsField(Is2, fields[f], v[f]) /\ ~Skipped(fields[f], v[f])
        /\ ~HoldsNumbers(fields[f].type)
    BY DEF HasFields, WithoutNumbers, WrittenFields
  <2> QED
    BY <2>1, Written2 DEF IsField, EncodeField, Skipped
<1>2. Combine([f \in WrittenFields(fields, v) |-> EncodeField(Encode2, fields[f], v[f])]) # {}
  BY <1>1, CombineNonempty
<1> QED
  BY <1>2 DEF EncodeFields

\* So can every value of a type without them.
LEMMA Written3 ==
  ASSUME NEW type, ~HoldsNumbers(type), NEW v, Is3(type, v)
  PROVE  Encode3(type, v) # {}
<1>1. ASSUME NEW item, ~IsNumeric(item), ~IsWide(item), NEW w, IsItem(Is2, item, w)
      PROVE  EncodeItem(Encode2, item, w) # {}
  <2>1. CASE Is("leaf", item)
    BY <2>1 DEF EncodeItem, Is
  <2>2. CASE Is("struct", item)
    BY <1>1, <2>2, NumbersAreWide, FieldsWritten3
     DEF IsWide, WideStructs, IsItem, EncodeItem, Is
  <2>3. CASE Is("custom", item)
    <3>1. /\ IsCustom(Is2, item.custom, w)
          /\ EncodeItem(Encode2, item, w) = EncodeCustom(Encode2, item.custom, w)
      BY <1>1, <2>3 DEF IsItem, EncodeItem, Is
    <3>2. CASE item.custom = "BundleItem"
      BY <3>1, <3>2, NumbersAreWide, FieldsWritten3 DEF IsCustom, HasVariant, EncodeCustom
    <3>3. CASE item.custom \in {"PrivacyHint", "ProtocolVersion"}
      BY <3>1, <3>3 DEF EncodeCustom
    <3> QED
      BY <1>1, <2>3, <3>1, <3>2, <3>3 DEF IsCustom, IsNumeric
  <2> QED
    BY <1>1, <2>1, <2>2, <2>3 DEF IsItem
<1>2. CASE Is("vec", type)
  <2>1. \A i \in DOMAIN v : EncodeItem(Encode2, type.vec, v[i]) # {}
    BY <1>1, <1>2 DEF HoldsNumbers, Is3, IsLayer
  <2>2. Combine([i \in DOMAIN v |-> EncodeItem(Encode2, type.vec, v[i])]) # {}
    BY <2>1, CombineNonempty
  <2> QED
    BY <1>2, <2>2 DEF Encode3, EncodeLayer
<1>3. CASE ~Is("vec", type)
  BY <1>1, <1>3 DEF HoldsNumbers, Is3, IsLayer, Encode3, EncodeLayer
<1> QED
  BY <1>2, <1>3

\* A struct without numeric strings can be written.
LEMMA FieldsWritten4 ==
  ASSUME NEW fields, WithoutNumbers(fields), NEW v, HasFields(Is3, fields, v)
  PROVE  EncodeFields(Encode3, fields, v) # {}
<1>1. ASSUME NEW f \in WrittenFields(fields, v) PROVE EncodeField(Encode3, fields[f], v[f]) # {}
  <2>1. /\ IsField(Is3, fields[f], v[f]) /\ ~Skipped(fields[f], v[f])
        /\ ~HoldsNumbers(fields[f].type)
    BY DEF HasFields, WithoutNumbers, WrittenFields
  <2> QED
    BY <2>1, Written3 DEF IsField, EncodeField, Skipped
<1>2. Combine([f \in WrittenFields(fields, v) |-> EncodeField(Encode3, fields[f], v[f])]) # {}
  BY <1>1, CombineNonempty
<1> QED
  BY <1>2 DEF EncodeFields

\* So can every value of a type without them.
LEMMA Written4 ==
  ASSUME NEW type, ~HoldsNumbers(type), NEW v, Is4(type, v)
  PROVE  Encode(type, v) # {}
<1>1. ASSUME NEW item, ~IsNumeric(item), ~IsWide(item), NEW w, IsItem(Is3, item, w)
      PROVE  EncodeItem(Encode3, item, w) # {}
  <2>1. CASE Is("leaf", item)
    BY <2>1 DEF EncodeItem, Is
  <2>2. CASE Is("struct", item)
    BY <1>1, <2>2, NumbersAreWide, FieldsWritten4
     DEF IsWide, WideStructs, IsItem, EncodeItem, Is
  <2>3. CASE Is("custom", item)
    <3>1. /\ IsCustom(Is3, item.custom, w)
          /\ EncodeItem(Encode3, item, w) = EncodeCustom(Encode3, item.custom, w)
      BY <1>1, <2>3 DEF IsItem, EncodeItem, Is
    <3>2. CASE item.custom = "BundleItem"
      BY <3>1, <3>2, NumbersAreWide, FieldsWritten4 DEF IsCustom, HasVariant, EncodeCustom
    <3>3. CASE item.custom \in {"PrivacyHint", "ProtocolVersion"}
      BY <3>1, <3>3 DEF EncodeCustom
    <3> QED
      BY <1>1, <2>3, <3>1, <3>2, <3>3 DEF IsCustom, IsNumeric
  <2> QED
    BY <1>1, <2>1, <2>2, <2>3 DEF IsItem
<1>2. CASE Is("vec", type)
  <2>1. \A i \in DOMAIN v : EncodeItem(Encode3, type.vec, v[i]) # {}
    BY <1>1, <1>2 DEF HoldsNumbers, Is4, IsLayer
  <2>2. Combine([i \in DOMAIN v |-> EncodeItem(Encode3, type.vec, v[i])]) # {}
    BY <2>1, CombineNonempty
  <2> QED
    BY <1>2, <2>2 DEF Encode, EncodeLayer
<1>3. CASE ~Is("vec", type)
  BY <1>1, <1>3 DEF HoldsNumbers, Is4, IsLayer, Encode, EncodeLayer
<1> QED
  BY <1>2, <1>3

\* A number that fits in a u128 is written.
LEMMA NumberWritten ==
  ASSUME NEW n \in Nat, ~(n > u128_MAX)
  PROVE  EncodeNumeric(n) # {}
BY WidthAssumption DEF EncodeNumeric

\* What the layers do with a numeric string.
LEMMA NumericAt ==
  /\ \A n : Encode2(Numeric, n) = EncodeNumeric(n) /\ (Is2(Numeric, n) => n \in Nat)
  /\ \A n : Encode3(Numeric, n) = EncodeNumeric(n) /\ (Is3(Numeric, n) => n \in Nat)
<1>1. /\ Is("custom", Numeric) /\ ~Is("vec", Numeric) /\ ~Is("leaf", Numeric)
      /\ ~Is("struct", Numeric) /\ Numeric.custom = "u256_numeric_string"
  BY DEF Numeric, Custom, Is
<1>2. \A n : Encode2(Numeric, n) = EncodeNumeric(n)
  BY <1>1 DEF Encode2, EncodeLayer, EncodeItem, EncodeCustom
<1>3. \A n : Encode3(Numeric, n) = EncodeNumeric(n)
  BY <1>1 DEF Encode3, EncodeLayer, EncodeItem, EncodeCustom
<1>4. \A n : Is2(Numeric, n) => n \in Nat
  BY <1>1 DEF Is2, IsLayer, IsItem, IsCustom
<1>5. \A n : Is3(Numeric, n) => n \in Nat
  BY <1>1 DEF Is3, IsLayer, IsItem, IsCustom
<1> QED
  BY <1>2, <1>3, <1>4, <1>5

\* A transaction result is written if its numbers fit.
LEMMA ResultWritten ==
  ASSUME NEW r, HasFields(Is2, EthCallBundleTransactionResult, r),
         ~\E n \in {r.coinbaseDiff, r.ethSentToCoinbase, r.gasFees, r.gasPrice} : n > u128_MAX
  PROVE  EncodeFields(Encode2, EthCallBundleTransactionResult, r) # {}
<1> DEFINE fields == EthCallBundleTransactionResult
<1>0. \A f \in DOMAIN fields : fields[f].mode = "required"
  BY DEF EthCallBundleTransactionResult, Required
<1>1. \A f \in DOMAIN fields : Is2(fields[f].type, r[f])
  <2>1. HasFields(Is2, fields, r)
    OBVIOUS
  <2> HIDE DEF fields
  <2> QED
    BY <1>0, <2>1 DEF HasFields, IsField
<1>2. \A f \in DOMAIN fields : \/ fields[f].type = Numeric /\ ~(r[f] > u128_MAX)
                               \/ ~HoldsNumbers(fields[f].type)
  BY
   DEF EthCallBundleTransactionResult, Required, HoldsNumbers, IsNumeric, IsWide,
       WideStructs, Is, HexT, NumberT, Leaf
<1> HIDE DEF fields
<1>3. ASSUME NEW f \in WrittenFields(fields, r) PROVE EncodeField(Encode2, fields[f], r[f]) # {}
  <2>1. f \in DOMAIN fields
    BY DEF WrittenFields
  <2>2. CASE fields[f].type = Numeric /\ ~(r[f] > u128_MAX)
    BY <1>0, <1>1, <2>1, <2>2, NumericAt, NumberWritten DEF EncodeField
  <2>3. CASE ~HoldsNumbers(fields[f].type)
    BY <1>0, <1>1, <2>1, <2>3, Written2 DEF EncodeField
  <2> QED
    BY <1>2, <2>1, <2>2, <2>3
<1>4. Combine([f \in WrittenFields(fields, r) |-> EncodeField(Encode2, fields[f], r[f])]) # {}
  BY <1>3, CombineNonempty
<1> QED
  BY <1>4 DEF EncodeFields, fields

\* An EthCallBundleResponse is written if its numbers and those of its results fit.
LEMMA CallBundleWritten ==
  ASSUME NEW v, HasFields(Is3, EthCallBundleResponse, v), ~TooWide(v)
  PROVE  EncodeFields(Encode3, EthCallBundleResponse, v) # {}
<1> DEFINE fields == EthCallBundleResponse
           resultsT == Vec(Struct("EthCallBundleTransactionResult"))
<1>0. \A f \in DOMAIN fields : fields[f].mode = "required"
  BY DEF EthCallBundleResponse, Required
<1>1. \A f \in DOMAIN fields : Is3(fields[f].type, v[f])
  <2>1. HasFields(Is3, fields, v)
    OBVIOUS
  <2> HIDE DEF fields
  <2> QED
    BY <1>0, <2>1 DEF HasFields, IsField
<1>2. \A f \in DOMAIN fields : \/ fields[f].type = Numeric /\ ~(v[f] > u128_MAX)
                               \/ f = "results" /\ fields[f].type = resultsT
                               \/ ~HoldsNumbers(fields[f].type)
  BY
   DEF EthCallBundleResponse, Required, HoldsNumbers, IsNumeric, IsWide, WideStructs, Is,
       HexT, NumberT, StringT,
         Leaf, TooWide
<1>3. Is3(resultsT, v["results"]) => Encode3(resultsT, v["results"]) # {}
  <2> SUFFICES ASSUME Is3(resultsT, v["results"]) PROVE Encode3(resultsT, v["results"]) # {}
    OBVIOUS
  <2> DEFINE itemT == Struct("EthCallBundleTransactionResult")
  <2>1. Is("vec", resultsT) /\ resultsT.vec = itemT
    BY DEF Is, Vec
  <2>2. /\ Is("struct", itemT) /\ ~Is("leaf", itemT) /\ ~Is("custom", itemT)
        /\ Fields[itemT.struct] = EthCallBundleTransactionResult
    BY DEF Is, Struct, Fields
  <2>3. ASSUME NEW i \in DOMAIN v["results"]
        PROVE  EncodeItem(Encode2, itemT, v["results"][i]) # {}
    <3>1. HasFields(Is2, EthCallBundleTransactionResult, v["results"][i])
      <4>1. IsItem(Is2, itemT, v["results"][i])
        BY <2>1 DEF Is3, IsLayer
      <4> QED
        BY <2>2, <4>1 DEF IsItem
    <3>2. EncodeFields(Encode2, EthCallBundleTransactionResult, v["results"][i]) # {}
      BY <3>1, ResultWritten DEF TooWide
    <3> QED
      BY <2>2, <3>2 DEF EncodeItem
  <2>4. Combine([i \in DOMAIN v["results"] |-> EncodeItem(Encode2, itemT, v["results"][i])]) # {}
    BY <2>3, CombineNonempty
  <2> QED
    BY <2>1, <2>4 DEF Encode3, EncodeLayer
<1> HIDE DEF fields, resultsT
<1>4. ASSUME NEW f \in WrittenFields(fields, v) PROVE EncodeField(Encode3, fields[f], v[f]) # {}
  <2>1. f \in DOMAIN fields
    BY DEF WrittenFields
  <2>2. CASE fields[f].type = Numeric /\ ~(v[f] > u128_MAX)
    BY <1>0, <1>1, <2>1, <2>2, NumericAt, NumberWritten DEF EncodeField
  <2>3. CASE f = "results" /\ fields[f].type = resultsT
    BY <1>0, <1>1, <1>3, <2>1, <2>3 DEF EncodeField
  <2>4. CASE ~HoldsNumbers(fields[f].type)
    BY <1>0, <1>1, <2>1, <2>4, Written3 DEF EncodeField
  <2> QED
    BY <1>2, <2>1, <2>2, <2>3, <2>4
<1>5. Combine([f \in WrittenFields(fields, v) |-> EncodeField(Encode3, fields[f], v[f])]) # {}
  BY <1>4, CombineNonempty
<1> QED
  BY <1>5 DEF EncodeFields, fields

-----------------------------------------------------------------------------
(* The methods.                                                            *)

\* The name of a struct that has fields.
IsStruct(type) == Is("struct", type) /\ type.struct \in DOMAIN Fields

\* The types of the methods: one or two params, structs but for hex strings; numeric strings are
\* in the params of eth_callBundle only.
LEMMA MethodTypes ==
  ASSUME NEW m \in Methods
  PROVE  /\ DOMAIN m.params \in {{1}, {1, 2}}
         /\ \A i \in DOMAIN m.params : IsStruct(m.params[i]) \/ m.params[i] = HexT
         /\ \/ IsStruct(m.result)
            \/ m.result \in {HexT, UnitT, BoolT, Custom("BundleStats")}
         /\ m.name # "eth_callBundle" => \A i \in DOMAIN m.params : ~HoldsNumbers(m.params[i])
         /\ m.name = "eth_callBundle" => m.params = <<Struct("EthCallBundleResponse")>>
<1> USE DEF Plain, Method, IsStruct, Is, Struct, HoldsNumbers, IsNumeric, IsWide, WideStructs,
           Fields, HexT, Leaf
<1>1. CASE m \in MevApi
  BY <1>1 DEF MevApi
<1>2. CASE m \in EthBundleApi
  BY <1>2 DEF EthBundleApi
<1>3. CASE m \in FlashbotsApi
  BY <1>3 DEF FlashbotsApi
<1> QED
  BY <1>1, <1>2, <1>3 DEF Methods

-----------------------------------------------------------------------------
(* What is on the wire and what comes of it.                               *)

\* json is what the sender has written for v, or that with one entry rewritten.
AreSent(type, v, altered, json) ==
  \/ altered = NotAltered /\ json \in Encode(type, v)
  \/ \E e \in Encode(type, v) :
       /\ Is("object", e)
       /\ altered \in Alterations(e.object)
       /\ json = Obj(Rewritten(e.object, altered))

\* The message carries values of the types; only its first object may be rewritten.
Sending(types) ==
  /\ message = [types |-> types, meant |-> message.meant, json |-> message.json,
                altered |-> message.altered]
  /\ AreValues(types, message.meant)
  /\ message.json = [i \in DOMAIN types |-> message.json[i]]
  /\ AreSent(types[1], message.meant[1], message.altered, message.json[1])
  /\ \A i \in DOMAIN types \ {1} : message.json[i] \in Encode(types[i], message.meant[i])

\* The request on its way, and what the server made of it.
RequestInv ==
  /\ stage \in {"requested", "taken", "rejected"} => Sending(method.params)
  /\ stage = "taken" => taken \in Read(message.types, message.json)
  /\ stage = "rejected" => Read(message.types, message.json) = {}

\* The ends of a call in which the client got an answer.
Received(kind) == kind \in {"value", "unreadable", "answer_panic"}

\* The answer on its way, and what the client made of it.
AnswerInv ==
  /\ stage = "answered" \/ Received(outcome.kind) => Sending(<<method.result>>)
  /\ Received(outcome.kind) =>
       /\ outcome.kind = "answer_panic" <=> Panics(method.result, message.json[1])
       /\ outcome.value = IF outcome.kind = "answer_panic" THEN {}
                          ELSE Decode(method.result, message.json[1])

\* A call that did not get on its way had typed params that cannot be written.
CallPanicInv ==
  outcome.kind = "call_panic" =>
    AreValues(method.params, message.meant) /\ Written(method.params, message.meant) = {}

\* The inductive invariant.
RpcInv ==
  /\ method \in Methods
  /\ stage # "done" => outcome = NoOutcome
  /\ RequestInv
  /\ AnswerInv
  /\ CallPanicInv

\* The outermost layer of a struct.
LEMMA StructLayer ==
  ASSUME NEW type, IsStruct(type)
  PROVE  /\ Is("struct", type) /\ type # Custom("BundleStats")
         /\ \A v : Encode(type, v) = EncodeFields(Encode3, Fields[type.struct], v)
         /\ \A json : Decode(type, json) = DecodeFields(Decode3, Fields[type.struct], json)
         /\ \A v : IsValue(type, v) <=> HasFields(Is3, Fields[type.struct], v)
<1>1. /\ Is("struct", type) /\ ~Is("vec", type) /\ ~Is("leaf", type) /\ ~Is("custom", type)
      /\ type.struct \in DOMAIN Fields
  BY DEF IsStruct, Is
<1>2. Is("custom", Custom("BundleStats"))
  BY DEF Is, Custom
<1>3. type # Custom("BundleStats")
  BY <1>1, <1>2
<1>4. \A v : Encode(type, v) = EncodeFields(Encode3, Fields[type.struct], v)
  BY <1>1 DEF Encode, EncodeLayer, EncodeItem
<1>5. \A json : Decode(type, json) = DecodeFields(Decode3, Fields[type.struct], json)
  BY <1>1 DEF Decode, DecodeLayer, DecodeItem
<1>6. \A v : IsValue(type, v) <=> HasFields(Is3, Fields[type.struct], v)
  BY <1>1, <1>3 DEF IsValue, Is4, IsLayer, IsItem
<1> QED
  BY <1>1, <1>3, <1>4, <1>5, <1>6

\* The outermost layer of bundle statistics.
LEMMA StatsLayer ==
  LET type == Custom("BundleStats") IN
  /\ ~IsStruct(type) /\ ~Is("struct", type)
  /\ \A v : IsValue(type, v) <=> IsStats(v)
  /\ \A json : Decode(type, json) = StatsOf(json)
<1> DEFINE type == Custom("BundleStats")
<1>1. /\ Is("custom", type) /\ ~Is("vec", type) /\ ~Is("leaf", type) /\ ~Is("struct", type)
      /\ type.custom = "BundleStats"
  BY DEF Is, Custom
<1>2. \A json : Decode(type, json) = StatsOf(json)
  BY <1>1 DEF Decode, DecodeLayer, DecodeItem, DecodeCustom, StatsOf
<1> QED
  BY <1>1, <1>2 DEF IsValue, IsStruct

\* The outermost layer of the leaves that methods take and return: never an object.
LEMMA LeafLayer ==
  ASSUME NEW type \in {HexT, UnitT, BoolT}
  PROVE  /\ ~Is("struct", type) /\ type # Custom("BundleStats")
         /\ \A v, e : e \in Encode(type, v) => ~Is("object", e)
<1>1. /\ Is("leaf", type) /\ ~Is("vec", type) /\ ~Is("struct", type) /\ ~Is("custom", type)
      /\ type.leaf \in {"hex", "unit", "bool"}
  BY DEF HexT, UnitT, BoolT, Leaf, Is
<1>2. type # Custom("BundleStats")
  <2>1. Is("custom", Custom("BundleStats"))
    BY DEF Is, Custom
  <2> QED
    BY <1>1, <2>1
<1>3. \A v : Encode(type, v) = {EncodeLeaf(type.leaf, v)}
  BY <1>1 DEF Encode, EncodeLayer, EncodeItem
<1>4. \A v : ~Is("object", EncodeLeaf(type.leaf, v))
  BY <1>1 DEF EncodeLeaf, Is, Str, Bool, Null
<1> QED
  BY <1>1, <1>2, <1>3, <1>4

\* The codec reads what it has written, for every value of every type but the statistics.
LEMMA ValueRead ==
  ASSUME NEW type, type # Custom("BundleStats"), NEW v, IsValue(type, v),
         NEW e \in Encode(type, v)
  PROVE  Decode(type, e) = {v}
BY Read4 DEF IsValue, ReadAs

\* A struct is read as it was meant, rewritten or not.
LEMMA StructSent ==
  ASSUME NEW type, IsStruct(type), NEW v, IsValue(type, v),
         NEW a, NEW json, AreSent(type, v, a, json)
  PROVE  Decode(type, json) = Reading(Fields[type.struct], v, a)
<1>1. CASE a = NotAltered /\ json \in Encode(type, v)
  <2>1. Decode(type, json) = {v}
    BY <1>1, StructLayer, ValueRead
  <2> QED
    BY <1>1, <2>1 DEF Reading, NotAltered
<1>2. ASSUME NEW e \in Encode(type, v), a \in Alterations(e.object),
             json = Obj(Rewritten(e.object, a))
      PROVE  Decode(type, json) = Reading(Fields[type.struct], v, a)
  <2>1. AreRegular(Fields[type.struct])
    BY FieldsRegular DEF IsStruct
  <2> QED
    BY <1>2, <2>1, StructLayer, RewrittenRead
<1> QED
  BY <1>1, <1>2 DEF AreSent

\* A leaf cannot be rewritten.
LEMMA LeafSent ==
  ASSUME NEW type \in {HexT, UnitT, BoolT}, NEW v, IsValue(type, v),
         NEW a, NEW json, AreSent(type, v, a, json)
  PROVE  Decode(type, json) = {v}
BY LeafLayer, ValueRead DEF AreSent

\* Statistics are read as they were meant, rewritten or not, or the client panics.
LEMMA StatsSent ==
  ASSUME NEW v, IsStats(v), NEW a, NEW json, AreSent(Custom("BundleStats"), v, a, json)
  PROVE  /\ StatsPanic(json.object) =>
              /\ v.variant # "Unknown" /\ a = [kind |-> "omit", field |-> "isSimulated"]
              /\ ReadingOfStats(v, a) = {}
         /\ StatsAgree(v) /\ ~StatsPanic(json.object) =>
              Decode(Custom("BundleStats"), json) = ReadingOfStats(v, a)
<1>1. CASE a = NotAltered /\ json \in Encode(Custom("BundleStats"), v)
  <2>1. ~StatsPanic(json.object)
    BY <1>1, StatsWritten DEF StatsPanic
  <2>2. ASSUME StatsAgree(v)
        PROVE  Decode(Custom("BundleStats"), json) = ReadingOfStats(v, a)
    <3>1. Decode(Custom("BundleStats"), json) = {v}
      BY <1>1, <2>2, StatsRead, StatsLayer
    <3>2. v = [variant |-> v.variant, fields |-> v.fields]
          /\ (v.variant = "Unknown" => v.fields = [isSimulated |-> FALSE])
      BY <1>1, StatsWritten
    <3>3. CASE v.variant = "Unknown"
      BY <3>1, <3>2, <3>3 DEF ReadingOfStats
    <3>4. CASE v.variant # "Unknown"
      <4>1. ReadingOfStats(v, a) = {[v EXCEPT !.fields = w] : w \in {v.fields}}
        BY <1>1, <3>4 DEF ReadingOfStats, Reading, NotAltered
      <4>2. [v EXCEPT !.fields = v.fields] = v
        BY <3>2
      <4> QED
        BY <3>1, <4>1, <4>2
    <3> QED
      BY <3>3, <3>4
  <2> QED
    BY <2>1, <2>2
<1>2. ASSUME NEW e \in Encode(Custom("BundleStats"), v), a \in Alterations(e.object),
             json = Obj(Rewritten(e.object, a))
      PROVE  /\ StatsPanic(json.object) =>
                  /\ v.variant # "Unknown" /\ a = [kind |-> "omit", field |-> "isSimulated"]
                  /\ ReadingOfStats(v, a) = {}
             /\ StatsAgree(v) /\ ~StatsPanic(json.object) =>
                  Decode(Custom("BundleStats"), json) = ReadingOfStats(v, a)
  <2>1. json.object = Rewritten(e.object, a)
    BY <1>2 DEF Obj
  <2> QED
    BY <1>2, <2>1, StatsRewrittenPanic, StatsRewrittenRead, StatsLayer
<1> QED
  BY <1>1, <1>2 DEF AreSent

\* There is at most one reading.
LEMMA ReadingIsOne ==
  ASSUME NEW fields, NEW v, NEW a
  PROVE  Reading(fields, v, a) = {} \/ \E w : Reading(fields, v, a) = {w}
BY DEF Reading

\* What the server reads from a request on its way.
LEMMA RequestRead ==
  ASSUME NEW m \in Methods, Sending(m.params)
  PROVE  LET type  == message.types[1]
             v     == message.meant[1]
             first == IF Is("struct", type) THEN Reading(Fields[type.struct], v, message.altered)
                      ELSE {v}
             read  == Read(message.types, message.json) IN
         /\ read = {} => first = {}
         /\ \A params \in read : {params[1]} = first /\ Tail(params) = Tail(message.meant)
<1> DEFINE types == m.params
           meant == message.meant
           json  == message.json
           first == IF Is("struct", types[1])
                    THEN Reading(Fields[types[1].struct], meant[1], message.altered)
                    ELSE {meant[1]}
           reads == [i \in DOMAIN types |-> Decode(types[i], json[i])]
<1>1. /\ message.types = types
      /\ meant = [i \in DOMAIN types |-> meant[i]]
      /\ \A i \in DOMAIN types : IsValue(types[i], meant[i])
      /\ AreSent(types[1], meant[1], message.altered, json[1])
      /\ \A i \in DOMAIN types \ {1} : json[i] \in Encode(types[i], meant[i])
  BY DEF Sending, AreValues
<1>2. /\ DOMAIN types \in {{1}, {1, 2}}
      /\ \A i \in DOMAIN types : IsStruct(types[i]) \/ types[i] = HexT
  BY MethodTypes
<1>3. reads[1] = first
  <2>1. 1 \in DOMAIN types
    BY <1>2
  <2>2. CASE IsStruct(types[1])
    BY <1>1, <2>1, <2>2, StructSent, StructLayer
  <2>3. CASE types[1] = HexT
    BY <1>1, <2>1, <2>3, LeafSent, LeafLayer
  <2> QED
    BY <1>2, <2>1, <2>2, <2>3
<1>4. \A i \in DOMAIN types \ {1} : reads[i] = {meant[i]}
  <2>1. \A i \in DOMAIN types : types[i] # Custom("BundleStats")
    BY <1>2, StructLayer, LeafLayer
  <2> QED
    BY <1>1, <2>1, ValueRead
<1>5. DOMAIN reads = DOMAIN types /\ Read(message.types, json) = Combine(reads)
  BY <1>1 DEF Read
<1>6. first = {} \/ \E w : first = {w}
  BY ReadingIsOne
<1> HIDE DEF reads, first
<1>7. Combine(reads) = {} => first = {}
  BY <1>2, <1>3, <1>4, <1>5, <1>6, CombineNonempty
<1>8. ASSUME NEW params \in Combine(reads)
      PROVE  {params[1]} = first /\ Tail(params) = Tail(meant)
  <2>1. /\ params = [i \in DOMAIN types |-> params[i]]
        /\ \A i \in DOMAIN types : params[i] \in reads[i]
    BY <1>5, CombineMember
  <2>2. {params[1]} = first
    BY <1>2, <1>3, <1>6, <2>1
  <2>3. CASE DOMAIN types = {1}
    <3>1. params = <<params[1]>> /\ meant = <<meant[1]>>
      BY <1>1, <2>1, <2>3
    <3> QED
      BY <2>2, <3>1
  <2>4. CASE DOMAIN types = {1, 2}
    <3>1. params = <<params[1], params[2]>> /\ meant = <<meant[1], meant[2]>>
      BY <1>1, <2>1, <2>4
    <3>2. params[2] = meant[2]
      BY <1>4, <2>1, <2>4
    <3> QED
      BY <2>2, <3>1, <3>2
  <2> QED
    BY <1>2, <2>3, <2>4
<1> QED
  BY <1>1, <1>5, <1>7, <1>8 DEF first

\* Only the two methods of FlashbotsApiClient take other arguments than they send.
LEMMA MethodParams ==
  ASSUME NEW m \in Methods
  PROVE  \/ /\ m.name \notin {"flashbots_getUserStatsV2", "flashbots_getBundleStatsV2"}
            /\ m.params = m.args
         \/ /\ m.name = "flashbots_getUserStatsV2"
            /\ m.args = <<HexT>> /\ m.params = <<Struct("GetUserStatsRequest")>>
         \/ /\ m.name = "flashbots_getBundleStatsV2"
            /\ m.args = <<HexT, HexT>> /\ m.params = <<Struct("GetBundleStatsRequest")>>
<1>1. CASE m \in MevApi
  BY <1>1 DEF MevApi, Plain, Method
<1>2. CASE m \in EthBundleApi
  BY <1>2 DEF EthBundleApi, Plain, Method
<1>3. CASE m \in FlashbotsApi
  BY <1>3 DEF FlashbotsApi, Method
<1> QED
  BY <1>1, <1>2, <1>3 DEF Methods

\* A hex argument is one within a struct, too.
LEMMA HexValue ==
  ASSUME NEW x, IsValue(HexT, x)
  PROVE  Is3(HexT, x)
<1>1. /\ Is("leaf", HexT) /\ ~Is("vec", HexT) /\ ~Is("struct", HexT) /\ ~Is("custom", HexT)
      /\ HexT.leaf = "hex"
  BY DEF HexT, Leaf, Is
<1>2. HexT # Custom("BundleStats")
  BY LeafLayer
<1>3. IsLeaf("hex", x)
  BY <1>1, <1>2 DEF IsValue, Is4, IsLayer, IsItem
<1> QED
  BY <1>1, <1>3 DEF Is3, IsLayer, IsItem

\* ParamsOf makes typed params out of typed arguments.
LEMMA ParamsTyped ==
  ASSUME NEW m \in Methods, NEW args \in Passed(m.args)
  PROVE  AreValues(m.params, ParamsOf(m, args))
<1>1. AreValues(m.args, args)
  BY PassedAssumption
<1>2. CASE /\ m.name \notin {"flashbots_getUserStatsV2", "flashbots_getBundleStatsV2"}
           /\ m.params = m.args
  BY <1>1, <1>2 DEF ParamsOf
<1>3. CASE /\ m.name = "flashbots_getUserStatsV2"
           /\ m.args = <<HexT>> /\ m.params = <<Struct("GetUserStatsRequest")>>
  <2> DEFINE v == [blockNumber |-> args[1]]
             type == Struct("GetUserStatsRequest")
  <2>1. ParamsOf(m, args) = <<v>>
    BY <1>3 DEF ParamsOf
  <2>2. Is3(HexT, args[1])
    BY <1>1, <1>3, HexValue DEF AreValues
  <2>3. HasFields(Is3, GetUserStatsRequest, v)
    BY <2>2 DEF HasFields, IsField, GetUserStatsRequest, Required
  <2>4. IsStruct(type) /\ Fields[type.struct] = GetUserStatsRequest
    BY DEF IsStruct, Is, Struct, Fields
  <2>5. IsValue(type, v)
    BY <2>3, <2>4, StructLayer
  <2> HIDE DEF v, type
  <2>6. AreValues(<<type>>, <<v>>)
    BY <2>5 DEF AreValues
  <2> QED
    BY <1>3, <2>1, <2>6 DEF type
<1>4. CASE /\ m.name = "flashbots_getBundleStatsV2"
           /\ m.args = <<HexT, HexT>> /\ m.params = <<Struct("GetBundleStatsRequest")>>
  <2> DEFINE v == [bundleHash |-> args[1], blockNumber |-> args[2]]
             type == Struct("GetBundleStatsRequest")
  <2>1. ParamsOf(m, args) = <<v>>
    BY <1>4 DEF ParamsOf
  <2>2. Is3(HexT, args[1]) /\ Is3(HexT, args[2])
    BY <1>1, <1>4, HexValue DEF AreValues
  <2>3. HasFields(Is3, GetBundleStatsRequest, v)
    BY <2>2 DEF HasFields, IsField, GetBundleStatsRequest, Required
  <2>4. IsStruct(type) /\ Fields[type.struct] = GetBundleStatsRequest
    BY DEF IsStruct, Is, Struct, Fields
  <2>5. IsValue(type, v)
    BY <2>3, <2>4, StructLayer
  <2> HIDE DEF v, type
  <2>6. AreValues(<<type>>, <<v>>)
    BY <2>5 DEF AreValues
  <2> QED
    BY <1>4, <2>1, <2>6 DEF type
<1> QED
  BY <1>2, <1>3, <1>4, MethodParams

\* Params that cannot be written belong to eth_callBundle and are too wide.
LEMMA ParamsWritten ==
  ASSUME NEW m \in Methods, NEW params, AreValues(m.params, params),
         Written(m.params, params) = {}
  PROVE  m.name = "eth_callBundle" /\ TooWide(params[1])
<1>1. PICK i \in DOMAIN m.params : Encode(m.params[i], params[i]) = {}
  BY CombineNonempty DEF Written
<1>2. IsValue(m.params[i], params[i])
  BY DEF AreValues
<1>3. IsStruct(m.params[i]) \/ m.params[i] = HexT
  BY MethodTypes
<1>4. m.params[i] # Custom("BundleStats")
  BY <1>3, StructLayer, LeafLayer
<1>5. m.name = "eth_callBundle"
  <2> SUFFICES ASSUME m.name # "eth_callBundle" PROVE FALSE
    OBVIOUS
  <2>1. ~HoldsNumbers(m.params[i])
    BY MethodTypes
  <2> QED
    BY <1>1, <1>2, <1>4, <2>1, Written4 DEF IsValue
<1>6. TooWide(params[1])
  <2> SUFFICES ASSUME ~TooWide(params[1]) PROVE FALSE
    OBVIOUS
  <2> DEFINE type == Struct("EthCallBundleResponse")
  <2>1. i = 1 /\ m.params[i] = type
    BY <1>5, MethodTypes
  <2>2. IsStruct(type) /\ Fields[type.struct] = EthCallBundleResponse
    BY DEF IsStruct, Is, Struct, Fields
  <2> HIDE DEF type
  <2>3. HasFields(Is3, EthCallBundleResponse, params[1])
    BY <1>2, <2>1, <2>2, StructLayer
  <2>4. EncodeFields(Encode3, EthCallBundleResponse, params[1]) # {}
    BY <2>3, CallBundleWritten
  <2> QED
    BY <1>1, <2>1, <2>2, <2>4, StructLayer
<1> QED
  BY <1>5, <1>6

-----------------------------------------------------------------------------
(* The invariant.                                                          *)

\* A message as this crate sends it.
LEMMA Unaltered ==
  ASSUME NEW types, 1 \in DOMAIN types, NEW values, AreValues(types, values),
         NEW sent \in Written(types, values), message' = Message(types, values, sent)
  PROVE  Sending(types)'
<1>1. /\ sent = [i \in DOMAIN types |-> sent[i]]
      /\ \A i \in DOMAIN types : sent[i] \in Encode(types[i], values[i])
  BY CombineMember DEF Written
<1>2. message' = [types |-> types, meant |-> values, json |-> sent, altered |-> NotAltered]
  BY DEF Message
<1> QED
  BY <1>1, <1>2 DEF Sending, AreSent

\* A message that is rewritten on its way.
LEMMA Altered ==
  ASSUME NEW types, 1 \in DOMAIN types, Sending(types), Rewrite
  PROVE  Sending(types)'
<1> DEFINE json == message.json
           map == json[1].object
<1>1. PICK a \in Alterations(map) :
        message' = [message EXCEPT !.json[1] = Obj(Rewritten(map, a)), !.altered = a]
  BY DEF Rewrite
<1>2. message.altered = NotAltered /\ Is("object", json[1])
  BY DEF Rewrite
<1>3. /\ message = [types |-> types, meant |-> message.meant, json |-> json,
                    altered |-> message.altered]
      /\ AreValues(types, message.meant)
      /\ json = [i \in DOMAIN types |-> json[i]]
      /\ \A i \in DOMAIN types \ {1} : json[i] \in Encode(types[i], message.meant[i])
  BY DEF Sending
<1>4. json[1] \in Encode(types[1], message.meant[1])
  <2>1. AreSent(types[1], message.meant[1], NotAltered, json[1])
    BY <1>2 DEF Sending
  <2>2. ASSUME NEW e, NotAltered \in Alterations(e.object) PROVE FALSE
    BY <2>2 DEF NotAltered, Alterations
  <2> QED
    BY <2>1, <2>2 DEF AreSent
<1> DEFINE new == [json EXCEPT ![1] = Obj(Rewritten(map, a))]
<1>5. message' = [types |-> types, meant |-> message.meant, json |-> new, altered |-> a]
  <2> HIDE DEF map
  <2>1. message' = [message EXCEPT !.json = new, !.altered = a]
    BY <1>1
  <2> HIDE DEF new, json
  <2>2. PICK other : other = [message EXCEPT !.json = new]
    OBVIOUS
  <2>3. other = [types |-> types, meant |-> message.meant, json |-> new,
                 altered |-> message.altered]
    BY <1>3, <2>2
  <2>4. message' = [other EXCEPT !.altered = a]
    BY <2>1, <2>2
  <2> QED
    BY <2>3, <2>4
<1>6. /\ new = [i \in DOMAIN types |-> new[i]]
      /\ new[1] = Obj(Rewritten(map, a))
      /\ \A i \in DOMAIN types \ {1} : new[i] = json[i]
  BY <1>3
<1> HIDE DEF new
<1>7. AreSent(types[1], message.meant[1], a, new[1])
  BY <1>2, <1>4, <1>6 DEF AreSent
<1>8. message'.meant = message.meant /\ message'.json = new /\ message'.altered = a
  BY <1>5
<1> QED
  BY <1>3, <1>5, <1>6, <1>7, <1>8 DEF Sending

\* There is a first param, and a result is one.
LEMMA TypesStart ==
  ASSUME NEW m \in Methods
  PROVE  1 \in DOMAIN m.params /\ DOMAIN <<m.result>> = {1}
BY MethodTypes

\* The invariant holds at first.
LEMMA RpcInit == Init => RpcInv
BY DEF Init, RpcInv, RequestInv, AnswerInv, CallPanicInv, NoOutcome, Received

\* Every step keeps it.
LEMMA RpcStep == RpcInv /\ [Next]_vars => RpcInv'
<1> SUFFICES ASSUME RpcInv, [Next]_vars PROVE RpcInv'
  OBVIOUS
<1>0. method \in Methods /\ RequestInv /\ AnswerInv /\ CallPanicInv
      /\ (stage # "done" => outcome = NoOutcome)
  BY DEF RpcInv
<1> USE DEF Received
<1>1. CASE Call
  <2>1. /\ stage = "idle" /\ outcome = NoOutcome /\ method' = method /\ taken' = taken
    BY <1>0, <1>1 DEF Call
  <2>2. PICK args \in Passed(method.args) :
          LET params == ParamsOf(method, args)
              json   == Written(method.params, params) IN
          \/ /\ json = {}
             /\ message' = Message(method.params, params, <<>>)
             /\ Done("call_panic", {})
          \/ \E sent \in json :
               /\ message' = Message(method.params, params, sent)
               /\ stage' = "requested"
               /\ UNCHANGED outcome
    BY <1>1 DEF Call
  <2> DEFINE params == ParamsOf(method, args)
  <2>3. AreValues(method.params, params)
    BY <1>0, ParamsTyped
  <2>4. CASE /\ Written(method.params, params) = {}
             /\ message' = Message(method.params, params, <<>>)
             /\ Done("call_panic", {})
    <3>1. message'.meant = params /\ stage' = "done" /\ outcome'.kind = "call_panic"
      BY <2>4 DEF Message, Done
    <3>2. CallPanicInv'
      BY <2>1, <2>3, <2>4, <3>1 DEF CallPanicInv
    <3> QED
      BY <1>0, <2>1, <3>1, <3>2 DEF RpcInv, RequestInv, AnswerInv
  <2>5. ASSUME NEW sent \in Written(method.params, params),
               message' = Message(method.params, params, sent), stage' = "requested",
               UNCHANGED outcome
        PROVE  RpcInv'
    <3>1. Sending(method.params)'
      BY <1>0, <2>1, <2>3, <2>5, TypesStart, Unaltered
    <3> QED
      BY <1>0, <2>1, <2>5, <3>1 DEF RpcInv, RequestInv, AnswerInv, CallPanicInv, NoOutcome
  <2> QED
    BY <2>2, <2>4, <2>5
<1>2. CASE Rewrite
  <2>1. /\ stage \in {"requested", "answered"} /\ outcome = NoOutcome
        /\ UNCHANGED <<method, stage, taken, outcome>>
    BY <1>0, <1>2 DEF Rewrite
  <2>2. CASE stage = "requested"
    <3>1. Sending(method.params)
      BY <1>0, <2>2 DEF RequestInv
    <3>2. Sending(method.params)'
      BY <1>0, <1>2, <2>1, <3>1, TypesStart, Altered
    <3> QED
      BY <1>0, <2>1, <2>2, <3>2 DEF RpcInv, RequestInv, AnswerInv, CallPanicInv, NoOutcome
  <2>3. CASE stage = "answered"
    <3>1. Sending(<<method.result>>)
      BY <1>0, <2>3 DEF AnswerInv
    <3>2. Sending(<<method.result>>)'
      BY <1>0, <1>2, <2>1, <3>1, TypesStart, Altered
    <3> QED
      BY <1>0, <2>1, <2>3, <3>2 DEF RpcInv, RequestInv, AnswerInv, CallPanicInv, NoOutcome
  <2> QED
    BY <2>1, <2>2, <2>3
<1>3. CASE ServerReceives
  <2>1. /\ stage = "requested" /\ outcome = NoOutcome /\ Sending(method.params)
        /\ UNCHANGED <<method, message, outcome>>
    BY <1>0, <1>3 DEF ServerReceives, RequestInv
  <2>2. \/ stage' = "rejected" /\ Read(message.types, message.json) = {}
        \/ stage' = "taken" /\ taken' \in Read(message.types, message.json)
    BY <1>3 DEF ServerReceives
  <2>3. Sending(method.params)'
    BY <2>1 DEF Sending
  <2> QED
    BY <1>0, <2>1, <2>2, <2>3 DEF RpcInv, RequestInv, AnswerInv, CallPanicInv, NoOutcome
<1>4. CASE Serve
  BY <1>0, <1>4 DEF Serve, RpcInv, RequestInv, AnswerInv, CallPanicInv, NoOutcome
<1>5. CASE Answer
  <2>1. stage = "serving" /\ outcome = NoOutcome /\ UNCHANGED <<method, taken>>
    BY <1>0, <1>5 DEF Answer
  <2>2. PICK result \in Passed(<<method.result>>) :
          LET json == Written(<<method.result>>, result) IN
          \/ /\ json = {}
             /\ Done("error", {})
             /\ UNCHANGED message
          \/ \E sent \in json :
               /\ message' = Message(<<method.result>>, result, sent)
               /\ stage' = "answered"
               /\ UNCHANGED outcome
    BY <1>5 DEF Answer
  <2>3. CASE Done("error", {})
    BY <1>0, <2>1, <2>3 DEF Done, RpcInv, RequestInv, AnswerInv, CallPanicInv
  <2>4. ASSUME NEW sent \in Written(<<method.result>>, result),
               message' = Message(<<method.result>>, result, sent), stage' = "answered",
               UNCHANGED outcome
        PROVE  RpcInv'
    <3>1. AreValues(<<method.result>>, result)
      BY <1>0, PassedAssumption
    <3>2. Sending(<<method.result>>)'
      BY <1>0, <2>1, <2>4, <3>1, TypesStart, Unaltered
    <3> QED
      BY <1>0, <2>1, <2>4, <3>2 DEF RpcInv, RequestInv, AnswerInv, CallPanicInv, NoOutcome
  <2> QED
    BY <2>2, <2>3, <2>4
<1>6. CASE AnswerError
  BY <1>0, <1>6 DEF AnswerError, Done, RpcInv, RequestInv, AnswerInv, CallPanicInv
<1>7. CASE ClientReceives
  <2>1. stage = "answered" /\ Sending(<<method.result>>) /\ UNCHANGED <<method, message, taken>>
    BY <1>0, <1>7 DEF ClientReceives, AnswerInv
  <2>2. Sending(<<method.result>>)'
    BY <2>1 DEF Sending
  <2>3. /\ stage' = "done" /\ outcome'.kind \in {"value", "unreadable", "answer_panic"}
        /\ outcome'.kind = "answer_panic" <=> Panics(method.result, message.json[1])
        /\ outcome'.value = IF outcome'.kind = "answer_panic" THEN {}
                            ELSE Decode(method.result, message.json[1])
    BY <1>7 DEF ClientReceives, Done
  <2> QED
    BY <1>0, <2>1, <2>2, <2>3 DEF RpcInv, RequestInv, AnswerInv, CallPanicInv
<1>8. CASE Finish
  BY <1>0, <1>8 DEF Finish, RpcInv, RequestInv, AnswerInv, CallPanicInv, NoOutcome
<1>9. CASE UNCHANGED vars
  BY <1>0, <1>9 DEF vars, RpcInv, RequestInv, AnswerInv, CallPanicInv, Sending
<1> QED
  BY <1>1, <1>2, <1>3, <1>4, <1>5, <1>6, <1>7, <1>8, <1>9 DEF Next

\* It holds always.
LEMMA RpcInvariant == Spec => []RpcInv
BY RpcInit, RpcStep, PTL DEF Spec

\* Whoever has written a request, the server of the trait takes the params that were meant, with
\* the defaults for what was left out, and rejects it only if something required is missing.
THEOREM RequestsUnderstood == Spec => []RequestUnderstood
<1>1. RpcInv => RequestUnderstood
  <2> SUFFICES ASSUME RpcInv, stage \in {"taken", "rejected"} PROVE RequestUnderstood
    BY DEF RequestUnderstood
  <2>1. /\ method \in Methods /\ Sending(method.params)
        /\ stage = "taken" => taken \in Read(message.types, message.json)
        /\ stage = "rejected" => Read(message.types, message.json) = {}
    BY DEF RpcInv, RequestInv
  <2>2. LET type  == message.types[1]
            v     == message.meant[1]
            first == IF Is("struct", type) THEN Reading(Fields[type.struct], v, message.altered)
                     ELSE {v}
            read  == Read(message.types, message.json) IN
        /\ read = {} => first = {}
        /\ \A params \in read : {params[1]} = first /\ Tail(params) = Tail(message.meant)
    BY <2>1, RequestRead
  <2> QED
    BY <2>1, <2>2 DEF RequestUnderstood
<1> QED
  BY <1>1, RpcInvariant, PTL

\* What is known of an answer that was received.
LEMMA AnswerSent ==
  ASSUME RpcInv, Received(outcome.kind)
  PROVE  /\ method \in Methods
         /\ IsValue(method.result, message.meant[1])
         /\ AreSent(method.result, message.meant[1], message.altered, message.json[1])
         /\ outcome.kind = "answer_panic" <=> Panics(method.result, message.json[1])
         /\ outcome.value = IF outcome.kind = "answer_panic" THEN {}
                            ELSE Decode(method.result, message.json[1])
<1>1. /\ method \in Methods /\ Sending(<<method.result>>)
      /\ outcome.kind = "answer_panic" <=> Panics(method.result, message.json[1])
      /\ outcome.value = IF outcome.kind = "answer_panic" THEN {}
                         ELSE Decode(method.result, message.json[1])
  BY DEF RpcInv, AnswerInv
<1>2. IsValue(method.result, message.meant[1])
      /\ AreSent(method.result, message.meant[1], message.altered, message.json[1])
  BY <1>1 DEF Sending, AreValues
<1> QED
  BY <1>1, <1>2

\* Statistics are sent as an object.
LEMMA StatsSentAsObject ==
  ASSUME NEW v, IsStats(v), NEW a, NEW json, AreSent(Custom("BundleStats"), v, a, json)
  PROVE  Is("object", json)
<1>1. CASE a = NotAltered /\ json \in Encode(Custom("BundleStats"), v)
  BY <1>1, StatsWritten
<1>2. ASSUME NEW map, json = Obj(map) PROVE Is("object", json)
  BY <1>2 DEF Is, Obj
<1> QED
  BY <1>1, <1>2 DEF AreSent

\* Whoever has written an answer, the client gets what was meant, with the same leniency.
THEOREM AnswersUnderstood == Spec => []AnswerUnderstood
<1>1. RpcInv => AnswerUnderstood
  <2> SUFFICES ASSUME RpcInv, Received(outcome.kind) PROVE AnswerUnderstood
    BY DEF AnswerUnderstood, Received
  <2> DEFINE type == method.result
             v == message.meant[1]
             a == message.altered
             json == message.json[1]
  <2>1. /\ method \in Methods /\ IsValue(type, v) /\ AreSent(type, v, a, json)
        /\ outcome.kind = "answer_panic" <=> Panics(type, json)
        /\ outcome.value = IF outcome.kind = "answer_panic" THEN {} ELSE Decode(type, json)
    BY AnswerSent
  <2>2. CASE IsStruct(type)
    <3>1. Is("struct", type) /\ type # Custom("BundleStats") /\ ~Panics(type, json)
      BY <2>2, StructLayer DEF Panics
    <3>2. outcome.value = Reading(Fields[type.struct], v, a)
      BY <2>1, <2>2, <3>1, StructSent
    <3> QED
      BY <3>1, <3>2 DEF AnswerUnderstood
  <2>3. CASE type \in {HexT, UnitT, BoolT}
    <3>1. ~Is("struct", type) /\ type # Custom("BundleStats") /\ ~Panics(type, json)
      BY <2>3, LeafLayer DEF Panics
    <3>2. outcome.value = {v}
      BY <2>1, <2>3, <3>1, LeafSent
    <3> QED
      BY <3>1, <3>2 DEF AnswerUnderstood
  <2>4. CASE type = Custom("BundleStats")
    <3>1. CASE ~StatsAgree(v)
      BY <2>4, <3>1 DEF AnswerUnderstood
    <3>2. CASE StatsAgree(v)
      <4>1. IsStats(v) /\ AreSent(Custom("BundleStats"), v, a, json)
        BY <2>1, <2>4, StatsLayer
      <4>2. Panics(type, json) <=> StatsPanic(json.object)
        BY <2>4, <4>1, StatsSentAsObject DEF Panics
      <4>3. outcome.value = ReadingOfStats(v, a)
        BY <2>1, <2>4, <3>2, <4>1, <4>2, StatsSent
      <4> QED
        BY <2>4, <3>2, <4>3 DEF AnswerUnderstood
    <3> QED
      BY <3>1, <3>2
  <2> QED
    BY <2>1, <2>2, <2>3, <2>4, MethodTypes
<1> QED
  BY <1>1, RpcInvariant, PTL

\* The client panics only on statistics with a receivedAt and no isSimulated, and on a number
\* that eth_callBundle is given and that does not fit in a u128.
THEOREM PanicsKnown == Spec => []PanicsAreKnown
<1>1. RpcInv => PanicsAreKnown
  <2> SUFFICES ASSUME RpcInv PROVE PanicsAreKnown
    OBVIOUS
  <2>1. ASSUME outcome.kind = "answer_panic"
        PROVE  /\ message.altered = [kind |-> "omit", field |-> "isSimulated"]
               /\ message.meant[1].variant # "Unknown"
    <3>1. /\ IsValue(method.result, message.meant[1])
          /\ AreSent(method.result, message.meant[1], message.altered, message.json[1])
          /\ Panics(method.result, message.json[1])
      BY <2>1, AnswerSent DEF Received
    <3>2. method.result = Custom("BundleStats") /\ StatsPanic(message.json[1].object)
      BY <3>1 DEF Panics
    <3> QED
      BY <3>1, <3>2, StatsLayer, StatsSent
  <2>2. ASSUME outcome.kind = "call_panic"
        PROVE  method.name = "eth_callBundle" /\ TooWide(message.meant[1])
    BY <2>2, ParamsWritten DEF RpcInv, CallPanicInv
  <2> QED
    BY <2>1, <2>2 DEF PanicsAreKnown
<1> QED
  BY <1>1, RpcInvariant, PTL
=============================================================================
