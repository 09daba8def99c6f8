------------------------------ MODULE DictCode ------------------------------
(***************************************************************************)
(* Code for mappings and arrays: the dictionary routines of TVMPusher.cpp  *)
(* and the classes of DictOperations.cpp.  And code for conversions:       *)
(* hardConvert and checkFit of TVMPusher.cpp and typeConversion of         *)
(* TVMFunctionCall.cpp.  A value of a tuple type is its components on the  *)
(* stack, the first one deepest.                                           *)
(***************************************************************************)
EXTENDS TypeRules, ValueCode

\* The form in which a value is handed to a dictionary opcode.
DataSuffix(d) == CASE d = "Slice" -> "" [] d = "Cell" -> "REF" [] d = "Builder" -> "B"

prepareKeyForDictOperations(key, doIgnoreBytes) ==
  IF isRefType(key) THEN IF doIgnoreBytes THEN <<>> ELSE pushDiff(0, "HASHCU")
  ELSE IF key.c = "Struct"
       THEN tupleToBuilder(key.sub) \o pushDiff(0, "ENDC") \o pushDiff(0, "CTOS")
  ELSE <<>>

\* value -> value in the form valueForm
valueForm(key, value) ==
  CASE value.c = "TvmSlice" -> "Slice"
    [] isRefType(value) -> "Cell"
    [] ~doesFitInOneCellAndHaveNoStruct(key, value) -> "Cell"
    [] value.c \in {"Address", "Contract"} -> "Slice"
    [] OTHER -> "Builder"
prepareValueForDictOperations(key, value) ==
  LET end == IF valueForm(key, value) = "Cell" THEN pushDiff(0, "ENDC") ELSE <<>> IN
  CASE value.c = "TvmSlice" \/ isRefType(value) -> <<>>
    [] value.c \in {"Address", "Contract"} ->
         IF end = <<>> THEN <<>> ELSE pushDiff(1, "NEWC") \o pushDiff(-1, "STSLICE") \o end
    [] value.c = "Struct" -> tupleToBuilder(value.sub) \o end
    [] OTHER -> pushDiff(1, "NEWC") \o store(value, FALSE) \o end

\* The constant that a private function computes at compile time (compureConstSlice,
\* compureConstCell; buildTuple).
createDefaultStructAsCell(ts) == createDefaultStruct(ts) \o tupleToBuilder(ts) \o push("ENDC")
defaultForm(key, value) ==
  CASE value.c = "Struct" /\ valueForm(key, value) = "Builder" -> "Slice"
    [] value.c \in {"Mapping", "ExtraCurrencyCollection"} -> "Slice"
    [] isUsualArray(value) -> "Builder"
    [] OTHER -> valueForm(key, value)
pushDefaultValueForDict(key, value) == Opaque(
  CASE value.c = "TvmSlice" \/ isRefType(value) -> pushDefaultValue(value)
    [] isUsualArray(value) -> pushDiff(1, "NEWC") \o pushInt(33) \o pushDiff(-1, "STZEROES")
    [] value.c \in {"Mapping", "ExtraCurrencyCollection"} -> pushValue(Slice(<<Bits("0", 1)>>))
    [] value.c = "Struct" -> createDefaultStructAsCell(value.sub)
                             \o IF defaultForm(key, value) = "Slice" THEN push("CTOS") ELSE <<>>
    [] OTHER -> pushDefaultValue(value) \o prepareValueForDictOperations(key, value), 0, 1)

-----------------------------------------------------------------------------
(* What follows a dictionary opcode that found value [key], or nothing.    *)

readValue(key, value, usedRef) ==
  LET inRef == doesDictStoreValueInRef(key, value)
      toSlice == IF usedRef THEN pushDiff(0, "CTOS")
                 ELSE IF inRef THEN pushDiff(0, "PLDREF") \o pushDiff(0, "CTOS") ELSE <<>>
  IN  CASE isRefType(value) -> IF usedRef THEN <<>> ELSE pushDiff(0, "PLDREF")
        [] value.c \in {"Address", "Contract", "TvmSlice"} -> toSlice
        [] value.c = "Struct" /\ (usedRef \/ inRef) ->
             toSlice \o pushRefContAndCallX(preload(value), 1, 1)
        [] OTHER -> toSlice \o preload(value)
preloadValue(key, value, haveKey, usedRef, saveOrigKey) ==
  (IF haveKey
   THEN (IF saveOrigKey THEN pushS(0) ELSE <<>>)
        \o (IF key.c = "Struct" THEN convertSliceToTuple(key.sub) ELSE <<>>)
        \o (IF saveOrigKey THEN rot ELSE exchange(1))
   ELSE <<>>) \o readValue(key, value, usedRef)

wrapOptional(value) == IF optValueAsTuple(value) THEN tuple(1) ELSE <<>>

recoverKeyAndValueAfterDictOperation(key, value, haveKey, usedRef, decode, saveOrigKey) ==
  LET pre == preloadValue(key, value, haveKey, usedRef, saveOrigKey)
      asCall == value.c = "Struct" /\ ~usedRef /\ ~doesDictStoreValueInRef(key, value)
  IN  CASE decode = "Value" -> IF asCall THEN pushRefContAndCallX(pre, 1, 1) ELSE pre
        [] decode = "ValueOrDefault" ->
             (IF pre = <<>> THEN <<>> ELSE Continuation(pre))   \* tryPollEmptyPushCont
               \o Continuation(pushDefaultValue(value))
               \o IF pre = <<>> THEN ifNot ELSE ifElse
        [] decode = "ValueOrNull" ->
             (IF saveOrigKey THEN <<>> ELSE pushAsym("NULLSWAPIFNOT"))
               \o Continuation(pre \o IF ~haveKey THEN wrapOptional(value)
                                      ELSE IF saveOrigKey THEN <<>> ELSE tuple(2))
               \o IF saveOrigKey
                  THEN Continuation(pushNull \o pushNull \o pushNull \o fixStack(-3)) \o ifElse
                  ELSE _if
        [] decode = "NullOrValue" ->
             pushAsym("NULLSWAPIF") \o Continuation(pre \o wrapOptional(value)) \o ifNot

-----------------------------------------------------------------------------
(* Dictionary operations; the key length is pushed last.                   *)

RefSuffix(key, value) == IF doesDictStoreValueInRef(key, value) THEN "REF" ELSE ""

\* dict -> pair or null (key value key' with saveOrigKey)
minOrMax(op, key, value, saveOrigKey) ==
  pushInt(dictKeyLength(key))
    \o Opaque(pushAsymDict(op, typeToDictChar(key), RefSuffix(key, value))
              \o recoverKeyAndValueAfterDictOperation(key, value, TRUE,
                   doesDictStoreValueInRef(key, value), "ValueOrNull", saveOrigKey),
              2, IF saveOrigKey THEN 3 ELSE 1)
\* index dict nbits -> pair or null
prevNext(op, key, value, saveOrigKey) ==
  LET ret == IF saveOrigKey THEN 3 ELSE 1 IN
  Ensured(Opaque(pushAsymDict(op, typeToDictChar(key), "")
            \o recoverKeyAndValueAfterDictOperation(key, value, TRUE, FALSE, "ValueOrNull",
                                                    saveOrigKey), 3, ret), ret - 3)

checkExist == Opaque(pushAsym("NULLSWAPIFNOT") \o dropUnder(1, 1), 1, 1)
getDictOp(op, key, value, form) ==
  LET usedRef == IF op \in {"GetSet", "GetAdd", "GetReplace"} THEN form = "Cell"
                 ELSE doesDictStoreValueInRef(key, value)
      ch == typeToDictChar(key)
      recover(decode) ==
        recoverKeyAndValueAfterDictOperation(key, value, FALSE, usedRef, decode, FALSE)
      get == pushAsymDict("DICTGET", ch, RefSuffix(key, value))
  IN  CASE op = "GetSet" -> pushAsymDict("DICTSETGET", ch, DataSuffix(form))
                              \o Asserted(recover("ValueOrNull"), 0)
        [] op = "GetAdd" -> pushAsymDict("DICTADDGET", ch, DataSuffix(form))
                              \o Asserted(recover("NullOrValue"), 0)
        [] op = "GetReplace" -> pushAsymDict("DICTREPLACEGET", ch, DataSuffix(form))
                                  \o Asserted(recover("ValueOrNull"), 0)
        [] op = "Exist" -> pushAsymDict("DICTGET", ch, "") \o checkExist
        [] op = "Fetch" -> get \o recover("ValueOrNull")
        [] op = "GetFromArray" -> get \o throwIfNot(1) \o recover("Value")
        [] op = "GetFromMapping" -> get \o recover("ValueOrDefault")
\* [value] key dict -> ...
getDict(op, key, value, form) ==
  LET take == IF op \in {"GetSet", "GetAdd", "GetReplace"} THEN 4 ELSE 3
      ret == IF take = 4 THEN 2 ELSE 1
  IN  pushInt(dictKeyLength(key))
        \o Ensured(Opaque(getDictOp(op, key, value, form), take, ret), ret - take)

\* value key dict -> dict [found]
setDict(op, key, form) ==
  pushInt(dictKeyLength(key))
    \o pushDict(IF op = "DICTSET" THEN -3 ELSE -2, op, typeToDictChar(key), DataSuffix(form))

-----------------------------------------------------------------------------
checkFit(t) == IF t.c \in {"Integer", "FixedPoint"}
               THEN pushDiffN(0, IF t.sg THEN "FITS" ELSE "UFITS", t.n)
               ELSE solUnimplemented

\* Multiplies or divides by a power of 10 (pow10).
scale(d) == IF d > 0 THEN pushInt(10 ^ d) \o pushDiff(-1, "MUL")
            ELSE IF d < 0 THEN pushInt(10 ^ (-d)) \o pushDiff(-1, "DIV")
            ELSE <<>>

\* fromFixedPoint and fromInteger
fromNumber(l, r, impl) ==
  LET fit(t) == IF impl THEN <<>> ELSE checkFit(t) IN
  CASE l.c = "FixedPoint" -> scale(l.digits - r.digits) \o fit(l)
    [] l.c \in {"Integer", "VarInteger"} -> scale(-r.digits) \o fit(asIntegerType(l))
    [] l.c = "FixedBytes" /\ r.c = "Integer" -> <<>>
    [] OTHER -> solUnimplemented

fixedBytesFromFixedBytes(l, r) ==
  CASE l.n > r.n -> pushDiffN(0, "LSHIFT", 8 * (l.n - r.n))
    [] l.n < r.n -> pushDiffN(0, "RSHIFT", 8 * (r.n - l.n))
    [] OTHER -> <<>>
fixedBytesFromBytes(l) == pushRefContAndCallX(
  Opaque(pushDiff(0, "CTOS") \o pushAsymN("LDUQ", 8 * l.n)
         \o Continuation(drop(1))
         \o Continuation(pushS(0) \o pushDiff(0, "SBITS") \o pushS(0) \o rotRev
                         \o pushDiff(-1, "PLDUX") \o blockSwap(1, 1) \o pushDiff(0, "NEGATE")
                         \o pushInt(8 * l.n) \o pushDiff(-1, "ADD") \o pushDiff(-1, "LSHIFT"))
         \o ifElse, 1, 1), 1, 1)
fromFixedBytes(l, r) ==
  CASE l.c = "FixedBytes" -> fixedBytesFromFixedBytes(l, r)
    [] l.c = "Integer" /\ ~l.sg /\ l.n >= 8 * r.n -> <<>>
    [] l.c = "FixedPoint" /\ l.sg /\ l.n >= 8 * r.n -> fromNumber(l, T("Integer", 8 * r.n, FALSE, <<>>), FALSE)
    [] isByteArrayOrString(l) -> pushDiff(1, "NEWC") \o pushDiffN(-1, "STU", 8 * r.n) \o pushDiff(0, "ENDC")
    [] OTHER -> solUnimplemented

\* An optional keeps a tuple packed, and a value that may be null in a tuple of 1.
packOptional(v) == IF optValueAsTuple(v) THEN tuple(1)
                   ELSE IF v.c = "Tuple" THEN tuple(Len(v.sub)) ELSE <<>>
unpackOptional(v) == IF optValueAsTuple(v) THEN untuple(1)
                     ELSE IF v.c = "Tuple" THEN untuple(Len(v.sub)) ELSE <<>>

RECURSIVE hardConvert(_, _)
optionalFromOptional(l, r) ==
  Opaque(pushS(0) \o push("ISNULL") \o fixStack(-1)
         \o Continuation(unpackOptional(l.sub[1]) \o hardConvert(l.sub[1], r.sub[1])
                         \o packOptional(l.sub[1]))
         \o ifNot, 1, 1)
tupleFromTuple(l, r) ==
  LET n == Len(l.sub) IN
  Each(n, LAMBDA i : hardConvert(l.sub[n + 1 - i], r.sub[n + 1 - i])
                       \o IF n >= 2 THEN blockSwap(n - 1, 1) ELSE <<>>)
hardConvert(l, r) ==
  LET impl == isImplicitlyConvertibleTo(r, l) IN
  CASE optTypeQty(l) < optTypeQty(r) -> solUnimplemented
    [] optTypeQty(l) > optTypeQty(r) -> hardConvert(l.sub[1], r) \o packOptional(l.sub[1])
    [] r.c = "RationalNumber" -> fromNumber(l, mobileType(r), impl)
    [] r.c \in {"FixedPoint", "Integer"} -> fromNumber(l, r, impl)
    [] r.c = "VarInteger" -> fromNumber(l, asIntegerType(r), impl)
    [] r.c = "FixedBytes" -> fromFixedBytes(l, r)
    [] isByteArrayOrString(r) -> IF l.c = "FixedBytes" THEN fixedBytesFromBytes(l)
                                 ELSE IF l.c = "Array" THEN <<>> ELSE solUnimplemented
    [] r.c = "Optional" -> optionalFromOptional(l, r)
    [] r.c = "Tuple" -> IF l.c = "Tuple" THEN tupleFromTuple(l, r) ELSE solUnimplemented
    [] r.c = "StringLiteral" -> IF l.c = "FixedBytes" THEN drop(1) \o pushValue(Num("literal", FALSE, 8 * l.n))
                                ELSE IF l.c = "Array" THEN <<>> ELSE solUnimplemented
    [] OTHER -> <<>>

\* FunctionCallCompiler::typeConversion: l(arg) for an argument that was compiled to code.
typeConversion(l, r, arg) ==
  CASE l.c \in {"Address", "Contract"} ->
         CASE r.c \in {"Contract", "Address"} -> arg
           [] r.c = "RationalNumber" -> pushValue(Address("literal"))
           [] r.c = "Integer" -> arg \o pushDiff(1, "NEWC") \o stSliceConst("addr_std", 11)
                                 \o pushDiffN(-1, "STU", 256) \o pushDiff(0, "ENDC") \o pushDiff(0, "CTOS")
           [] OTHER -> solUnimplemented
    [] l.c = "Enum" ->
         IF r.c = "RationalNumber"
         THEN IF r.n < 0 \/ r.n >= l.n THEN solUnimplemented ELSE pushInt(r.n)
         ELSE arg \o pushS(0) \o pushInt(l.n) \o pushDiff(-1, "GEQ") \o throwIf(1)
              \o IF ~isNumeric(r) \/ isSigned(r) THEN pushDiffN(0, "UFITS", 256) ELSE <<>>
    [] OTHER -> arg \o hardConvert(l, r)
=============================================================================
