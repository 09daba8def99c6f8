----------------------------- MODULE MethodCode -----------------------------
(***************************************************************************)
(* Calls of the methods of built-in types (TVMFunctionCall.cpp).  A call   *)
(* is given by the code of its parts:                                      *)
(*   name, t     the method and the type of the object;                    *)
(*   obj         the code of the object;                                   *)
(*   expand      its expansion as an lvalue, with the value on the top;    *)
(*   expandPart  the expansion without the value;                          *)
(*   collect     the code that writes the value on the top back;           *)
(*   arg, raw    the arguments, converted to the parameter types and not;  *)
(*   ts, const   the types and the constant values of the arguments;       *)
(*   ret         the type of the call.                                     *)
(***************************************************************************)
EXTENDS Expressions, DictCode

pushArgs(c) == Flat(c.arg)
\* How many values the expansion of an lvalue leaves below the value.
lvalueQty(c) == Grow(c.expand, 0) - 1
component(t) == IF t.c = "Tuple" THEN t.sub ELSE <<t>>

\* qty results of the method lie above the object: bring the object to the top and store it.
blockSwapAndCollect(c, qty) == blockSwap(lvalueQty(c) + 1, qty) \o c.collect

cellBitRefQty(forCell) ==
  Opaque(pushAsym(IF forCell THEN "CDATASIZEQ" ELSE "SDATASIZEQ")
         \o Continuation(pushDiffN(-2, "TUPLE", 3)) \o Continuation(pushNull) \o ifElse, 2, 1)

-----------------------------------------------------------------------------
(* Arrays, bytes and strings.                                              *)

\* array value -> array
arrayPush(form) ==
  exchange(1) \o pushDiffN(1, "UNTUPLE", 2) \o pushS(1) \o pushDiff(0, "INC") \o blockSwap(3, 1)
    \o setDict("DICTSET", ArrayKey, form) \o pushDiffN(-1, "TUPLE", 2)
arrayPop ==
  pushDiffN(1, "UNTUPLE", 2) \o pushS(1) \o throwIfNot(1) \o exchange(1) \o pushDiff(0, "DEC")
    \o pushS(0) \o rot \o pushInt(32) \o pushDict(-1, "DICTDEL", "U", "") \o drop(1)
    \o pushDiffN(-1, "TUPLE", 2)
byteLengthOfCell == pushInt(65535) \o pushDiff(1, "CDATASIZE") \o drop(1) \o dropUnder(1, 1)
                      \o pushDiffN(0, "RSHIFT", 3)
optIndex == <<Sample(optional(uint(32)), "found")>>
arrayMethods(c) ==
  CASE c.name = "empty" -> c.obj \o IF isUsualArray(c.t) THEN index(0) \o pushDiffN(0, "EQINT", 0)
                                    ELSE pushDiff(0, "CTOS") \o pushDiff(0, "SEMPTY")
    [] c.name = "substr" -> c.obj \o pushArgs(c) \o (IF Len(c.arg) = 1 THEN pushInt(-1) ELSE <<>>)
                              \o pushMacroCallInCallRef(3, <<Cell(<<AnyField("?")>>)>>)
    [] c.name \in {"find", "findLast"} -> c.obj \o pushArgs(c) \o pushMacroCallInCallRef(2, optIndex)
    [] c.name = "byteLength" -> c.obj \o byteLengthOfCell
    [] c.name = "dataSize" -> c.obj \o c.arg[1] \o pushDiff(1, "CDATASIZE")
    [] c.name = "dataSizeQ" -> c.obj \o c.arg[1] \o cellBitRefQty(TRUE)
    [] c.name = "toSlice" -> c.obj \o pushDiff(0, "CTOS")
    [] c.name = "push" ->
         c.expand
           \o (IF c.arg = <<>>
               THEN pushDefaultValueForDict(ArrayKey, c.t.sub[1])
                      \o arrayPush(defaultForm(ArrayKey, c.t.sub[1]))
               ELSE pushArgs(c) \o prepareValueForDictOperations(ArrayKey, c.t.sub[1])
                      \o arrayPush(valueForm(ArrayKey, c.t.sub[1])))
           \o c.collect
    [] c.name = "pop" -> c.expand \o arrayPop \o c.collect
    [] c.name = "append" -> c.expand \o c.arg[1]
                              \o pushMacroCallInCallRef(2, <<Cell(<<AnyField("?")>>)>>) \o c.collect

-----------------------------------------------------------------------------
(* Mappings.                                                               *)

mappingGetSet(c, key, value) ==
  LET get(op) == pushArgs(c) \o prepareKeyForDictOperations(key, FALSE) \o c.obj
                   \o getDict(op, key, value, "")
      form == valueForm(key, value)
      update == c.expand \o c.arg[2] \o prepareValueForDictOperations(key, value)
                  \o c.arg[1] \o prepareKeyForDictOperations(key, FALSE) \o rot
      set(op) == update \o setDict(op, key, form) \o blockSwapAndCollect(c, 1)
      getSet(op) == update \o getDict(op, key, value, form) \o blockSwapAndCollect(c, 1)
  IN  CASE c.name = "at" -> get("GetFromArray")
        [] c.name = "fetch" -> get("Fetch")
        [] c.name = "exists" -> get("Exist")
        [] c.name = "replace" -> set("DICTREPLACE")
        [] c.name = "add" -> set("DICTADD")
        [] c.name = "getSet" -> getSet("GetSet")
        [] c.name = "getAdd" -> getSet("GetAdd")
        [] c.name = "getReplace" -> getSet("GetReplace")
mappingPrevNext(c, key, value) ==
  c.arg[1] \o prepareKeyForDictOperations(key, TRUE) \o c.obj \o pushInt(dictKeyLength(key))
    \o prevNext(CASE c.name = "next" -> "DICTGETNEXT" [] c.name = "nextOrEq" -> "DICTGETNEXTEQ"
                  [] c.name = "prev" -> "DICTGETPREV" [] c.name = "prevOrEq" -> "DICTGETPREVEQ",
                key, value, FALSE)
\* array dict pair: every pair is appended to the array, up to the last one.
mappingKeysOrValues(c, key, value, areKeys) ==
  LET t == IF areKeys THEN key ELSE value IN
  pushEmptyArray \o c.obj \o pushS(0) \o minOrMax("DICTMIN", key, value, FALSE)
    \o Continuation(pushS(0) \o push("ISNULL") \o push("NOT") \o fixStack(-1))
    \o Continuation(pushS(2) \o pushS(1) \o index(IF areKeys THEN 0 ELSE 1)
         \o prepareValueForDictOperations(ArrayKey, t) \o arrayPush(valueForm(ArrayKey, t))
         \o popS(3) \o index(0) \o pushS(1)
         \o pushInt(dictKeyLength(key)) \o prevNext("DICTGETNEXT", key, value, FALSE))
    \o _while \o drop(2)
mappingDelMinOrMax(c, key, value) ==
  c.expand \o pushInt(dictKeyLength(key))
    \o Opaque(pushAsymDict(IF c.name = "delMin" THEN "DICTREMMIN" ELSE "DICTREMMAX",
                           typeToDictChar(key), RefSuffix(key, value))
              \o recoverKeyAndValueAfterDictOperation(key, value, TRUE,
                   doesDictStoreValueInRef(key, value), "ValueOrNull", FALSE), 2, 2)
    \o blockSwapAndCollect(c, 1)
mappingMethods(c) ==
  LET key == c.t.sub[1]
      value == c.t.sub[2]
  IN  CASE c.name \in {"min", "max"} ->
             c.obj \o minOrMax(IF c.name = "min" THEN "DICTMIN" ELSE "DICTMAX", key, value, FALSE)
        [] c.name \in {"next", "prev", "nextOrEq", "prevOrEq"} -> mappingPrevNext(c, key, value)
        [] c.name \in {"keys", "values"} ->
             mappingKeysOrValues(c, realKeyType(key), value, c.name = "keys")
        [] c.name = "empty" -> c.obj \o pushDiff(0, "DICTEMPTY")
        [] c.name \in {"delMin", "delMax"} -> mappingDelMinOrMax(c, key, value)
        [] OTHER -> mappingGetSet(c, key, value)

-----------------------------------------------------------------------------
(* Slices.                                                                 *)

NoNexts(ts) == [i \in DOMAIN initTypes(ts) |-> FALSE]     \* DecodePositionFromOneSlice
emptySlice == pushValue(Slice(<<>>))
loadFixed(c, op) == IF c.const[1] = <<>> THEN c.arg[1] \o pushDiff(0, op \o "X")
                    ELSE IF c.const[1][1] \notin 1 .. 256 THEN solUnimplemented
                    ELSE pushDiffN(1, op, c.const[1][1])
sliceLoad(c) ==
  CASE c.name = "loadRefAsSlice" -> pushDiff(1, "LDREFRTOS") \o exchange(1)
    [] c.name = "loadRef" -> pushDiff(1, "LDREF")
    [] c.name = "loadUnsigned" -> loadFixed(c, "LDU")
    [] c.name = "loadSigned" -> loadFixed(c, "LDI")
    [] c.name = "loadTons" -> pushDiff(1, "LDGRAMS")
    [] c.name = "loadSlice" ->
         CASE Len(c.arg) = 2 -> pushArgs(c) \o pushDiff(-1, "SPLIT")
           [] c.const[1] # <<>> -> pushDiffN(1, "LDSLICE", c.const[1][1])
           [] OTHER -> c.arg[1] \o pushDiff(0, "LDSLICEX")
\* callback: the function is responsible; ts: the types of its parameters
decodeFunctionParams(c, callback, ts) ==
  LET qty == Len(ts) + (IF callback THEN 1 ELSE 0) IN
  c.expand \o (IF callback THEN pushDiffN(1, "LDU", 32) ELSE <<>>)
    \o decodeData(IF callback THEN 64 ELSE 32, 0, ts)
    \o blockSwap(lvalueQty(c), qty) \o emptySlice \o c.collect
sliceQuery(name) ==
  CASE name = "empty" -> pushDiff(0, "SEMPTY") [] name = "size" -> pushDiff(1, "SBITREFS")
    [] name = "bits" -> pushDiff(0, "SBITS") [] name = "refs" -> pushDiff(0, "SREFS")
    [] name = "depth" -> pushDiff(0, "SDEPTH") [] name = "compare" -> pushDiff(-1, "SDLEXCMP")
    [] name = "dataSize" -> pushDiff(1, "SDATASIZE") [] name = "dataSizeQ" -> cellBitRefQty(FALSE)
    [] name = "hasNBits" -> pushDiff(-1, "SCHKBITSQ") [] name = "hasNRefs" -> pushDiff(-1, "SCHKREFSQ")
    [] name = "hasNBitsAndRefs" -> pushDiff(-2, "SCHKBITREFSQ")
sliceMethods(c) ==
  LET types == component(IF c.name = "decodeQ" THEN c.ret.sub[1] ELSE c.ret) IN
  CASE c.name = "decode" ->
         Asserted(c.expand \o decodeParameters(types, NoNexts(types), FALSE) \o c.collect, Len(types))
    [] c.name = "decodeQ" ->
         Asserted(c.expand \o decodeParametersQ(types, NoNexts(types)) \o c.collect, 1)
    [] c.name = "decodeFunctionParams" -> decodeFunctionParams(c, FALSE, types)
    [] c.name = "decodeResponsibleParams" -> decodeFunctionParams(c, TRUE, Tail(types))
    [] c.name = "decodeStateVars" ->
         c.expand \o decodeData(0, 0, types) \o blockSwap(lvalueQty(c), Len(types))
           \o emptySlice \o c.collect
    [] c.name = "skip" ->
         c.expand \o pushArgs(c)
           \o (IF Len(c.arg) = 1 THEN pushDiff(-1, "SDSKIPFIRST") ELSE pushDiff(-2, "SSKIPFIRST"))
           \o c.collect
    [] c.name \in {"loadRefAsSlice", "loadRef", "loadUnsigned", "loadSigned", "loadTons", "loadSlice"} ->
         c.expand \o sliceLoad(c) \o c.collect
    [] OTHER -> c.obj \o pushArgs(c) \o sliceQuery(c.name)

-----------------------------------------------------------------------------
(* Vectors: tuples of up to 255 values in a tuple.                         *)

vectorPush == pushRefContAndCallX(Opaque(
  exchange(1) \o pushS(0) \o push("TLEN")
    \o Continuation(pushDiff(1, "TPOP") \o pushS(0) \o pushDiff(0, "TLEN") \o pushInt(255)
                    \o pushDiff(-1, "SUB")
                    \o Continuation(pushDiff(-1, "TPUSH") \o tuple(0)) \o ifNot)
    \o Continuation(tuple(0)) \o ifElse
    \o rot \o pushDiff(-1, "TPUSH") \o pushDiff(-1, "TPUSH"), 2, 1), 2, 1)
\* stackChange: what the expansion of the lvalue leaves below the vector
vectorPop(stackChange) == pushRefContAndCallX(Opaque(
  pushDiff(1, "TPOP") \o pushDiff(1, "TPOP") \o blockSwap(stackChange + 1, 1)
    \o pushS(0) \o pushDiff(0, "TLEN")
    \o Continuation(pushDiff(-1, "TPUSH")) \o Continuation(drop(1)) \o ifElse, 1, 2), 1, 2)
vectorLength == pushRefContAndCallX(Opaque(
  pushS(0) \o pushDiff(0, "TLEN") \o pushS(0)
    \o Continuation(pushDiff(0, "DEC") \o pushInt(255) \o pushDiff(-1, "MUL") \o exchange(1)
                    \o pushDiff(0, "LAST") \o pushDiff(0, "TLEN") \o pushDiff(-1, "ADD"))
    \o Continuation(popS(1)) \o ifElse, 1, 1), 1, 1)
vectorMethods(c) ==
  CASE c.name = "push" -> c.expand \o c.raw[1] \o vectorPush \o c.collect
    [] c.name = "pop" -> c.expand \o vectorPop(Grow(c.expand, 0)) \o c.collect
    [] c.name = "length" -> c.obj \o vectorLength
    [] c.name = "empty" -> c.obj \o pushDiff(0, "TLEN") \o pushDiff(0, "ISZERO")

-----------------------------------------------------------------------------
(* Builders, cells, optionals, addresses.                                  *)

constBool(e) == IF e.e = "bool" THEN <<e.n = 1>> ELSE <<>>
\* args: the arguments as expressions
builderStore(c, args) ==
  LET n == Len(args)
      skipped(i) == constBool(args[i]) # <<>>
      given == {i \in 1 .. n : ~skipped(i)}
  IN  Each(n, LAMBDA i : IF skipped(n + 1 - i) THEN <<>> ELSE c.raw[n + 1 - i])
        \o blockSwap(1, Cardinality(given))
        \o Each(n, LAMBDA i : IF skipped(i)
                              THEN IF constBool(args[i])[1] THEN stones(1) ELSE stzeroes(1)
                              ELSE store(mobileType(c.ts[i]), FALSE))
storeRef(c) == c.arg[1] \o CASE c.ts[1] = TvmBuilder -> pushDiff(-1, "STBREFR")
                              [] c.ts[1] = TvmCell -> pushDiff(-1, "STREFR")
                              [] c.ts[1] = TvmSlice -> pushDiff(1, "NEWC") \o pushDiff(-1, "STSLICE")
                                                       \o pushDiff(-1, "STBREFR")
storeFixed(c, op) ==
  c.arg[1] \o IF c.const[2] = <<>> THEN c.arg[2] \o pushDiff(-2, op \o "XR")
              ELSE IF c.const[2][1] \notin 1 .. 256 THEN solUnimplemented
              ELSE pushDiffN(-1, op \o "R", c.const[2][1])
builderQuery(name) ==
  CASE name = "bits" -> pushDiff(0, "BBITS") [] name = "refs" -> pushDiff(0, "BREFS")
    [] name = "size" -> pushDiff(1, "BBITREFS") [] name = "remBits" -> pushDiff(0, "BREMBITS")
    [] name = "remRefs" -> pushDiff(0, "BREMREFS") [] name = "remBitsAndRefs" -> pushDiff(1, "BREMBITREFS")
    [] name = "toCell" -> pushDiff(0, "ENDC") [] name = "depth" -> pushDiff(0, "BDEPTH")
    [] name = "toSlice" -> pushDiff(0, "ENDC") \o pushDiff(0, "CTOS")
builderMethods(c, args) ==
  LET put(code) == c.expand \o code \o c.collect IN
  CASE c.name = "storeOnes" -> put(pushArgs(c) \o pushDiff(-1, "STONES"))
    [] c.name = "storeZeros" -> put(pushArgs(c) \o pushDiff(-1, "STZEROES"))
    [] c.name = "storeRef" -> put(storeRef(c))
    [] c.name = "store" -> put(builderStore(c, args))
    [] c.name = "storeSigned" -> put(storeFixed(c, "STI"))
    [] c.name = "storeUnsigned" -> put(storeFixed(c, "STU"))
    [] c.name = "storeTons" -> put(c.arg[1] \o pushDiff(-1, "STGRAMS"))
    [] OTHER -> c.obj \o builderQuery(c.name)

cellMethods(c) ==
  c.obj \o CASE c.name = "toSlice" -> pushDiff(0, "CTOS")
             [] c.name = "depth" -> pushDiff(0, "CDEPTH")
             [] c.name = "dataSize" -> c.arg[1] \o pushDiff(1, "CDATASIZE")
             [] c.name = "dataSizeQ" -> c.arg[1] \o cellBitRefQty(TRUE)

optionalMethods(c) ==
  CASE c.name = "hasValue" -> c.obj \o pushDiff(0, "ISNULL") \o pushDiff(0, "NOT")
    [] c.name = "set" ->
         c.expandPart \o Flat(c.raw)
           \o hardConvert(c.t, IF Len(c.ts) >= 2 THEN tupleOf(c.ts) ELSE c.ts[1]) \o c.collect
    [] c.name = "reset" -> c.expandPart \o pushDefaultValue(c.t) \o c.collect

addressMethods(c) ==
  c.obj \o CASE c.name = "isStdZero" -> pushValue(ZeroAddress) \o pushDiff(-1, "SDEQ")
             [] c.name = "isExternZero" -> pushValue(Slice(<<Bits("x401_", 11)>>)) \o pushDiff(-1, "SDEQ")
             [] c.name = "isNone" -> pushValue(Slice(<<Bits("0", 2)>>)) \o pushDiff(-1, "SDEQ")
             [] c.name = "unpack" -> pushDiff(1, "REWRITESTDADDR")
             [] c.name = "getType" -> pushDiffN(0, "PLDU", 2)
             [] c.name = "isStdAddrWithoutAnyCast" ->
                  pushDiff(0, "PARSEMSGADDR") \o pushS(0) \o index(0) \o pushDiffN(0, "EQINT", 2)
                    \o pushCall(2, <<Num("?", TRUE, 1)>>)

-----------------------------------------------------------------------------
(* tvm, msg, rnd, gosh, math.                                              *)

\* c7: the globals the generator reserves
C7 == [TvmPubkey |-> 2, ReplayProtTime |-> 3, MsgPubkey |-> 5, ConstructorFlag |-> 6]
ReplayProtectionInterval == 1800000
popC3 == pushCall(1, <<>>)

compileLog(c) == IF c.ts[1].c = "StringLiteral" /\ c.ts[1].n <= 15 THEN pushDiff(0, "PRINTSTR")
                 ELSE pushArgs(c) \o pushDiff(0, "CTOS") \o pushDiff(0, "STRDUMP") \o drop(1)

checkSign(c) ==
  LET n == Len(c.arg) IN
  IF c.ts[1] = TvmSlice THEN pushArgs(c) \o pushDiff(-2, "CHKSIGNS")
  ELSE c.arg[1]
         \o (IF n = 4 THEN c.arg[3] \o c.arg[2] \o pushDiff(1, "NEWC") \o pushDiffN(-1, "STU", 256)
                           \o pushDiffN(-1, "STU", 256) \o pushDiff(0, "ENDC") \o pushDiff(0, "CTOS")
             ELSE c.arg[2])
         \o c.arg[n] \o pushDiff(-2, "CHKSIGNU")
setCurrentCode(c) == Asserted(
  pushArgs(c) \o pushDiff(0, "CTOS") \o pushS(0) \o pushValue(Slice(<<Bits("RootCodeCell", 40)>>))
    \o pushDiff(-1, "SDEQ")
    \o Opaque(Continuation(pushDiffN(0, "PLDREFIDX", 1) \o pushDiff(0, "CTOS")) \o _if, 2, 1)
    \o pushDiff(0, "PLDREF") \o pushDiff(0, "CTOS") \o pushDiff(0, "BLESS") \o popC3, 0)
was_c4_to_c7_called == getGlob(C7.TvmPubkey, Whatever) \o pushDiff(0, "ISNULL")
exitCode ==
  was_c4_to_c7_called \o fixStack(-1) \o Continuation(pushCall(0, <<>>)) \o ifNot \o _throw(0, TRUE)
dump(c, op) == pushArgs(c) \o (IF c.ts[1] = TvmCell THEN pushDiff(0, "CTOS") ELSE <<>>)
                 \o pushDiff(0, op) \o drop(1)

\* found: loads the parameter and the empty rest of its slice; notFound pushes defaults.
readConfig(n, found, qty, notFound) ==
  pushInt(n)
    \o Opaque(pushAsym("CONFIGPARAM")
              \o Continuation(pushDiff(0, "CTOS") \o found \o pushDiff(-1, "ENDS") \o pushDiff(1, "TRUE"))
              \o Continuation(notFound) \o ifElse, 1, qty)
LDU(n) == pushDiffN(1, "LDU", n)
zeros(n) == Each(n, LAMBDA i : pushInt(0))
configParam(name) ==
  CASE name = "configParam1" -> Asserted(readConfig(1, LDU(256), 2, zeros(1) \o pushDiff(1, "FALSE")), 2)
    [] name = "configParam15" -> readConfig(15, LDU(32) \o LDU(32) \o LDU(32) \o LDU(32), 5, zeros(5))
    [] name = "configParam17" ->
         readConfig(17, Each(3, LAMBDA i : pushDiff(1, "LDGRAMS")) \o LDU(32), 5, zeros(5))
    [] name = "configParam34" ->
         readConfig(34, LDU(8) \o LDU(32) \o LDU(32) \o LDU(16) \o LDU(16) \o LDU(64)
                          \o pushDiff(1, "LDDICT"), 8,
                    zeros(6) \o pushDiff(1, "NEWDICT") \o pushDiff(1, "FALSE"))
rawConfigParam(c) == Asserted(
  c.arg[1] \o Opaque(pushAsym("CONFIGPARAM") \o pushS(0)
                      \o Continuation(pushEmptyCell \o exchange(1)) \o ifNot, 1, 2), 2)

\* Hand-written TVM code that searches or rewrites the code cell.
codeSalt(c) == pushArgs(c) \o pushCall(1, <<Sample(optional(TvmCell), "salt")>>)
setCodeSalt(c) ==
  c.arg[1] \o pushDiff(0, "CTOS") \o c.arg[2] \o pushCall(2, <<Sample(TvmCell, "code")>>)
tvmFunction(c) ==
  CASE c.name = "pubkey" -> getGlob(C7.TvmPubkey, Num("pubkey", FALSE, 256))
    [] c.name = "setPubkey" -> pushArgs(c) \o setGlob(C7.TvmPubkey)
    [] c.name = "accept" -> pushDiff(0, "ACCEPT")
    [] c.name = "hash" -> pushArgs(c) \o pushDiff(0, IF c.ts[1] = TvmSlice THEN "HASHSU" ELSE "HASHCU")
    [] c.name = "checkSign" -> checkSign(c)
    [] c.name = "setcode" -> pushArgs(c) \o pushDiff(-1, "SETCODE")
    [] c.name = "bindump" -> dump(c, "BINDUMP")
    [] c.name = "hexdump" -> dump(c, "HEXDUMP")
    [] c.name = "setCurrentCode" -> setCurrentCode(c)
    [] c.name = "getData" -> pushRoot
    [] c.name = "setData" -> pushArgs(c) \o popRoot
    [] c.name = "rawCommit" -> pushDiff(0, "COMMIT")
    [] c.name = "commit" -> pushMacroCallInCallRef(0, <<>>) \o pushDiff(0, "COMMIT")
    [] c.name = "log" -> compileLog(c)
    [] c.name = "rawReserve" ->
         pushArgs(c) \o (IF Len(c.arg) = 2 THEN pushDiff(-2, "RAWRESERVE") ELSE pushDiff(-3, "RAWRESERVEX"))
    [] c.name \in {"exit", "exit1"} -> exitCode
    [] c.name = "code" -> push("MYCODE")
    [] c.name = "codeSalt" -> codeSalt(c)
    [] c.name = "setCodeSalt" -> setCodeSalt(c)
    [] c.name = "replayProtTime" -> getGlob(C7.ReplayProtTime, Num("time", FALSE, 64))
    [] c.name = "setReplayProtTime" -> pushArgs(c) \o setGlob(C7.ReplayProtTime)
    [] c.name = "replayProtInterval" -> pushInt(ReplayProtectionInterval)
    [] c.name = "setGasLimit" -> pushArgs(c) \o pushDiff(-1, "SETGASLIMIT")
    [] c.name = "initCodeHash" -> push("INITCODEHASH")
    [] c.name = "rawConfigParam" -> rawConfigParam(c)
    [] c.name = "sendrawmsg" -> pushArgs(c) \o pushDiff(-2, "SENDRAWMSG")
    [] OTHER -> configParam(c.name)
msgPubkey == getGlob(C7.MsgPubkey, Whatever)
               \o Opaque(pushS(0) \o pushDiff(0, "ISNULL")
                         \o Continuation(drop(1) \o pushInt(0)) \o _if, 1, 1)
rndFunction(c) ==
  CASE c.name = "next" -> pushArgs(c) \o (IF c.arg = <<>> THEN pushDiff(1, "RANDU256")
                                          ELSE pushDiff(0, "RAND"))
    [] c.name = "setSeed" -> c.arg[1] \o pushDiff(-1, "SETRAND")
    [] c.name = "getSeed" -> pushDiff(1, "RANDSEED")
    [] c.name = "shuffle" -> (IF c.arg = <<>> THEN pushDiff(1, "LTIME") ELSE pushArgs(c))
                               \o pushDiff(-1, "ADDRAND")
goshFunction(c) ==
  pushArgs(c) \o push(CASE c.name = "diff" -> "DIFF" [] c.name = "applyPatch" -> "DIFF_PATCH"
                        [] c.name = "zip" -> "ZIP" [] c.name = "unzip" -> "UNZIP"
                        [] c.name = "zipDiff" -> "DIFF_ZIP" [] c.name = "applyZipPatch" -> "DIFF_PATCH_ZIP"
                        [] c.name \in {"applyPatchQ", "applyZipPatchQ"} -> "DIFF_PATCH_ZIPQ")
mathFunction(c) ==
  CASE c.name \in {"max", "min"} ->
         pushArgs(c) \o Each(Len(c.arg) - 1, LAMBDA i : pushDiff(-1, IF c.name = "max" THEN "MAX" ELSE "MIN"))
    [] c.name = "minmax" -> pushArgs(c) \o pushDiff(0, "MINMAX")
    [] c.name \in {"divr", "divc"} ->
         LET op == IF c.name = "divr" THEN "DIVR" ELSE "DIVC" IN
         pushArgs(c) \o IF c.ret.c = "FixedPoint"
                        THEN pushInt(10 ^ c.ret.digits) \o exchange(1) \o pushDiff(-2, "MUL" \o op)
                        ELSE pushDiff(-1, op)
    [] c.name \in {"muldiv", "muldivr", "muldivc"} ->
         pushArgs(c) \o pushDiff(-2, CASE c.name = "muldiv" -> "MULDIV" [] c.name = "muldivr" -> "MULDIVR"
                                       [] c.name = "muldivc" -> "MULDIVC") \o checkFit(c.ret)
    [] c.name = "divmod" -> pushArgs(c) \o pushDiff(0, "DIVMOD")
    [] c.name = "muldivmod" -> pushArgs(c) \o pushDiff(-1, "MULDIVMOD") \o exchange(1)
                                 \o checkFit(c.ret.sub[1]) \o exchange(1)
    [] c.name = "abs" -> pushArgs(c) \o pushDiff(0, "ABS") \o checkFit(c.ret)
    [] c.name = "modpow2" ->
         c.raw[1] \o hardConvert(c.ret, c.ts[1])
           \o IF c.const[2] = <<>> \/ c.const[2][1] \notin 0 .. 255 THEN solUnimplemented
              ELSE pushDiffN(0, "MODPOW2", c.const[2][1])
    [] c.name = "sign" -> pushArgs(c) \o pushDiff(0, "SGN")

-----------------------------------------------------------------------------
(* Global functions (checkSolidityUnits).                                  *)

\* Whether the code of an exception is a constant that fits into the instruction.
shortCode(const) == const # <<>> /\ const[1] < 2048
wrongCode(const) == const # <<>> /\ const[1] \notin 2 .. 65535
exceptionCode(c, i) == c.arg[i] \o IF c.const[i] = <<>> THEN pushInt(2) \o pushDiff(-1, "MAX") ELSE <<>>
require(c) ==
  LET n == Len(c.arg)
      withArg == IF n = 3 THEN 1 ELSE 0
  IN  CASE n = 1 -> c.arg[1] \o throwIfNot(1)
        [] wrongCode(c.const[2]) -> solUnimplemented
        [] OTHER -> (IF n = 3 THEN c.arg[3] ELSE <<>>)
                      \o IF shortCode(c.const[2]) THEN c.arg[1] \o throwIfNot(1 + withArg)
                         ELSE exceptionCode(c, 2) \o c.arg[1] \o throwIfNot(2 + withArg)
revert(c) ==
  LET n == Len(c.arg)
      withArg == IF n = 2 THEN 1 ELSE 0
  IN  CASE n = 0 -> _throw(0, TRUE)
        [] wrongCode(c.const[1]) -> solUnimplemented
        [] OTHER -> (IF n = 2 THEN c.arg[2] ELSE <<>>)
                      \o IF shortCode(c.const[1]) THEN _throw(withArg, TRUE)
                         ELSE exceptionCode(c, 1) \o _throw(1 + withArg, TRUE)

\* format: a list of builders and the one being filled; before each argument, and after
\* the last, lies a constant piece of the format string.
listAndBuilder == <<Sample(vector(TvmBuilder), "list"), Sample(TvmBuilder, "b")>>
pushConstStr == pushValue(Slice(<<AnyField("piece")>>)) \o pushMacroCallInCallRef(3, listAndBuilder)
formatNumber(c, i, isHex) ==
  LET signed == mobileType(c.ts[i]).sg IN
  c.raw[i] \o (IF signed THEN pushDiff(0, "ABS") ELSE <<>>) \o pushInt(0) \o pushDiff(1, "FALSE")
    \o (IF isHex THEN pushDiff(1, "TRUE") ELSE <<>>)
    \o (IF signed THEN c.raw[i] \o pushDiff(0, "ISNEG") ELSE pushDiff(1, "FALSE"))
    \o pushMacroCallInCallRef(IF isHex THEN 7 ELSE 6, listAndBuilder)
\* spec: "" (a decimal), "x" or "t"
formatArgument(c, i, spec) ==
  LET t == c.ts[i] IN
  CASE t.c \in {"Integer", "RationalNumber"} /\ spec # "t" -> formatNumber(c, i, spec = "x")
    [] t.c \in {"Integer", "RationalNumber", "FixedPoint"} ->
         c.raw[i] \o pushInt(IF t.c = "FixedPoint" THEN t.digits ELSE 9)
           \o pushMacroCallInCallRef(4, listAndBuilder)
    [] t.c = "Address" -> c.raw[i] \o pushMacroCallInCallRef(3, listAndBuilder)
    [] isByteArrayOrString(t) \/ t.c = "StringLiteral" ->
         c.raw[i] \o pushDiff(0, "CTOS") \o pushMacroCallInCallRef(3, listAndBuilder)
    [] OTHER -> solUnimplemented
format(c, spec) ==
  pushDefaultValue(vector(TvmBuilder)) \o pushDiff(1, "NEWC")
    \o Each(Len(c.ts), LAMBDA i : pushConstStr \o formatArgument(c, i, spec))
    \o pushConstStr \o pushMacroCallInCallRef(2, <<Sample(string, "text")>>)

checkSolidityUnits(c) ==
  CASE c.name \in {"gasToValue", "valueToGas"} ->
         pushArgs(c) \o pushMacroCallInCallRef(2, <<Num("?", FALSE, 128)>>)
    [] c.name = "bitSize" -> pushArgs(c) \o pushDiff(0, "BITSIZE")
    [] c.name = "uBitSize" -> pushArgs(c) \o pushDiff(0, "UBITSIZE")
    [] c.name = "sha256" -> c.arg[1] \o (IF isByteArrayOrString(c.ts[1]) THEN pushDiff(0, "CTOS") ELSE <<>>)
                              \o pushDiff(0, "SHA256U")
    [] c.name = "require" -> require(c)
    [] c.name = "revert" -> revert(c)
    [] c.name = "logtvm" -> compileLog(c)
    [] c.name \in {"format", "formatx", "formatt"} ->
         format(c, CASE c.name = "format" -> "" [] c.name = "formatx" -> "x" [] c.name = "formatt" -> "t")
    [] c.name = "stoi" -> c.arg[1] \o pushMacroCallInCallRef(1, <<Sample(optional(int(256)), "n")>>)

compileMethod(c, args) ==
  CASE c.t.c = "Array" -> arrayMethods(c)
    [] c.t.c \in {"Mapping", "ExtraCurrencyCollection"} -> mappingMethods(c)
    [] c.t.c = "TvmSlice" -> sliceMethods(c)
    [] c.t.c = "TvmBuilder" -> builderMethods(c, args)
    [] c.t.c = "TvmVector" -> vectorMethods(c)
    [] c.t.c = "Optional" -> optionalMethods(c)
    [] c.t.c = "Address" -> addressMethods(c)
    [] c.t.c = "TvmCell" -> cellMethods(c)
    [] c.t.c = "tvm" -> tvmFunction(c)
    [] c.t.c = "msg" -> msgPubkey
    [] c.t.c = "rnd" -> rndFunction(c)
    [] c.t.c = "gosh" -> goshFunction(c)
    [] c.t.c = "math" -> mathFunction(c)
    [] c.t.c = "" -> checkSolidityUnits(c)
=============================================================================
