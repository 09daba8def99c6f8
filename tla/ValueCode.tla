----------------------------- MODULE ValueCode -----------------------------
(***************************************************************************)
(* Code that writes values into cells and reads them back: load, store,    *)
(* preload, loadQ and pushDefaultValue of TVMPusher.cpp, StructCompiler,   *)
(* and the ABI encoder and decoder of TVMABI.cpp.                          *)
(***************************************************************************)
EXTENDS PusherCalls

stzeroes(n) == CASE n = 0 -> <<>> [] n = 1 -> stSliceConst("0", 1)
                 [] OTHER -> pushInt(n) \o pushDiff(-1, "STZEROES")
stones(n) == CASE n = 0 -> <<>> [] n = 1 -> stSliceConst("1", 1)
               [] OTHER -> pushInt(n) \o pushDiff(-1, "STONES")

varOpcode(kind, t) ==
  kind \o "VAR" \o (IF t.sg THEN "" ELSE "U") \o "INT" \o (IF t.n = 16 THEN "16" ELSE "32")

-----------------------------------------------------------------------------
(* Which types start a new cell (class DecodePositionAbiV2).               *)

RECURSIVE initTypes(_)
initTypes(ts) == IF ts = <<>> THEN <<>>
                 ELSE (IF Head(ts).c = "Struct" THEN initTypes(Head(ts).sub) ELSE <<Head(ts)>>)
                      \o initTypes(Tail(ts))
FlatLen(t) == Len(initTypes(<<t>>))

RECURSIVE doLoadNextCell(_, _, _)
doLoadNextCell(bits, refs, ts) ==
  IF ts = <<>> THEN <<>>
  ELSE LET size == ABITypeSize(Head(ts))
           sufBits == SumOf(LAMBDA t : ABITypeSize(t)[1], ts)
           sufRefs == SumOf(LAMBDA t : ABITypeSize(t)[2], ts)
           rest == ~(bits + sufBits <= CellBitLength /\ refs + sufRefs <= 4)
           next == rest /\ (bits + size[1] >= CellBitLength \/ refs + size[2] >= 4)
       IN  <<next>> \o IF next THEN doLoadNextCell(size[1], size[2], Tail(ts))
                       ELSE doLoadNextCell(bits + size[1], refs + size[2], Tail(ts))
Position(bits, refs, ts) == doLoadNextCell(bits, refs, initTypes(ts))
countOfCreatedBuilders(nexts) == Len(SelectSeq(nexts, LAMBDA b : b))

-----------------------------------------------------------------------------
(* Reading.  fastLoad: slice -> value slice (direct) or slice value.       *)

RECURSIVE fastLoad(_)
RECURSIVE convertSliceToTuple(_)
directOrder(t) == ~(t.c = "Tuple" \/ isUsualArray(t))
load(t, reverseOrder) == fastLoad(t) \o IF directOrder(t) = reverseOrder THEN exchange(1) ELSE <<>>

loadMembers(ts) == Flat([i \in DOMAIN ts |-> load(ts[i], FALSE)])
                     \o blockSwap(Len(ts), 1) \o tuple(Len(ts))
loadOptional(t) ==
  LET inner(reverseOrder) ==
        IF isSmallOptional(t) THEN load(t.sub[1], reverseOrder)
        ELSE pushDiff(1, "LDREFRTOS") \o convertSliceToTuple(t.sub[1].sub)
             \o IF reverseOrder THEN <<>> ELSE exchange(1)
  IN  Opaque(pushDiffN(1, "LDI", 1) \o exchange(1) \o fixStack(-1)
             \o Continuation(IF optValueAsTuple(t.sub[1])
                             THEN inner(TRUE) \o tuple(1) \o exchange(1) ELSE inner(FALSE))
             \o fixStack(-1)
             \o Continuation(pushNull \o exchange(1)) \o fixStack(-1)
             \o ifElse \o fixStack(1), 1, 2)
fastLoad(t) ==
  CASE t.c = "Optional" -> loadOptional(t)
    [] t.c = "Tuple" -> loadMembers(t.sub)
    [] t.c = "Struct" -> loadMembers(t.sub) \o exchange(1)
    [] isRefType(t) -> pushDiff(1, "LDREF")
    [] t.c \in {"Address", "Contract"} -> pushDiff(1, "LDMSGADDR")
    [] isNumeric(t) -> pushDiffN(1, IF isSigned(t) THEN "LDI" ELSE "LDU", numBits(t))
    [] t.c = "Function" -> pushDiffN(1, "LDU", 32)
    [] isUsualArray(t) -> pushDiffN(1, "LDU", 32) \o pushDiff(1, "LDDICT") \o rotRev
                          \o pushDiffN(-1, "TUPLE", 2)
    [] t.c = "Mapping" -> pushDiff(1, "LDDICT")
    [] t.c = "VarInteger" -> push(varOpcode("LD", t))

preload(t) == Ensured(
  CASE t.c \in {"Optional", "VarInteger"} -> load(t, FALSE) \o drop(1)
    [] t.c \in {"Address", "Contract"} -> pushDiff(1, "LDMSGADDR") \o drop(1)
    [] isRefType(t) -> pushDiff(0, "PLDREF")
    [] t.c \in {"Struct", "Tuple"} -> convertSliceToTuple(t.sub)
    [] isNumeric(t) -> pushDiffN(0, IF isSigned(t) THEN "PLDI" ELSE "PLDU", numBits(t))
    [] t.c = "Function" -> pushDiffN(0, "PLDU", 32)
    [] isUsualArray(t) -> pushDiffN(1, "LDU", 32) \o pushDiff(0, "PLDDICT")
                          \o pushDiffN(-1, "TUPLE", 2)
    [] t.c \in {"Mapping", "ExtraCurrencyCollection"} -> pushDiff(0, "PLDDICT"), 0)

\* slice -> value slice' TRUE, or slice FALSE
decodeRefQ(t) == pushS(0) \o push("SREFS")
                   \o Continuation(load(t, FALSE) \o push("TRUE"))
                   \o Continuation(push("FALSE")) \o ifElse
loadQ(t) ==
  CASE t.c \in {"Address", "Contract"} -> pushAsym("LDMSGADDRQ")
    [] isRefType(t) -> decodeRefQ(t)
    [] isNumeric(t) -> pushAsymN(IF isSigned(t) THEN "LDIQ" ELSE "LDUQ", numBits(t))
    [] isUsualArray(t) ->
         pushAsymN("LDUQ", 32)
           \o Continuation(pushAsym("LDDICTQ")
                \o Continuation(rotRev \o tuple(2) \o blockSwap(1, 1) \o push("TRUE"))
                \o Continuation(dropUnder(1, 1) \o push("FALSE")) \o ifElse)
           \o Continuation(push("FALSE")) \o ifElse
    [] t.c \in {"Mapping", "ExtraCurrencyCollection"} -> pushAsym("LDDICTQ")

loadNextSliceIfNeed(next) ==
  IF next THEN pushDiff(1, "LDREF") \o pushDiff(-1, "ENDS") \o pushDiff(0, "CTOS") ELSE <<>>
checkEnum(t) == IF t.c = "Enum"
                THEN pushS(1) \o pushInt(t.n) \o pushDiff(-1, "GEQ") \o throwIf(1) ELSE <<>>

RECURSIVE decodeParameter(_, _)
RECURSIVE decodeEach(_, _, _)
decodeEach(ts, nexts, ensure) ==
  IF ts = <<>> THEN <<>>
  ELSE LET k == FlatLen(Head(ts))
           one == decodeParameter(Head(ts), SubSeq(nexts, 1, k))
       IN  (IF ensure THEN Ensured(one, 1) ELSE one)
             \o decodeEach(Tail(ts), SubSeq(nexts, k + 1, Len(nexts)), ensure)
decodeParameter(t, nexts) ==
  IF t.c = "Struct"
  THEN decodeEach(t.sub, nexts, FALSE)
         \o blockSwap(Len(t.sub), 1) \o tuple(Len(t.sub)) \o exchange(1)
  ELSE loadNextSliceIfNeed(nexts[1]) \o load(t, FALSE) \o checkEnum(t)
decodeParameters(ts, nexts, doDropSlice) ==
  decodeEach(ts, nexts, TRUE) \o IF doDropSlice THEN pushDiff(-1, "ENDS") ELSE <<>>
decodeData(offset, usedRefs, ts) == decodeParameters(ts, Position(offset, usedRefs, ts), TRUE)

decodeParameterQ(t, next, ind) ==
  loadNextSliceIfNeed(next) \o loadQ(t)
    \o Continuation(dropUnder(ind, 1) \o pushNull \o blockSwap(1, 1)) \o ifNotJmp \o checkEnum(t)
decodeParametersQ(ts, nexts) ==
  LET n == Len(ts) IN
  pushRefContAndCallX(
    Opaque(Flat([i \in 1 .. n |-> decodeParameterQ(ts[i], nexts[i], i - 1)])
             \o blockSwap(n, 1)
             \o (IF n > 1 THEN tuple(n) ELSE IF optValueAsTuple(ts[1]) THEN tuple(1) ELSE <<>>)
             \o blockSwap(1, 1), 1, 2), 1, 2)

convertSliceToTuple(ts) == Asserted(decodeData(0, 0, ts) \o tuple(Len(ts)), 0)

-----------------------------------------------------------------------------
(* Writing: value builder -> builder, or builder value -> builder.         *)

RECURSIVE store(_, _)
RECURSIVE tupleToBuilder(_)
storeOptional(t, reversed) ==
  Opaque((IF reversed THEN <<>> ELSE exchange(1)) \o pushS(0) \o pushDiff(0, "ISNULL")
         \o fixStack(-1)
         \o Continuation(drop(1) \o stzeroes(1)) \o fixStack(1)
         \o Continuation((IF optValueAsTuple(t.sub[1]) THEN untuple(1) ELSE <<>>)
                         \o IF isSmallOptional(t)
                            THEN exchange(1) \o stones(1) \o store(t.sub[1], FALSE)
                            ELSE tupleToBuilder(t.sub[1].sub) \o pushDiff(-1, "STBREFR")
                                 \o stones(1))
         \o fixStack(1) \o ifElse, 2, 1)
BuilderFirst(reversed) == IF reversed THEN <<>> ELSE exchange(1)
store(t, reversed) == Ensured(
  CASE t.c = "Optional" -> storeOptional(t, reversed)
    [] isRefType(t) -> pushDiff(-1, IF reversed THEN "STREFR" ELSE "STREF")
    [] t.c = "Struct" -> BuilderFirst(reversed) \o untuple(Len(t.sub)) \o reverse(Len(t.sub) + 1, 0)
                         \o Flat([i \in DOMAIN t.sub |-> store(t.sub[i], FALSE)])
    [] t.c \in {"Address", "Contract", "TvmSlice"} ->
         pushDiff(-1, IF reversed THEN "STSLICER" ELSE "STSLICE")
    [] isNumeric(t) -> pushN((IF isSigned(t) THEN "STI" ELSE "STU")
                             \o (IF reversed THEN "R" ELSE ""), numBits(t))
    [] t.c = "Function" -> pushDiffN(-1, IF reversed THEN "STUR" ELSE "STU", 32)
    [] t.c \in {"Mapping", "ExtraCurrencyCollection"} ->
         (IF reversed THEN exchange(1) ELSE <<>>) \o pushDiff(-1, "STDICT")
    [] isUsualArray(t) -> BuilderFirst(reversed) \o pushDiffN(1, "UNTUPLE", 2) \o exchange(2)
                          \o pushDiffN(-1, "STU", 32) \o pushDiff(-1, "STDICT")
    [] t.c = "TvmBuilder" -> pushDiff(-1, IF reversed THEN "STBR" ELSE "STB")
    [] t.c = "Tuple" -> BuilderFirst(reversed) \o tupleToBuilder(t.sub) \o pushDiff(-1, "STBR")
    [] t.c = "VarInteger" -> BuilderFirst(reversed) \o push(varOpcode("ST", t)), -1)

\* arg[n-1] ... arg[0] builder -> builder; the last types of `ts` lie deepest
RECURSIVE encodeEach(_, _)
encodeEach(ts, nexts) ==
  IF ts = <<>> THEN <<>>
  ELSE LET t == Head(ts) m == Len(t.sub) IN
       IF t.c = "Struct"
       THEN exchange(1) \o untuple(m) \o reverse(m + 1, 0) \o encodeEach(t.sub \o Tail(ts), nexts)
       ELSE (IF nexts[1] THEN blockSwap(Len(ts), 1) \o pushDiff(1, "NEWC") ELSE <<>>)
            \o store(t, FALSE) \o encodeEach(Tail(ts), Tail(nexts))
encodeParameters(ts, nexts) ==
  encodeEach(ts, nexts) \o Each(countOfCreatedBuilders(nexts), LAMBDA i : pushDiff(-1, "STBREFR"))

tupleToBuilder(ts) ==
  LET n == Len(ts) IN
  Asserted(pushRefContAndCallX(untuple(n) \o (IF n >= 2 THEN reverse(n, 0) ELSE <<>>)
             \o pushDiff(1, "NEWC") \o encodeParameters(ts, Position(0, 0, ts)), 1, 1), 0)

\* arg[0] ... arg[n-1] msgBuilder (reversedArgs: arg[n-1] ... arg[0]) -> msgBuilder'.
\* functionId is the code that pushes it, or empty for a constant.
createMsgBody(ts, functionId, callback, nexts) ==
  (IF functionId = <<>> THEN stSliceConst("functionId", 32)
   ELSE functionId \o pushDiffN(-1, "STUR", 32))
    \o (IF callback THEN stSliceConst("callbackId", 32) ELSE <<>>)
    \o encodeParameters(ts, nexts)
\* Forgets the bits of the header that are in the builder.
createMsgBodyAtStart(ts, functionId, callback, bitSizeBuilder, reversedArgs) ==
  LET there == Position(32 + (IF callback THEN 32 ELSE 0), 0, ts)
      n == Len(ts)
  IN  Ensured(stzeroes(1) \o (IF n >= 2 /\ ~reversedArgs THEN reverse(n, 1) ELSE <<>>)
              \o createMsgBody(ts, functionId, callback, there), -n)
createMsgBodyAndAppendToBuilder(ts, functionId, callback, bitSizeBuilder, reversedArgs) ==
  LET header == 32 + (IF callback THEN 32 ELSE 0)
      there == Position(bitSizeBuilder + header, 0, ts)
      doAppend == countOfCreatedBuilders(there) = 0
      n == Len(ts)
  IN  Ensured((IF doAppend THEN stzeroes(1) ELSE stones(1))
              \o (IF n >= 2 /\ ~reversedArgs THEN reverse(n, 1) ELSE <<>>)
              \o (IF doAppend THEN createMsgBody(ts, functionId, callback, there)
                  ELSE blockSwap(n, 1) \o pushDiff(1, "NEWC")
                       \o createMsgBody(ts, functionId, callback, Position(header, 0, ts))
                       \o pushDiff(-1, "STBREFR")), -n)
createDefaultConstructorMsgBodyAndAppendToBuilder(bitSizeBuilder) ==
  IF bitSizeBuilder < 1023 - 32 - 1 THEN stzeroes(1) \o stSliceConst("functionId", 32)
  ELSE stones(1) \o pushDiff(1, "NEWC") \o stSliceConst("functionId", 32)
       \o pushDiff(-1, "STBREFR")

-----------------------------------------------------------------------------
(* Default values.                                                         *)

ZeroAddress == Slice(<<V("addr", "zero", 267, <<>>)>>)
pushEmptyCell == pushValue(Cell(<<>>))
pushEmptyArray == pushInt(0) \o pushDiff(1, "NEWDICT") \o pushDiffN(-1, "TUPLE", 2)

RECURSIVE pushDefaultValue(_)
createDefaultStruct(ts) == Flat([i \in DOMAIN ts |-> pushDefaultValue(ts[i])]) \o tuple(Len(ts))
pushDefaultValue(t) == Opaque(
  CASE t.c \in {"Address", "Contract"} -> pushValue(ZeroAddress)
    [] isNumeric(t) \/ t.c = "VarInteger" -> pushDiffN(1, "PUSHINT", 0)
    [] isRefType(t) -> pushEmptyCell
    [] isUsualArray(t) -> pushEmptyArray
    [] t.c \in {"Mapping", "ExtraCurrencyCollection"} -> pushDiff(1, "NEWDICT")
    [] t.c = "Struct" -> createDefaultStruct(t.sub)
    [] t.c = "TvmSlice" -> pushValue(Slice(<<>>))
    [] t.c = "TvmBuilder" -> pushDiff(1, "NEWC")
    [] t.c = "Function" -> pushInt(0)
    [] t.c = "Optional" -> pushNull
    [] t.c = "TvmVector" -> tuple(0), 0, 1)
=============================================================================
