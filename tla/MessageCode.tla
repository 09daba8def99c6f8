---------------------------- MODULE MessageCode ----------------------------
(***************************************************************************)
(* Messages, deployment and calls of functions (TVMFunctionCall.cpp and    *)
(* the message section of TVMPusher.cpp).                                  *)
(*                                                                         *)
(* Options of a call are a function from their names to expressions.       *)
(***************************************************************************)
EXTENDS ExprCode

has(o, name) == name \in DOMAIN o
NoOptions == [name \in {} |-> Skip]
compileReversed(es) == compileEach(Reverse(es))
pushArgsReversed(es, ts) ==
  LET n == Len(es) IN
  Each(n, LAMBDA i : compileNewExpr(es[n + 1 - i]) \o hardConvert(ts[n + 1 - i], es[n + 1 - i].t))
pushArgsOf(es, ts) == Each(Len(es), LAMBDA i : compileNewExpr(es[i]) \o hardConvert(ts[i], es[i].t))

-----------------------------------------------------------------------------
(* The header of a message.  Constant bits are gathered, n of them, zero   *)
(* while all are 0, until a field that lies on the stack.                  *)

zeroBits(n) == [n |-> n, zero |-> TRUE]
someBits(n) == [n |-> n, zero |-> FALSE]
joined(a, b) == [n |-> a.n + b.n, zero |-> a.zero /\ b.zero]
boolToBinaryString(b) == IF b THEN someBits(1) ELSE zeroBits(1)
\* 4 bits for the number of bytes, and the bytes
RECURSIVE bytesOf(_)
bytesOf(n) == IF n = 0 THEN 0 ELSE 1 + bytesOf(n \div 256)
tonsToBinaryString(n) == IF n = 0 THEN zeroBits(4) ELSE someBits(4 + 8 * bytesOf(n))
DefaultMsgValue == 10000000

\* hex digits, and "_" when the last of them is not full
hexLength(n) == IF n % 4 = 0 THEN n \div 4 ELSE n \div 4 + 2
appendToBuilder(b) ==
  CASE b.n = 0 -> <<>>
    [] b.zero -> stzeroes(b.n)
    [] hexLength(b.n) * 4 <= 57 -> stSliceConst("header", b.n)
    [] OTHER -> pushValue(Slice(<<Bits("header", b.n)>>)) \o pushDiff(-1, "STSLICER")

IntMsgInfo == [first |-> zeroBits(1), counted |-> 0,
               fields |-> <<"ihr_disabled", "bounce", "bounced", "src", "dest", "tons", "currency",
                            "ihr_fee", "fwd_fee", "created_lt", "created_at">>,
               zeroes |-> <<1, 1, 1, 2, 2, 4, 1, 4, 4, 64, 32>>]
ExtOutMsgInfo == [first |-> someBits(2), counted |-> 2,
                  fields |-> <<"src", "dest", "created_lt", "created_at">>, zeroes |-> <<2, 2, 64, 32>>]
ExtInMsgInfo == [first |-> someBits(2), counted |-> 2,
                 fields |-> <<"src", "dest", "import_fee">>, zeroes |-> <<2, 2, 4>>]
ExtInboundSrcLength == 72 + 9 + 2 + 3 + 33

\* value... builder -> builder
storeField(f, isDestBuilder) ==
  CASE f = "bounce" -> pushDiffN(-1, "STI", 1)
    [] f = "dest" -> pushDiff(-1, IF isDestBuilder THEN "STB" ELSE "STSLICE")
    [] f = "src" -> pushDiff(-1, "STB")
    [] f = "tons" -> exchange(1) \o pushDiff(-1, "STGRAMS")
    [] f = "currency" -> pushDiff(-1, "STDICT")
fieldLength(f) == CASE f = "dest" -> AddressMaxBitLength [] f = "src" -> ExtInboundSrcLength
                    [] f = "tons" -> 124 [] f \in {"bounce", "currency"} -> 1
RECURSIVE msgInfo(_, _, _, _, _, _)
msgInfo(info, i, pending, onStack, const, isDestBuilder) ==
  IF i > Len(info.fields) THEN appendToBuilder(pending)
  ELSE LET f == info.fields[i]
           more(bits) == msgInfo(info, i + 1, joined(pending, bits), onStack, const, isDestBuilder)
       IN  CASE has(const, f) -> more(const[f])
             [] f \notin onStack -> IF info = IntMsgInfo /\ f = "dest" THEN solUnimplemented
                                    ELSE more(zeroBits(info.zeroes[i]))
             [] OTHER -> appendToBuilder(pending) \o storeField(f, isDestBuilder)
                           \o msgInfo(info, i + 1, zeroBits(0), onStack, const, isDestBuilder)
\* The length that int_msg_info and ext_msg_info return: the tag of an internal message
\* is not counted.
msgInfoSize(info, onStack, const) ==
  info.counted + SumOf(LAMBDA i : LET f == info.fields[i] IN
                                  CASE has(const, f) -> const[f].n [] f \in onStack -> fieldLength(f)
                                    [] OTHER -> info.zeroes[i], [i \in DOMAIN info.fields |-> i])

\* values... -> message.  stateInit: <<>> or its code; body[size]: the code that appends it.
prepareMsg(info, onStack, const, isDestBuilder, stateInit, body) ==
  LET size == msgInfoSize(info, onStack, const) + (IF stateInit = <<>> THEN 1 ELSE 2) IN
  pushDiff(1, "NEWC") \o msgInfo(info, 1, info.first, onStack, const, isDestBuilder)
    \o appendToBuilder(boolToBinaryString(stateInit # <<>>)) \o stateInit
    \o body[size] \o pushDiff(0, "ENDC")
noBody == [size \in Nat |-> appendToBuilder(zeroBits(1))]
DefaultFlag == pushInt(0)
sendMsg(info, onStack, const, isDestBuilder, stateInit, body, flag) ==
  prepareMsg(info, onStack, const, isDestBuilder, stateInit, body) \o flag \o pushDiff(-2, "SENDRAWMSG")

\* Values from the last field to the first.  A call with await keeps the address of the
\* callee below the arguments.
sendIntMsg(exprs, const, stateInit, body, flag, isAwait, callParams) ==
  LET value(f) == IF has(exprs, f) THEN compileNewExpr(exprs[f]) ELSE <<>>
      before == Cardinality(DOMAIN exprs \cap {"currency", "tons"})
  IN  value("currency") \o value("tons") \o value("dest")
        \o (IF isAwait THEN pushS(0) \o blockSwap(before + 1 + callParams, 1) ELSE <<>>)
        \o value("bounce")
        \o sendMsg(IntMsgInfo, DOMAIN exprs, const, FALSE, stateInit, body, flag)

-----------------------------------------------------------------------------
(* StateInit.                                                              *)

skipMaybe(n) == pushDiffN(1, "LDI", 1) \o exchange(1) \o fixStack(-1)
                  \o Continuation(pushDiffN(1, "LDI", n) \o dropUnder(1, 1)) \o _if
checkStateInit ==
  pushRefContAndCallX(pushDiff(0, "CTOS") \o skipMaybe(5) \o skipMaybe(2) \o pushDiff(1, "LDOPTREF")
                        \o pushDiff(1, "LDOPTREF") \o pushDiff(1, "LDDICT") \o pushDiff(-1, "ENDS")
                        \o drop(3), 1, 0)
\* Either StateInit ^StateInit
appendStateInit(e) == push("STONE") \o compileNewExpr(e) \o pushS(0) \o checkStateInit
                        \o pushDiff(-1, "STREFR")
convertedOr(o, name, t, other) ==
  IF has(o, name) THEN compileNewExpr(o[name]) \o hardConvert(t, o[name].t) ELSE other

KeyOfC4 == uint(64)
\* value -> dict', the variable with the given index in the dictionary of c4
putVariable(t, i) == prepareValueForDictOperations(KeyOfC4, t) \o pushInt(i) \o rot
                       \o setDict("DICTSET", KeyOfC4, valueForm(KeyOfC4, t))
\* vars: the static variables given, [t, e, i]
generateDataSection(key, vars) ==
  pushDiff(1, "NEWDICT") \o key \o putVariable(uint(256), 0)
    \o Each(Len(vars), LAMBDA j : compileNewExpr(vars[j].e) \o hardConvert(vars[j].t, vars[j].e.t)
                                    \o putVariable(vars[j].t, vars[j].i))
    \o pushDiff(1, "NEWC") \o pushDiff(-1, "STDICT") \o pushDiff(0, "ENDC")
buildStateInit(data, code, splitDepth) ==
  Asserted(data \o code
    \o (IF splitDepth # <<>> THEN splitDepth \o pushDiff(1, "NEWC") \o stones(1)
                                    \o pushDiffN(-1, "STU", 5) \o stzeroes(1)
        ELSE pushDiff(1, "NEWC") \o stSliceConst("0", 2))
    \o pushDiff(-1, "STOPTREF") \o pushDiff(-1, "STOPTREF") \o pushDiff(0, "STZERO") \o pushDiff(0, "ENDC"), 1)
optionOr(o, name, other) == IF has(o, name) THEN compileNewExpr(o[name]) ELSE other
\* tvm.buildStateInit({code, data | pubkey, varInit, splitDepth})
tvmBuildStateInit(o, vars) ==
  buildStateInit(IF has(o, "data") THEN compileNewExpr(o["data"])
                 ELSE generateDataSection(convertedOr(o, "pubkey", uint(256), pushInt(0)), vars),
                 compileNewExpr(o["code"]), convertedOr(o, "splitDepth", uint(8), <<>>))
tvmBuildDataInit(o, vars) ==
  Asserted(generateDataSection(convertedOr(o, "pubkey", uint(256), pushInt(0)), vars), 1)

-----------------------------------------------------------------------------
(* Messages to a function.  f: [ts, rets, responsible].                    *)

ihrDisabled == "ihr_disabled" :> someBits(1)
constTons(e) == tonsToBinaryString(constValue(e)[1])
callBody(f, callback, size) == createMsgBodyAndAppendToBuilder(f.ts, <<>>, callback, size, TRUE)

AwaitAnswerId == 8
\* After the answer has come: the body and the function id of the answer.
awaitAnswer(rets) ==
  Opaque(pushRefContAndCallX(
           pushMacroCallInCallRef(0, <<>>)
             \o pushCall(1, <<Slice(<<AnyField("answer")>>), Num("answerId", FALSE, 32)>>)
             \o getGlob(AwaitAnswerId, Whatever) \o pushDiff(-1, "EQUAL") \o throwIfNot(1) \o fixStack(2)
             \o decodeParameters(rets, Position(32, 0, rets), TRUE) \o fixStack(-1), 0, 0), 1, Len(rets))

\* dest.f{o}(args); a call with await leaves what f returns.
checkRemoteMethodCall(dest, f, o, args, isAwait) ==
  LET tonsConst == ~has(o, "value") \/ constValue(o["value"]) # <<>>
      const == ihrDisabled
                 @@ (IF has(o, "bounce") THEN NoOptions ELSE "bounce" :> someBits(1))
                 @@ (IF has(o, "currencies") THEN NoOptions ELSE "currency" :> zeroBits(1))
                 @@ (IF ~has(o, "value") THEN "tons" :> tonsToBinaryString(DefaultMsgValue)
                     ELSE IF tonsConst THEN "tons" :> constTons(o["value"]) ELSE NoOptions)
      exprs == ("dest" :> dest)
                 @@ (IF has(o, "bounce") THEN "bounce" :> o["bounce"] ELSE NoOptions)
                 @@ (IF has(o, "currencies") THEN "currency" :> o["currencies"] ELSE NoOptions)
                 @@ (IF tonsConst THEN NoOptions ELSE "tons" :> o["value"])
  IN  (IF isAwait THEN pushValue(Num("answerId", FALSE, 32)) \o setGlob(AwaitAnswerId) ELSE <<>>)
        \o pushArgsReversed(args, f.ts)
        \o sendIntMsg(exprs, const, <<>>, [size \in Nat |-> callBody(f, has(o, "callback") \/ isAwait, size)],
                      optionOr(o, "flag", DefaultFlag), isAwait, Len(args))
        \o IF isAwait THEN awaitAnswer(f.rets) ELSE <<>>

\* <address>.transfer(o)
transfer(dest, o) ==
  LET constBounce == ~has(o, "bounce") \/ o["bounce"].e = "bool"
      constValueOf == has(o, "value") /\ constValue(o["value"]) # <<>>
      const == ihrDisabled
                 @@ (IF ~has(o, "bounce") THEN "bounce" :> someBits(1)
                     ELSE IF constBounce THEN "bounce" :> boolToBinaryString(o["bounce"].n = 1) ELSE NoOptions)
                 @@ (IF constValueOf THEN "tons" :> constTons(o["value"]) ELSE NoOptions)
      exprs == ("dest" :> dest)
                 @@ (IF constBounce THEN NoOptions ELSE "bounce" :> o["bounce"])
                 @@ (IF has(o, "value") /\ ~constValueOf THEN "tons" :> o["value"] ELSE NoOptions)
                 @@ (IF has(o, "currencies") THEN "currency" :> o["currencies"] ELSE NoOptions)
      body == IF has(o, "body")
              THEN [size \in Nat |-> stones(1) \o compileNewExpr(o["body"]) \o pushDiff(-1, "STREFR")]
              ELSE noBody
  IN  sendIntMsg(exprs, const, IF has(o, "stateInit") THEN appendStateInit(o["stateInit"]) ELSE <<>>,
                 body, optionOr(o, "flag", DefaultFlag), FALSE, 0)
selfdestruct(dest) ==
  sendIntMsg("dest" :> dest, ihrDisabled @@ ("tons" :> zeroBits(4)) @@ ("bounce" :> zeroBits(1)), <<>>,
             noBody, pushInt(160), FALSE, 0)

\* tvm.buildIntMsg({dest, value, call: {f, [callback,] args}, bounce, currencies, stateInit})
tvmBuildIntMsg(o, f, args) ==
  LET field == [currencies |-> "currency", value |-> "tons", dest |-> "dest", bounce |-> "bounce"]
      given == DOMAIN o \cap DOMAIN field
      isConst(n) == constValue(o[n]) # <<>> \/ o[n].e = "bool"
      bitsOf(n) == IF constValue(o[n]) # <<>> THEN constTons(o[n]) ELSE boolToBinaryString(o[n].n = 1)
      nameOf(fd) == CHOOSE n \in DOMAIN field : field[n] = fd
      const == ihrDisabled @@ [fd \in {field[n] : n \in {m \in given : isConst(m)}} |-> bitsOf(nameOf(fd))]
      onStack == {field[n] : n \in {m \in given : ~isConst(m)}}
      value(n, t) == IF field[n] \in onStack THEN compileNewExpr(o[n]) \o hardConvert(t, o[n].t) ELSE <<>>
  IN  Asserted(pushArgsReversed(args, f.ts)
        \o value("currencies", currencies) \o value("value", uint(128)) \o value("dest", address)
        \o value("bounce", bool)
        \o prepareMsg(IntMsgInfo, onStack, const, FALSE,
                      IF has(o, "stateInit") THEN appendStateInit(o["stateInit"]) ELSE <<>>,
                      [size \in Nat |-> callBody(f, f.responsible, size)]), 1)

\* tvm.buildExtMsg(o) and dest.f{o}(args).extMsg.  The arguments are not converted.
signature(sign) == IF sign THEN stones(1) \o stzeroes(512) ELSE stzeroes(1)
storePubkey(e, sign) ==
  compileNewExpr(e)
    \o IF sign
       THEN pushS(0)
              \o Opaque(pushDiff(0, "ISNULL") \o fixStack(-1)
                        \o Continuation(drop(1) \o stzeroes(1))
                        \o Continuation(exchange(1) \o stones(1) \o fixStack(1) \o pushDiffN(-1, "STU", 256))
                        \o ifElse, 3, 1)
       ELSE pushDiff(0, "ISNULL") \o throwIfNot(1) \o stzeroes(1)
extBodySize(o) == 1 + 512 + (IF has(o, "pubkey") THEN 1 + 256 ELSE 0) + (IF has(o, "time") THEN 64 ELSE 0)
                    + (IF has(o, "expire") THEN 32 ELSE 0) + 32
extBody(o, f, args, sign) ==
  stones(1) \o compileReversed(args) \o pushDiff(1, "NEWC") \o signature(sign)
    \o (IF has(o, "pubkey") THEN storePubkey(o["pubkey"], sign) ELSE <<>>)
    \o (IF has(o, "time") THEN compileNewExpr(o["time"]) \o pushDiffN(-1, "STUR", 64) ELSE <<>>)
    \o (IF has(o, "expire") THEN compileNewExpr(o["expire"]) \o pushDiffN(-1, "STUR", 32) ELSE <<>>)
    \o createMsgBody(f.ts, <<>>, f.responsible, Position(extBodySize(o), 0, f.ts))
    \o pushDiff(-1, "STBREFR")
flagBit(b) == pushDiff(0, IF b THEN "STONE" ELSE "STZERO")
\* The source address carries the ids of the callbacks of the debot browser.
extSource(o) ==
  optionOr(o, "signBoxHandle", <<>>) \o pushN("PUSHINT", 2)
    \o compileNewExpr(o["onErrorId"]) \o compileNewExpr(o["callbackId"])
    \o pushDiff(1, "NEWC") \o stSliceConst("addr_extern", 2)
    \o (IF ~has(o, "signBoxHandle") THEN stSliceConst("76", 9)
        ELSE pushS(4) \o Opaque(pushDiff(0, "ISNULL") \o Continuation(stSliceConst("76", 9))
                                \o Continuation(stSliceConst("108", 9)) \o ifElse \o fixStack(-1), 2, 1))
    \o pushDiffN(-1, "STU", 32) \o pushDiffN(-1, "STU", 32) \o pushDiffN(-1, "STU", 8)
    \o flagBit(has(o, "time")) \o flagBit(has(o, "expire")) \o flagBit(has(o, "pubkey"))
    \o (IF ~has(o, "signBoxHandle") THEN flagBit(FALSE)
        ELSE pushS(1) \o Opaque(pushDiff(0, "ISNULL") \o Continuation(dropUnder(1, 1) \o stzeroes(1))
                                \o Continuation(stones(1) \o fixStack(1) \o pushDiffN(-1, "STU", 32))
                                \o ifElse \o fixStack(-1), 3, 1))
generateExtInboundMsg(dest, o, f, args, sign) ==
  Asserted(compileNewExpr(dest) \o extSource(o)
    \o prepareMsg(ExtInMsgInfo, {"src", "dest"}, NoOptions, FALSE,
                  IF ~has(o, "stateInit") THEN <<>>
                  ELSE stones(1) \o compileNewExpr(o["stateInit"]) \o pushS(0) \o checkStateInit
                         \o pushDiff(-1, "STREFR"),
                  [size \in Nat |-> extBody(o, f, args, sign)]), 1)
checkExtMsgSend(dest, o, f, args, sign) ==
  generateExtInboundMsg(dest, o, f, args, sign) \o DefaultFlag \o pushDiff(-2, "SENDRAWMSG")

\* tvm.encodeBody(f, [callback,] args) and tvm.encodeBody(contract without constructor).
\* The arguments are not converted; the 32 bits of a callback are not counted.
encodeBody(f, args) ==
  compileReversed(args) \o pushDiff(1, "NEWC")
    \o createMsgBody(f.ts, <<>>, f.responsible, Position(32, 0, f.ts)) \o pushDiff(0, "ENDC")
encodeDefaultConstructor == pushDiff(1, "NEWC") \o stSliceConst("functionId", 32) \o pushDiff(0, "ENDC")

-----------------------------------------------------------------------------
(* new C{o}(args): ctor is the parameter types of the constructor, or      *)
(* NoConstructor.                                                          *)

NoConstructor == <<NoType>>
createStateInit(o, vars) ==
  IF has(o, "stateInit") THEN compileNewExpr(o["stateInit"])
  ELSE Asserted(buildStateInit(generateDataSection(optionOr(o, "pubkey", pushInt(0)), vars),
                               compileNewExpr(o["code"]), optionOr(o, "splitDepth", <<>>)), 1)
\* stateInit -> stateInit address
deployAddress(o, resultNeeded) ==
  pushS(0) \o pushDiff(0, "HASHCU")
    \o (IF ~has(o, "wid") \/ constValue(o["wid"]) # <<>> THEN pushDiff(1, "NEWC") \o stSliceConst("wid", 11)
        ELSE compileNewExpr(o["wid"]) \o pushDiff(1, "NEWC") \o stSliceConst("addr_std", 3)
             \o pushDiffN(-1, "STI", 8))
    \o pushDiffN(-1, "STU", 256)
    \o IF resultNeeded THEN pushDiff(0, "ENDC") \o pushDiff(0, "CTOS") ELSE <<>>
createNewContract(o, vars, ctor, args, resultNeeded) ==
  LET constBounce == ~has(o, "bounce") \/ o["bounce"].e = "bool"
      tonsConst == constValue(o["value"]) # <<>>
      const == ihrDisabled
                 @@ (IF constBounce THEN "bounce" :> boolToBinaryString(has(o, "bounce") => o["bounce"].n = 1)
                     ELSE NoOptions)
                 @@ (IF tonsConst THEN "tons" :> constTons(o["value"]) ELSE NoOptions)
      onStack == {"dest"} \cup (IF constBounce THEN {} ELSE {"bounce"})
                   \cup (IF tonsConst THEN {} ELSE {"tons"})
                   \cup (IF has(o, "currencies") THEN {"currency"} ELSE {})
      n == Len(args)
      \* below the address pushed here: the stateInit, the arguments, the address itself
      before == Cardinality(onStack \cap {"currency", "tons"})
  IN  pushArgsReversed(args, ctor) \o createStateInit(o, vars)
        \o deployAddress(o, resultNeeded) \o blockSwap(n + 1, 1)
        \o optionOr(o, "currencies", <<>>)
        \o (IF tonsConst THEN <<>> ELSE compileNewExpr(o["value"]))
        \o pushS(before + n + 1)
        \o (IF constBounce THEN <<>> ELSE compileNewExpr(o["bounce"]))
        \o sendMsg(IntMsgInfo, onStack, const, ~resultNeeded,
                   stones(1) \o pushS(1) \o checkStateInit \o pushDiff(-1, "STREF"),
                   [size \in Nat |-> IF ctor = NoConstructor
                                     THEN createDefaultConstructorMsgBodyAndAppendToBuilder(size)
                                     ELSE createMsgBodyAndAppendToBuilder(ctor, <<>>, FALSE, size, TRUE)],
                   optionOr(o, "flag", DefaultFlag))

-----------------------------------------------------------------------------
(* What the callee does with a message: decodePublicFunctionParameters.    *)

maxBits(o, responsible) == extBodySize(o) + (IF responsible THEN 32 ELSE 0)
minBits(responsible) == 32 + (IF responsible THEN 32 ELSE 0)
decodePublicFunctionParameters(ts, bits) == decodeParameters(ts, Position(bits, 0, ts), TRUE)

(* abi.encode, abi.decode                                                  *)

abiEncode(args) == LET ts == [i \in DOMAIN args |-> mobileType(args[i].t)] IN
  compileReversed(args) \o push("NEWC") \o encodeParameters(ts, Position(0, 0, ts)) \o push("ENDC")
abiDecode(cell, ts) == compileNewExpr(cell) \o push("CTOS") \o decodeData(0, 0, ts)

-----------------------------------------------------------------------------
(* Calls of functions.  res: what the callee leaves.                       *)

\* f(args), Base.f(args), super.f(args), Lib.f(args)
callFunction(ts, args, res) == pushArgsOf(args, ts) \o pushCall(Len(ts), res)
\* x.f(args) for a function of a library attached to the type of x: the callee leaves
\* the object before the results
libraryCall(x, ts, args, obj, res) ==
  LET expand == IF isLValue(x) THEN expandLValue(x, TRUE) ELSE compileNewExpr(x)
      collect == IF isLValue(x) THEN collectLValue(x, TRUE) ELSE drop(1)
  IN  expand \o pushArgsOf(args, ts) \o pushCall(Len(ts) + 1, <<obj>> \o res)
        \o blockSwap(Grow(expand, 0), Len(res)) \o collect
\* A variable of a function type holds an id; 0 is no function.
functionVariableCall(fv, ts, args, res) ==
  pushArgsOf(args, ts) \o compileNewExpr(fv) \o pushS(0) \o pushInt(0) \o pushDiff(-1, "EQUAL")
    \o throwIf(1) \o pushValue(Whatever) \o pushCall(Len(ts) + 2, res)

\* address.makeAddrStd(wid, value), makeAddrExtern(value, bits), makeAddrNone()
typeTypeMethods(name, ts, args) ==
  IF \A i \in DOMAIN args : constValue(args[i]) # <<>> THEN pushValue(Address("literal"))
  ELSE CASE name = "makeAddrExtern" ->
              pushArgsOf(args, ts) \o pushS(0) \o pushDiff(1, "NEWC") \o stSliceConst("addr_extern", 2)
                \o pushDiffN(-1, "STU", 9) \o exchange(1) \o pushDiff(-2, "STUX") \o pushDiff(0, "ENDC")
                \o pushDiff(0, "CTOS")
         [] name = "makeAddrStd" ->
              pushArgsReversed(args, ts) \o pushDiff(1, "NEWC") \o stSliceConst("addr_std", 3)
                \o pushDiffN(-1, "STI", 8) \o pushDiffN(-1, "STU", 256) \o pushDiff(0, "ENDC")
                \o pushDiff(0, "CTOS")

\* new T[](n)
\* The loop's key is dropped with the default value.
honestArrayCreationDropsKey(t, e, onlyDict) ==
  Asserted(compileNewExpr(e) \o hardConvert(uint(256), e.t) \o pushDefaultValueForDict(ArrayKey, t)
    \o pushInt(0) \o push("NEWDICT") \o pushS(3) \o fixStack(-1)
    \o Continuation(pushS(2) \o pushS(2) \o push("INC") \o exchange(3) \o rot
                    \o setDict("DICTSET", ArrayKey, defaultForm(ArrayKey, t)))
    \o repeat \o dropUnder(3, 1) \o pushN("TUPLE", 2), 1)
honestArrayCreation(t, e, onlyDict) ==
  Asserted(compileNewExpr(e) \o hardConvert(uint(256), e.t) \o pushDefaultValueForDict(ArrayKey, t)
    \o pushInt(0) \o push("NEWDICT") \o pushS(3) \o fixStack(-1)
    \o Continuation(pushS(2) \o pushS(2) \o push("INC") \o exchange(3) \o rot
                    \o setDict("DICTSET", ArrayKey, defaultForm(ArrayKey, t)))
    \o repeat
    \o IF onlyDict THEN dropUnder(3, 1) ELSE dropUnder(2, 1) \o pushN("TUPLE", 2), 1)
creatArrayWithDefaultValue(t, e, pure) ==
  CASE constValue(e) = <<0>> -> pushDefaultValue(array(t))
    [] pure -> compileNewExpr(e) \o hardConvert(uint(256), e.t) \o pushValue(AnyDict("computed")) \o pushN("TUPLE", 2)
    [] OTHER -> honestArrayCreation(t, e, FALSE)

\* <struct>.unpack()
structMethodCall(x) == compileNewExpr(x) \o untuple(Len(x.t.sub))
\* tvm.insertPubkey, tvm.stateInitHash
insertPubkey(args) == pushArgsOf(args, <<TvmCell, uint(256)>>) \o pushMacroCallInCallRef(2, <<Sample(TvmCell, "c")>>)
stateInitHash(args) == pushArgsOf(args, <<uint(256), uint(256), uint(16), uint(16)>>)
                         \o pushMacroCallInCallRef(4, <<Num("?", FALSE, 256)>>)
=============================================================================
