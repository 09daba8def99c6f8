--------------------------- MODULE EntryPrograms ----------------------------
(***************************************************************************)
(* Sources that send messages, deploy contracts and call functions: a      *)
(* message is followed to the contract that gets it, and what the callee   *)
(* decodes are the arguments of the call.  And contracts whose entry code  *)
(* is followed from a message to the state it leaves: what is written to c4*)
(* is what the next transaction reads, the function that a message names   *)
(* gets the arguments of the message, its answer carries the results.      *)
(***************************************************************************)
EXTENDS MessageCode, EntryCode, CodegenPrograms

Function(ts) == [ts |-> ts, rets |-> <<uint(8)>>, responsible |-> FALSE]
Responsible(ts) == [Function(ts) EXCEPT !.responsible = TRUE]
ArgId(i) == "a" \o ToString(i)
ArgsOf(ts) == [i \in DOMAIN ts |-> Some(ts[i], ArgId(i))]
IsArgs(ts) == [i \in DOMAIN ts |-> Is(Sample(ts[i], ArgId(i)))]
It(t) == Some(t, "v")

\* Parameters that fit in the cell of the message, just fit in it, or go on in further cells.
ParameterLists ==
  {<<>>, <<uint(8)>>, <<uint(256), uint(256), uint(256)>>, <<address, address>>, <<bytes, TvmCell, string>>,
   <<bytes, TvmCell, string, bytes>>, <<bytes, bytes, bytes, bytes, uint(8)>>,
   <<optional(uint(8)), struct(<<uint(8), bytes>>), mapping(uint(8), bool)>>,
   <<array(uint(8)), enum(3), varuint(16)>>,
   <<uint(256), uint(256), uint(256), uint(223), bytes>>, <<uint(256), uint(256), uint(256), uint(192), bool>>}

\* Left out: destinations longer than the 267 bits of a standard address.  A message info is two
\* bits longer than the generator counts; with an address of the maximal 591 bits and a value of
\* 124 the cell can overflow.
StdAddress(t) == Value(t, Slice(<<V("addr", "dest", 267, <<>>)>>))

SendOptions ==
  {NoOptions, "value" :> Number(5), ("value" :> It(uint(128))) @@ ("flag" :> Number(1)),
   ("bounce" :> It(bool)) @@ ("currencies" :> It(currencies)),
   ("value" :> It(uint(128))) @@ ("bounce" :> BoolLit(FALSE)) @@ ("currencies" :> It(currencies))
      @@ ("flag" :> It(uint(8)))}
StateInit == "stateInit" :> It(TvmCell)

\* Left out: parameters with more references than the header leaves room for.  The generator does
\* not count those that the header holds (ReferencePrograms).
headerRefs(o) == (IF has(o, "currencies") THEN 1 ELSE 0)
                   + (IF has(o, "stateInit") \/ has(o, "code") THEN 1 ELSE 0)
parameterRefs(ts) == SumOf(LAMBDA t : ABITypeSize(t)[2], ts)
RefsFit(ts, o) == parameterRefs(ts) \notin 5 - headerRefs(o) .. 4

\* message -> arguments: the callee drops the function id and the id of the callback.
skipId == pushDiffN(1, "LDU", 32) \o dropUnder(1, 1)
Received(ts, bits, hasCallback) ==
  receive \o skipId \o (IF hasCallback THEN skipId ELSE <<>>) \o decodePublicFunctionParameters(ts, bits)
Sending(name, options, code(_, _), want(_)) ==
  UNION {{Program(<<name, ts, o>>, <<>>, code(ts, o), want(ts)) : o \in {p \in options : RefsFit(ts, p)}} :
         ts \in ParameterLists}
Dest == StdAddress(contract(1))

\* The parameters that RefsFit leaves out: four references after that of the currencies.
ReferencePrograms(ts) ==
  {Program(<<"call", ts, o>>, <<>>,
           checkRemoteMethodCall(Dest, Function(ts), o, ArgsOf(ts), FALSE) \o sent
             \o Received(ts, minBits(FALSE), FALSE), IsArgs(ts)) :
     o \in {NoOptions, "currencies" :> It(currencies)}}

RemoteCalls(options) ==
  Sending("call", options,
          LAMBDA ts, o : checkRemoteMethodCall(Dest, Function(ts), o, ArgsOf(ts), FALSE) \o sent
                           \o Received(ts, minBits(FALSE), FALSE), IsArgs)
  \cup
  Sending("callback", options,
          LAMBDA ts, o : checkRemoteMethodCall(Dest, Responsible(ts), o @@ ("callback" :> Skip), ArgsOf(ts), FALSE)
                           \o sent \o Received(ts, minBits(TRUE), TRUE), IsArgs)
  \cup
  Sending("await", options,
          LAMBDA ts, o : checkRemoteMethodCall(Dest, Responsible(ts), o, ArgsOf(ts), TRUE),
          LAMBDA ts : <<Of(uint(8))>>)

Transfers(options) ==
  {Program(<<"transfer", o>>, <<>>, transfer(It(address), o), <<>>) :
     o \in {p @@ q : p \in options,
                     q \in {NoOptions, "body" :> It(TvmCell), StateInit, ("body" :> It(TvmCell)) @@ StateInit}}}
  \cup {Program(<<"selfdestruct">>, <<>>, selfdestruct(It(address)), <<>>)}

IntMsgOptions == {o \in {p @@ q : p \in SendOptions, q \in {NoOptions, StateInit}} : has(o, "value") /\ ~has(o, "flag")}
IntMessages(options) ==
  LET built(f, o, ts) == tvmBuildIntMsg(("dest" :> StdAddress(address)) @@ o, f, ArgsOf(ts))
                           \o Received(ts, minBits(f.responsible), f.responsible)
  IN  Sending("buildIntMsg", options, LAMBDA ts, o : built(Function(ts), o, ts), IsArgs)
        \cup Sending("responsible", options, LAMBDA ts, o : built(Responsible(ts), o, ts), IsArgs)

\* Left out: responsible functions in external messages and in tvm.encodeBody, where the 32 bits
\* of the callback's id are not counted.
ExtOptions ==
  {("onErrorId" :> It(uint(32))) @@ ("callbackId" :> Number(1)) @@ o :
     o \in {NoOptions, StateInit, "pubkey" :> It(optional(uint(256))),
            ("time" :> It(uint(64))) @@ ("expire" :> It(uint(32))),
            ("pubkey" :> Value(optional(uint(256)), Null)) @@ ("time" :> It(uint(64))) @@ ("expire" :> It(uint(32)))
               @@ ("signBoxHandle" :> It(optional(uint(32)))),
            "signBoxHandle" :> Value(optional(uint(32)), Null)}}
ExtMessages(options) ==
  {Program(<<"buildExtMsg", ts, o, sign>>, <<>>,
           generateExtInboundMsg(It(address), o, Function(ts), ArgsOf(ts), sign)
             \o Received(ts, maxBits(o, FALSE), FALSE), IsArgs(ts)) :
     ts \in ParameterLists, o \in options, sign \in BOOLEAN}
  \cup {Program(<<"extMsg", o>>, <<>>, checkExtMsgSend(It(address), o, Function(<<>>), <<>>, FALSE), <<>>) :
          o \in options}

Bodies(tss) ==
  UNION {{Program(<<"encodeBody", ts>>, <<>>,
                  encodeBody(Function(ts), ArgsOf(ts)) \o Received(ts, minBits(FALSE), FALSE), IsArgs(ts)),
          Program(<<"abi.encode", ts>>, <<>>, abiEncode(ArgsOf(ts)) \o push("CTOS") \o decodeData(0, 0, ts),
                  IsArgs(ts)),
          Program(<<"abi.decode", ts>>, <<>>, abiDecode(It(TvmCell), ts), [i \in DOMAIN ts |-> Of(ts[i])])} :
         ts \in tss}
  \cup {Program(<<"encodeBody">>, <<>>, encodeDefaultConstructor, <<Of(TvmCell)>>)}

Record == struct(<<uint(8), bytes>>)
StaticVariables == {<<>>, <<[t |-> uint(8), e |-> Number(3), i |-> 1], [t |-> bytes, e |-> It(bytes), i |-> 2],
                            [t |-> Record, e |-> It(Record), i |-> 3]>>}
StateInits(vss) ==
  {Program(<<"buildStateInit", o, vs>>, <<>>,
           tvmBuildStateInit(("code" :> It(TvmCell)) @@ o, vs) \o pushS(0) \o checkStateInit, <<Of(TvmCell)>>) :
     o \in {NoOptions, "pubkey" :> It(uint(256)), "data" :> It(TvmCell),
            ("splitDepth" :> Number(3)) @@ ("pubkey" :> Number(0))}, vs \in vss}
  \cup {Program(<<"buildDataInit", vs>>, <<>>, tvmBuildDataInit(NoOptions, vs), <<Of(TvmCell)>>) :
          vs \in vss}

NewOptions ==
  {o @@ p : o \in {q \in SendOptions : has(q, "value")},
            p \in {StateInit, "code" :> It(TvmCell),
                   ("code" :> It(TvmCell)) @@ ("wid" :> It(int(8))) @@ ("splitDepth" :> It(uint(8)))
                     @@ ("pubkey" :> It(uint(256)))}}
\* a statement leaves its builder, which ExpressionStatement drops
NewResult(needed) == IF needed THEN Of(address) ELSE Of(TvmBuilder)
Deployments(options) ==
  UNION {Sending(IF needed THEN "new" ELSE "new;", options,
                 LAMBDA ts, o : createNewContract(o, <<>>, ts, ArgsOf(ts), needed) \o sent
                                  \o Received(ts, minBits(FALSE), FALSE),
                 LAMBDA ts : <<NewResult(needed)>> \o IsArgs(ts))
         \cup {Program(<<"new default", o, needed>>, <<>>, createNewContract(o, <<>>, NoConstructor, <<>>, needed),
                       <<NewResult(needed)>>) : o \in options} : needed \in BOOLEAN}

-----------------------------------------------------------------------------
(* Calls within the contract.                                              *)

Result == <<Sample(bool, "r")>>
Byte == It(uint(8))
LibraryCalls(res) ==
  {Program(<<"library", "value">>, <<>>, libraryCall(Byte, <<uint(16)>>, <<Byte>>, Sample(uint(8), "obj"), res),
           <<Of(bool)>>),
   Program(<<"library", "local">>, <<Sample(uint(8), "x")>>,
           libraryCall(Local(0, uint(8)), <<uint(16)>>, <<Byte>>, Sample(uint(8), "obj"), res),
           <<Is(Sample(uint(8), "obj")), Is(Sample(bool, "r"))>>),
   Program(<<"library", "index">>, <<Sample(mapping(uint(8), uint(8)), "m")>>,
           libraryCall(Index(Local(0, mapping(uint(8), uint(8))), Number(3)), <<uint(16)>>, <<Byte>>,
                       Sample(uint(8), "obj"), res \o <<Sample(bool, "q")>>),
           <<Of(mapping(uint(8), uint(8))), Is(Sample(bool, "r")), Is(Sample(bool, "q"))>>)}
NewArrays(ts) ==
  {Program(<<"new[]", t, e, pure>>, <<>>, creatArrayWithDefaultValue(t, e, pure), <<Of(array(t))>>) :
     t \in ts, e \in {Number(0), Number(2), Byte}, pure \in BOOLEAN}
PlainCalls(res) ==
  {Program(<<"f">>, <<>>, callFunction(<<uint(16)>>, <<Byte>>, res), <<Of(bool)>>),
   Program(<<"variable">>, <<>>, functionVariableCall(It(function), <<uint(16)>>, <<Byte>>, res), <<Of(bool)>>),
   Program(<<"makeAddrStd">>, <<>>,
           typeTypeMethods("makeAddrStd", <<int(8), uint(256)>>, <<Number(0), It(uint(256))>>), <<Of(address)>>),
   Program(<<"makeAddrStd", "constant">>, <<>>,
           typeTypeMethods("makeAddrStd", <<int(8), uint(256)>>, <<Number(0), Number(1)>>), <<Of(address)>>),
   Program(<<"makeAddrExtern">>, <<>>,
           typeTypeMethods("makeAddrExtern", <<uint(256), uint(16)>>, <<It(uint(256)), It(uint(16))>>), <<Of(address)>>),
   Program(<<"unpack">>, <<>>, structMethodCall(It(Record)), <<Of(uint(8)), Of(bytes)>>),
   Program(<<"insertPubkey">>, <<>>, insertPubkey(<<It(TvmCell), It(uint(256))>>), <<Of(TvmCell)>>),
   Program(<<"stateInitHash">>, <<>>,
           stateInitHash(<<It(uint(256)), It(uint(256)), It(uint(16)), Number(3)>>), <<Of(uint(256))>>)}

MessagePrograms(options) ==
  RemoteCalls(options) \cup Transfers(options) \cup IntMessages(IntMsgOptions) \cup ExtMessages(ExtOptions)
    \cup Bodies(ParameterLists) \cup StateInits(StaticVariables) \cup Deployments(NewOptions)
CallPrograms(res) ==
  LibraryCalls(res) \cup PlainCalls(res) \cup NewArrays({uint(8), bytes, Pair, optional(uint(8)), address})

-----------------------------------------------------------------------------
PlainVar(t) == [t |-> t, static |-> FALSE, init |-> <<>>]
StaticVar(t) == [PlainVar(t) EXCEPT !.static = TRUE]
Contract(vars) ==
  [vars |-> vars, await |-> FALSE, time |-> FALSE, expire |-> FALSE, pubkey |-> FALSE, msgPubkey |-> FALSE,
   sender |-> FALSE, responsible |-> FALSE, copyleft |-> FALSE, functions |-> <<>>,
   after |-> <<>>, receive |-> <<>>, fallback |-> <<>>, onBounce |-> <<>>]

\* The state variables hold known values; a key and a time too.
VarId(i) == "s" \o ToString(i)
varsOf(ts) == [i \in DOMAIN ts |-> PlainVar(ts[i])]
pushEach(vs) == Each(Len(vs), LAMBDA i : pushValue(vs[i]))
StateValues(ts) == [i \in DOMAIN ts |-> Sample(ts[i], VarId(i))]
Pubkey == Num("pubkey", FALSE, 256)
OldTime == Num("oldTime", FALSE, 64)
setState(ct) == Each(Len(ct.vars), LAMBDA i : pushValue(Sample(ct.vars[i].t, VarId(i))) \o setVariable(i))
                  \o pushValue(Pubkey) \o setGlob(C7.TvmPubkey) \o pushValue(OldTime) \o setGlob(C7.ReplayProtTime)
clear(ct) == Each(Len(ct.vars), LAMBDA i : pushNull \o setVariable(i))
               \o pushNull \o setGlob(C7.TvmPubkey) \o pushNull \o setGlob(C7.ReplayProtTime)
readState(ct) == getGlob(C7.TvmPubkey, Null) \o getGlob(C7.ReplayProtTime, Null)
                   \o Each(Len(ct.vars), LAMBDA i : variable(i, ct.vars[i].t))
IsState(ct, time) == <<Is(Pubkey), Is(IF storeTimestampInC4(ct) THEN time ELSE Null)>>
                       \o [i \in DOMAIN ct.vars |-> Is(Sample(ct.vars[i].t, VarId(i)))]

StateTypes ==
  {<<>>, <<uint(8)>>, <<uint(256), bytes, bool>>, <<mapping(uint(8), bool), optional(uint(8)), address>>,
   <<uint(256), uint(256), uint(190)>>, <<uint(256), uint(256), uint(191)>>, <<uint(256), uint(256), uint(192), bool>>,
   <<bytes, TvmCell, string, bytes>>, <<bytes, bytes, bytes, bytes, uint(8)>>,
   <<struct(<<uint(8), bytes>>), array(uint(8)), enum(3), varuint(16)>>,
   [i \in 1 .. 15 |-> uint(64)], [i \in 1 .. 16 |-> uint(8)], [i \in 1 .. 17 |-> uint(64)]}
Skipping == <<drop(1)>>      \* afterSignatureCheck that returns the rest of the body
StateContracts(tss) == UNION {{[Contract(varsOf(ts)) EXCEPT !.await = a, !.after = f] :
                                 a \in BOOLEAN, f \in {<<>>, Skipping}} : ts \in tss}
StatePrograms(cts) ==
  {Program(<<"c4", ct>>, <<>>,
           setState(ct) \o callMacro(generateC7ToT4Macro(ct)) \o clear(ct) \o callMacro(generateC4ToC7(ct))
             \o readState(ct), IsState(ct, OldTime)) : ct \in cts}
  \cup
  {Program(<<"time", ct>>, <<>>,
           setState(ct) \o callMacro(generateC7ToT4Macro(ct)) \o clear(ct)
             \o pushValue(Num("time", FALSE, 64)) \o setGlob(C7.ReplayProtTime) \o callMacro(updateOnlyTime)
             \o clear(ct) \o callMacro(generateC4ToC7WithInitMemory(ct)) \o readState(ct),
           IsState(ct, Num("time", FALSE, 64))) : ct \in {c \in cts : storeTimestampInC4(c)}}

-----------------------------------------------------------------------------
(* Messages.  A header bit of a message that comes from outside is known,  *)
(* its signature and key are not.                                          *)

deployed(ct) == setState(ct) \o callMacro(generateC7ToT4Macro(ct))
NewTime == Num("time", FALSE, 64)
Sender == Address("sender")
IntMsg(bounced) == Cell(<<Field("U", 4, Const(IF bounced THEN 1 ELSE 0)), Sender.c[1], AnyField("msg")>>)
ExtMsg == Cell(<<Field("U", 2, Const(2)), Sender.c[1], AnyField("msg")>>)
storeHeader(ct, signed) ==
  (IF signed THEN push("STONE") \o stSliceConst("sign", 512) ELSE push("STZERO"))
    \o When(ct.pubkey, IF signed THEN push("STONE") \o pushValue(Pubkey) \o pushDiffN(-1, "STUR", 256)
                       ELSE push("STZERO"))
    \o When(hasTimeInAbiHeader(ct), pushValue(NewTime) \o pushDiffN(-1, "STUR", 64))
    \o When(ct.expire, pushValue(Num("expire", FALSE, 32)) \o pushDiffN(-1, "STUR", 32))
\* The sender lays parameters out as the decoder counts, with the header of a signed message; that
\* of an unsigned one is shorter.
bodyOf(ct, id, responsible, ts, header, bits) ==
  Each(Len(ts), LAMBDA i : pushValue(Sample(ts[Len(ts) + 1 - i], ArgId(Len(ts) + 1 - i))))
    \o pushDiff(1, "NEWC") \o header \o pushInt(id) \o pushDiffN(-1, "STUR", 32)
    \o When(responsible, pushValue(Num("functionId", FALSE, 32)) \o pushDiffN(-1, "STUR", 32))
    \o encodeParameters(ts, Position(bits + 32 + (IF responsible THEN 32 ELSE 0), 0, ts))
    \o pushDiff(0, "ENDC") \o pushDiff(0, "CTOS")
Balance == pushValue(Num("balance", FALSE, 120)) \o pushValue(Num("value", FALSE, 120))
external(ct, id, responsible, ts, signed) ==
  Balance \o pushValue(ExtMsg) \o bodyOf(ct, id, responsible, ts, storeHeader(ct, signed), headerBits(ct))
    \o pushInt(-1) \o transaction(5, generateMainExternalForAbiV2(ct))
internal(ct, id, responsible, ts) ==
  Balance \o pushValue(IntMsg(FALSE)) \o bodyOf(ct, id, responsible, ts, <<>>, 0)
    \o pushInt(0) \o transaction(5, generateMainInternal(ct))

\* A function that returns its arguments; one that is not view also assigns a variable.
NewValue(ct) == Sample(ct.vars[1].t, "new")
assignFirst(ct) == pushValue(NewValue(ct)) \o setVariable(1)
Echo(ct, ts, rets, mutability, responsible) ==
  [ts |-> ts, rets |-> rets, mutability |-> mutability, responsible |-> responsible, modifiers |-> <<>>,
   only |-> "", body |-> When(mutability = "NonPayable", assignFirst(ct)) \o When(rets = <<>>, drop(Len(ts)))]
Other == [id |-> 3, code |-> _throw(0, TRUE)]
withFunction(ct, f) == [ct EXCEPT !.functions = <<[id |-> 7, code |-> generatePublicFunction(ct, f)], Other>>,
                                  !.responsible = f.responsible]
reload(ct) == clear(ct) \o callMacro(generateC4ToC7(ct)) \o readState(ct)
StateAfter(ct, mutability, time) ==
  [IsState(ct, time) EXCEPT ![3] = IF mutability = "NonPayable" THEN Is(NewValue(ct)) ELSE @]
answer(f) == sent \o Received(f.rets, minBits(FALSE), FALSE)

EntryContracts ==
  LET ct == Contract(varsOf(<<uint(8)>>))
      two == Contract(varsOf(<<uint(8), bytes>>))
      time == LDU(64) \o dropUnder(1, 1)
  IN  {ct, [ct EXCEPT !.pubkey = TRUE, !.msgPubkey = TRUE, !.expire = TRUE], [two EXCEPT !.sender = TRUE],
       [two EXCEPT !.await = TRUE, !.copyleft = TRUE],
       [two EXCEPT !.after = Skipping, !.pubkey = TRUE],
       [two EXCEPT !.after = <<drop(1) \o time>>, !.time = TRUE]}
EntryTypes == {<<>>, <<uint(8)>>, <<uint(256), bytes>>, <<bytes, TvmCell, string, bytes>>}
Entered(kind, ct, f, code) ==
  LET answered == f.rets # <<>> /\ (kind = "external" \/ f.responsible)
      time == IF kind = "external" THEN NewTime ELSE OldTime
  IN  Program(<<kind, ct, f.ts, f.rets, f.mutability, f.responsible>>, <<>>,
              deployed(ct) \o code \o When(answered, answer(f)) \o reload(ct),
              (IF answered THEN IsArgs(f.ts) ELSE <<>>) \o StateAfter(ct, f.mutability, time))
EntryFunctions(ct, ts) ==
  {Echo(ct, ts, ts, "Pure", TRUE), Echo(ct, ts, ts, "View", FALSE), Echo(ct, ts, <<>>, "NonPayable", FALSE),
   Echo(ct, ts, ts, "NonPayable", TRUE)}
FunctionPrograms(cts) ==
  UNION {UNION {LET c == withFunction(ct, f)
                IN  {Entered("external", ct, f, external(c, 7, f.responsible, f.ts, TRUE)),
                     Entered("internal", ct, f, internal(c, 7, f.responsible, f.ts))} :
                f \in UNION {EntryFunctions(ct, ts) :
                               ts \in IF Len(ct.vars) = 1 THEN EntryTypes ELSE {<<uint(8)>>}}} :
         ct \in cts}

\* A getter answers and keeps the old time.
GetterPrograms(cts) ==
  {LET c == [ct EXCEPT !.functions = <<[id |-> 7, code |-> generateGetter(ct, 1)], Other>>]
   IN  Program(<<"getter", ct>>, <<>>,
               deployed(ct) \o external(c, 7, FALSE, <<>>, TRUE) \o sent
                 \o Received(<<ct.vars[1].t>>, minBits(FALSE), FALSE) \o reload(ct),
               <<Is(Sample(ct.vars[1].t, VarId(1)))>> \o IsState(ct, OldTime)) : ct \in cts}

\* receive, fallback and onBounce mark the first variable.
Marks(ct, id, ts) ==
  [ts |-> ts, rets |-> <<>>, mutability |-> "NonPayable", responsible |-> FALSE, modifiers |-> <<>>, only |-> "",
   body |-> drop(Len(ts)) \o pushValue(Sample(ct.vars[1].t, id)) \o setVariable(1)]
handler(ct, yes, id, ts) == IF yes THEN <<generateReceiveOrFallbackOrOnBounce(ct, Marks(ct, id, ts))>> ELSE <<>>
plainBody(kind) ==
  pushDiff(1, "NEWC")
    \o (CASE kind = "empty" -> <<>>
          [] kind = "zero" -> pushInt(0) \o pushDiffN(-1, "STUR", 32)
          [] kind = "short" -> pushInt(5) \o pushDiffN(-1, "STUR", 16)
          [] OTHER -> pushInt(5) \o pushDiffN(-1, "STUR", 32))
    \o pushDiff(0, "ENDC") \o pushDiff(0, "CTOS")
HandlerPrograms(cts) ==
  {LET ct == [c EXCEPT !.receive = handler(c, r, "receive", <<>>), !.fallback = handler(c, f, "fallback", <<>>),
                       !.onBounce = handler(c, b, "bounced", <<TvmSlice>>), !.functions = <<Other>>]
       bounced == kind = "bounced"
       marked == CASE bounced -> IF b THEN "bounced" ELSE VarId(1)
                   [] kind \in {"empty", "zero"} -> IF r THEN "receive" ELSE VarId(1)
                   [] OTHER -> "fallback"
   IN  Program(<<"handler", kind, r, f, b, c>>, <<>>,
               deployed(ct) \o Balance \o pushValue(IntMsg(bounced)) \o plainBody(kind) \o pushInt(0)
                 \o transaction(5, generateMainInternal(ct)) \o reload(ct),
               [IsState(ct, OldTime) EXCEPT ![3] = Is(Sample(ct.vars[1].t, marked))]) :
     kind \in {"empty", "zero", "short", "unknown", "bounced"}, r \in BOOLEAN, f \in BOOLEAN, b \in BOOLEAN,
     c \in cts}

\* A tick-tock transaction and a code upgrade.
OtherEntries(cts) ==
  {Program(<<"onTickTock", ct>>, <<>>,
           deployed(ct) \o Balance \o pushValue(Bool(TRUE)) \o pushInt(-2)
             \o transaction(4, generateOnTickTock(ct, Marks(ct, "tick", <<bool>>))) \o reload(ct),
           [IsState(ct, OldTime) EXCEPT ![3] = Is(Sample(ct.vars[1].t, "tick"))]) : ct \in cts}
  \cup
  {Program(<<"onCodeUpgrade", ct>>, <<>>,
           setState(ct) \o Balance \o pushValue(Sample(uint(8), "a1"))
             \o transaction(1, setState(ct) \o generateOnCodeUpgrade(ct, Marks(ct, "upgraded", <<uint(8)>>)))
             \o drop(2) \o reload(ct),
           [IsState(ct, OldTime) EXCEPT ![3] = Is(Sample(ct.vars[1].t, "upgraded"))]) : ct \in cts}

HandlersOf(cts) == HandlerPrograms({ct \in cts : Len(ct.vars) = 1}) \cup GetterPrograms(cts) \cup OtherEntries(cts)

-----------------------------------------------------------------------------
(* The selector.                                                           *)

selected(n) == [i \in 1 .. n |-> [id |-> 2 * (n + 1 - i), code |-> pushInt(n + 1 - i) \o setGlob(50)]]
SelectorPrograms(ns) ==
  UNION {{Program(<<"selector", n, id>>, <<>>,
                  pushNull \o setGlob(50) \o pushValue(Slice(<<>>)) \o pushInt(id)
                    \o callEntry(generatePublicFunctionSelector(selected(n))) \o drop(2) \o getGlob(50, Null),
                  <<Is(IF id % 2 = 0 /\ id \in 2 .. 2 * n THEN Const(id \div 2) ELSE Null)>>) :
            id \in 1 .. 2 * n + 1} : n \in ns}

(* Modifiers: the function keeps its arguments in globals from 60 on, a    *)
(* modifier its own from 70 or 80 on.                                      *)

keepAll(n, from) == Each(n, LAMBDA i : setGlob(from + n + 1 - i))
kept(n, from) == Each(n, LAMBDA i : getGlob(from + i, Null))
Modified(ts, rets, mods) ==
  [ts |-> ts, rets |-> rets, mutability |-> "NonPayable", responsible |-> FALSE, only |-> "", modifiers |-> mods,
   body |-> keepAll(Len(ts), 60) \o Each(Len(rets), LAMBDA i : pushValue(Sample(rets[i], "r" \o ToString(i))))]
Modifier(args, locals, out) ==
  [args |-> [i \in 1 .. args |-> Some(uint(8), "m" \o ToString(out + i))],
   locals |-> [i \in 1 .. locals |-> Some(bool, "m" \o ToString(out + args + i))], out |-> out]
modifierValues(mod) ==
  [i \in 1 .. Len(mod.args \o mod.locals) |->
     Is(Sample(IF i <= Len(mod.args) THEN uint(8) ELSE bool, "m" \o ToString(mod.out + i)))]
ModifierLists ==
  {<<>>} \cup {<<Modifier(a, l, 70)>> : a \in 0 .. 2, l \in 0 .. 1}
         \cup {<<Modifier(a, 1, 70), Modifier(1, l, 80)>> : a \in 0 .. 1, l \in 0 .. 1}
ModifierPrograms(mods) ==
  {LET f == Modified(ts, rets, ms)
       arity(m) == Len(m.args) + Len(m.locals)
   IN  Program(<<"modifiers", f.ts, f.rets, f.modifiers>>, [i \in DOMAIN ts |-> Sample(ts[i], ArgId(i))],
               functionOf(Len(ts), visitFunctionWithModifiers(f), Len(ts), Len(rets), FALSE)
                 \o kept(Len(ts), 60) \o Each(Len(ms), LAMBDA i : kept(arity(ms[i]), ms[i].out)),
               [i \in DOMAIN rets |-> Is(Sample(rets[i], "r" \o ToString(i)))] \o IsArgs(ts)
                 \o FlattenSeq([i \in DOMAIN ms |-> modifierValues(ms[i])])) :
     ts \in {<<>>, <<uint(8)>>, <<uint(8), bytes>>}, rets \in {<<>>, <<bool>>, <<bool, uint(8), bytes>>}, ms \in mods}

-----------------------------------------------------------------------------
(* Constructors.  Contract c of a hierarchy takes its arguments from       *)
(* contract by[c], and passes on a parameter where that has one.  The      *)
(* constructors keep their parameters in globals.                          *)

ParamId(c, j) == 100 * c + 10 + j
keepParams(h, c, decls) ==
  Each(h[c].params, LAMBDA j : accessParam(decls, <<c, j>>) \o setGlob(ParamId(c, j))) \o drop(h[c].params)
Hierarchy(params, by) ==
  LET arg(c, j) == IF params[by[c]] = 0 THEN [const |-> TRUE, n |-> 10 * c + j, param |-> <<>>]
                   ELSE [const |-> FALSE, n |-> 0, param |-> <<by[c], 1 + (j % params[by[c]])>>]
      bases(g) == SetToSortSeq({c \in DOMAIN params : c > 1 /\ params[c] > 0 /\ by[c] = g}, <)
  IN  [g \in DOMAIN params |->
         [ctor |-> g = 1 \/ params[g] > 0, params |-> params[g],
          gives |-> [k \in DOMAIN bases(g) |->
                       [base |-> bases(g)[k], args |-> [j \in 1 .. params[bases(g)[k]] |-> arg(bases(g)[k], j)]]]]]
Hierarchies ==
  UNION {{Hierarchy(params, by) : params \in [1 .. n -> 0 .. most], by \in {b \in [1 .. n -> 1 .. n] :
                                                             b[1] = 1 /\ \A c \in 2 .. n : b[c] < c}} :
         <<n, most>> \in {<<1, 2>>, <<3, 2>>, <<4, 1>>}}
\* What the parameter of a contract is, by the arguments on the way to it.
RECURSIVE paramValue(_, _, _)
paramValue(h, c, j) ==
  IF c = 1 THEN Sample(uint(8), ArgId(j))
  ELSE LET g == CHOOSE d \in DOMAIN h : \E k \in DOMAIN h[d].gives : h[d].gives[k].base = c
           k == CHOOSE i \in DOMAIN h[g].gives : h[g].gives[i].base = c
           a == h[g].gives[k].args[j]
       IN  IF a.const THEN Const(a.n) ELSE paramValue(h, a.param[1], a.param[2])
ConstructorPrograms(hs) ==
  {LET n == h[1].params
       all == FlattenSeq([c \in DOMAIN h |-> Declared(c, h[c].params)])
   IN  Program(<<"constructors", h>>, [j \in 1 .. n |-> Sample(uint(8), ArgId(j))],
               functionOf(n, inlineConstructors(h, [c \in Nat, decls \in Decls |-> keepParams(h, c, decls)]), n, 0, FALSE)
                 \o Each(Len(all), LAMBDA i : getGlob(ParamId(all[i][1], all[i][2]), Null)),
               [i \in DOMAIN all |-> Is(paramValue(h, all[i][1], all[i][2]))]) : h \in hs}

\* The first message finds the data of the deployer; the second one, what the constructor
\* left, which keeps its last parameter in the first variable.
StaticValue(t) == Sample(t, "static")
deployer(ct) ==
  LET st == SelectSeq(ct.vars, LAMBDA v : v.static)
  IN  generateDataSection(pushValue(Pubkey),
                          [j \in DOMAIN st |-> [t |-> st[j].t, e |-> Value(st[j].t, StaticValue(st[j].t)),
                                                i |-> PersistenceMembersStartIndex + j - 1]]) \o popRoot
Initial(v) == IF v.static THEN Is(StaticValue(v.t))
              ELSE IF v.init # <<>> THEN Is(Sample(v.t, "i")) ELSE Of(v.t)
NewContracts ==
  {Contract(<<PlainVar(uint(8))>>), Contract(<<PlainVar(uint(8)), StaticVar(bool), PlainVar(bool), StaticVar(bytes)>>),
   Contract(<<[PlainVar(uint(8)) EXCEPT !.init = <<Value(uint(8), Sample(uint(8), "i"))>>], StaticVar(address)>>),
   Contract([i \in 1 .. 16 |-> IF i = 3 THEN StaticVar(uint(64)) ELSE PlainVar(uint(8))])}
One(ctor, n) == <<[ctor |-> ctor, params |-> n, gives |-> <<>>]>>
DeployPrograms(cts) ==
  {LET params == [i \in 1 .. n |-> uint(8)]
       c == [ct EXCEPT !.functions =
               <<[id |-> 7, code |-> generateConstructors(ct, One(ctor, n), params, 
                                       [k \in Nat, decls \in Decls |->
                                         When(n > 0, accessParam(decls, <<1, n>>) \o setVariable(1)) \o drop(n)])]>>]
       main == IF kind = "external" THEN external(c, 7, FALSE, params, TRUE) ELSE internal(c, 7, FALSE, params)
   IN  Program(<<"deploy", kind, ctor, n, ct>>, <<>>,
               deployer(ct) \o main \o reload(ct),
               <<Is(Pubkey), Is(IF kind = "external" THEN NewTime ELSE Const(0))>>
                 \o [i \in DOMAIN ct.vars |-> IF n > 0 /\ i = 1 THEN Is(Sample(uint(8), ArgId(n)))
                                              ELSE Initial(ct.vars[i])]) :
     <<kind, ctor, n>> \in {<<"external", FALSE, 0>>, <<"internal", TRUE, 0>>, <<"external", TRUE, 2>>}, ct \in cts}

-----------------------------------------------------------------------------
(* Statements.                                                             *)

DeclaredTypes == {<<uint(8), bytes>>, <<uint(16), optional(uint(8)), bool>>, <<optional(bytes), struct(<<uint(8), bool>>)>>}
GivenTypes(ts) == [i \in DOMAIN ts |-> IF ts[i] = uint(16) THEN uint(8)
                                       ELSE IF ts[i].c = "Optional" THEN ts[i].sub[1] ELSE ts[i]]
Names(ts) == {[i \in DOMAIN ts |-> IF i \in no THEN Unnamed ELSE ts[i]] : no \in SUBSET DOMAIN ts}
IsNamed(vs, want(_)) == FlattenSeq([i \in DOMAIN vs |-> IF vs[i] = Unnamed THEN <<>> ELSE <<want(i)>>])
\* A function that returns a tuple leaves its components on the stack.
declarePrograms(tss) ==
  UNION {LET given == GivenTypes(ts)
             each == [i \in DOMAIN ts |-> Some(given[i], ArgId(i))]
             value(i) == IF ts[i] = given[i] THEN Is(Sample(ts[i], ArgId(i))) ELSE Of(ts[i])
             call == [Leaf("value", tupleOf(given), 0) EXCEPT !.v = [i \in DOMAIN ts |-> Sample(given[i], ArgId(i))]]
         IN  UNION {{Program(<<"declare", vs>>, <<>>, visitVariableDeclarationStatement(vs, <<TupleE(each)>>),
                             IsNamed(vs, value)),
                     Program(<<"declareFrom", vs>>, <<>>, visitVariableDeclarationStatement(vs, <<call>>),
                             IsNamed(vs, value))} : vs \in Names(ts)}
             \cup {Program(<<"declareOne", ts>>, <<>>, visitVariableDeclarationStatement(<<ts[1]>>, <<each[1]>>), <<value(1)>>),
                   Program(<<"declareNone", ts>>, <<>>, visitVariableDeclarationStatement(ts, <<>>),
                           [i \in DOMAIN ts |-> Of(ts[i])])} : ts \in tss}

\* Left out: an array of a type that fetch wraps in a tuple, which the loop does not unwrap.
WrappedRanges == {array(optional(uint(8))), array(mapping(uint(8), bool))}
Ranges == {bytes, string, array(uint(8)), array(struct(<<uint(8), bytes>>)), array(array(uint(8))),
           mapping(uint(8), bool), mapping(address, struct(<<uint(8), bytes>>)), mapping(bytes, array(uint(8))),
           mapping(struct(<<uint(8), bool>>), uint(8)), mapping(int(64), optional(uint(8)))}
element(t) == IF t.c = "Mapping" THEN t.sub[2] ELSE IF isByteArrayOrString(t) THEN bytesN(1) ELSE t.sub[1]
\* The body keeps the value, and the key of a mapping, which it then overwrites.
loopBody(t) == pushS(0) \o setGlob(60) \o (IF t.c = "Mapping" THEN pushS(1) \o setGlob(61) \o pushNull \o popS(2) ELSE <<>>)
ForeachPrograms(ts) ==
  {Program(<<"foreach", t>>, <<>>,
           pushDefaultValue(element(t)) \o setGlob(60)
             \o When(t.c = "Mapping", pushDefaultValue(realKeyType(t.sub[1])) \o setGlob(61))
             \o visitForEachStatement(It(t), loopBody(t)) \o getGlob(60, Null) \o When(t.c = "Mapping", getGlob(61, Null)),
           <<Of(element(t))>> \o IF t.c = "Mapping" THEN <<Of(realKeyType(t.sub[1]))>> ELSE <<>>) : t \in ts}
EmitPrograms(options) ==
  UNION {{Program(<<"emit", ts, o>>, <<>>,
                  visitEmitStatement(ts, ArgsOf(ts), o) \o sent \o Received(ts, minBits(FALSE), FALSE), IsArgs(ts)) :
            o \in options} : ts \in ParameterLists}

\* The members of msg in a function that is called by an external or an internal message.
MsgMembers == [value |-> uint(120), data |-> TvmSlice, isInternal |-> bool, isExternal |-> bool,
               isTickTock |-> bool, createdAt |-> uint(32), hasStateInit |-> bool, currencies |-> currencies]
MagicPrograms(names) ==
  {Program(<<"msg", name, id>>, <<>>,
           Balance \o pushValue(Cell(<<AnyField("msg")>>)) \o pushValue(Slice(<<AnyField("body")>>)) \o pushInt(id)
             \o visitMagic("msg", name) \o dropUnder(5, 1),
           <<CASE name = "value" -> Is(Num("value", FALSE, 120))
               [] name \in {"isInternal", "isExternal"} -> Is(Bool(id = (IF name = "isInternal" THEN 0 ELSE -1)))
               [] name = "isTickTock" -> Is(Bool(FALSE))
               [] OTHER -> Of(MsgMembers[name])>>) : name \in names, id \in {-1, 0}}
  \cup {Program(<<"magic", m>>, <<>>, visitMagic(m[1], m[2]), <<Of(uint(m[3]))>>) :
          m \in {<<"tx", "timestamp", 64>>, <<"tx", "storageFee", 120>>, <<"block", "timestamp", 64>>}}
  \cup {Program(<<"address", m>>, <<>>, checkForAddressMemberAccess(m, It(address)), <<Of(t)>>) :
          <<m, t>> \in {<<"balance", uint(128)>>, <<"currencies", currencies>>, <<"wid", int(8)>>, <<"value", uint(256)>>}}
StatementPrograms(ranges) ==
  declarePrograms(DeclaredTypes) \cup ForeachPrograms(ranges) \cup MagicPrograms(DOMAIN MsgMembers)
    \cup EmitPrograms({NoOptions, "dest" :> StdAddress(address)})
=============================================================================
