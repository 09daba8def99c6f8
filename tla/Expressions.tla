---------------------------- MODULE Expressions -----------------------------
(***************************************************************************)
(* Expressions as the type checker leaves them: the constructors below     *)
(* give every node the type that TypeChecker.cpp annotates it with.  And   *)
(* the methods of the built-in types and of the magic objects: what        *)
(* nativeMembers of Types.cpp declares, with the parameter and return      *)
(* types that TypeChecker::visit(FunctionCall) computes for the methods    *)
(* that take any number or any type of arguments.                          *)
(***************************************************************************)
EXTENDS TypeRules

\* e: the class of the node; n: a number, position or member index; v: a known value.
Node0 == [e |-> "", t |-> NoType, op |-> "", n |-> 0, v |-> <<>>, sub |-> <<>>]
Leaf(e, t, n) == [Node0 EXCEPT !.e = e, !.t = t, !.n = n]
Inner(e, t, op, sub) == [Node0 EXCEPT !.e = e, !.t = t, !.op = op, !.sub = sub]

Number(n) == Leaf("number", rational(n, 0), n)
Fraction(n, d) == Leaf("number", rational(n, d), n)
BoolLit(b) == Leaf("bool", bool, IF b THEN 1 ELSE 0)
NullLit == Leaf("null", null, 0)
EmptyMapLit == Leaf("emptyMap", emptyMap, 0)
StringLit(n) == Leaf("string", stringLiteral(n, TRUE), 0)
\* Identifiers: a local variable at stack position pos, a state variable, a constant.
Local(pos, t) == Leaf("local", t, pos)
State(i, t, v) == [Leaf("state", t, i) EXCEPT !.v = <<v>>]
Constant(t, value) == Inner("constant", t, "", <<value>>)
\* Any other rvalue: code that leaves v.
Value(t, v) == [Leaf("value", t, 0) EXCEPT !.v = <<v>>]

Binary(op, l, r) == LET common == binaryOperatorResult(op, l.t, r.t)
                    IN  Inner("binary", IF op \in CompareOps THEN bool ELSE common, op, <<l, r>>)
commonTypeOf(e) == binaryOperatorResult(e.op, e.sub[1].t, e.sub[2].t)
Unary(op, x) == Inner("unary", unaryOperatorResult(op, x.t), op, <<x>>)
Postfix(op, x) == Inner("postfix", unaryOperatorResult(op, x.t), op, <<x>>)
Delete(x) == Inner("delete", tupleOf(<<>>), "", <<x>>)
Assign(l, r) == Inner("assign", IF l.e = "tuple" THEN tupleOf(<<>>) ELSE l.t, "=", <<l, r>>)
AssignOp(op, l, r) == Inner("assign", l.t, op, <<l, r>>)
Conditional(c, x, y) ==
  Inner("cond", commonType(mobileType(x.t), mobileType(y.t)), "", <<c, x, y>>)
\* (x, y, ...); a component left out on the left of an assignment is Skip
Skip == Leaf("skip", NoType, 0)
TupleE(xs) == Inner("tuple", IF Len(xs) = 1 THEN xs[1].t ELSE tupleOf([i \in DOMAIN xs |-> xs[i].t]),
                    "", xs)
RECURSIVE inlineArrayType(_)
inlineArrayType(xs) == IF Len(xs) = 1 THEN mobileType(xs[1].t)
                       ELSE commonType(inlineArrayType(Front(xs)), Last(xs).t)
InlineArray(xs) == Inner("array", array(inlineArrayType(xs)), "", xs)

indexedType(t) == CASE isUsualArray(t) \/ t.c = "TvmVector" -> t.sub[1]
                    [] t.c \in {"Mapping", "ExtraCurrencyCollection"} -> t.sub[2]
                    [] t = bytes \/ t.c = "FixedBytes" -> bytesN(1)
Index(x, i) == Inner("index", indexedType(x.t), "", <<x, i>>)
IndexRange(x, sub) == Inner("range", x.t, "", <<x>> \o sub)
Member(x, n) == [Inner("member", x.t.sub[n + 1], "", <<x>>) EXCEPT !.n = n]
Length(x) == Inner("length", IF x.t.c = "FixedBytes" THEN uint(8) ELSE uint(256), "", <<x>>)
OptionalGet(x) == Inner("optget", x.t.sub[1], "", <<x>>)

\* What the type checker demands of an assignment: a = b, a op= b.
Assignable(l, r) == isImplicitlyConvertibleTo(r, l)
CompoundAssignable(op, l, r) == LET t == binaryOperatorResult(op, l, r) IN t # NoType /\ Equal(t, l)

-----------------------------------------------------------------------------
\* The types the arguments are converted to, and the type of the call.
Sig(ps, ret) == [ps |-> ps, ret |-> ret]
void == tupleOf(<<>>)
magic(name) == T(name, 0, FALSE, <<>>)      \* tvm, msg, rnd, gosh, math, abi
u3 == tupleOf(<<uint(256), uint(256), uint(256)>>)
bitsAndRefs == tupleOf(<<uint(16), uint(8)>>)

addressMembers(name) ==
  CASE name \in {"isStdZero", "isExternZero", "isNone", "isStdAddrWithoutAnyCast"} -> Sig(<<>>, bool)
    [] name = "unpack" -> Sig(<<>>, tupleOf(<<int(8), uint(256)>>))
    [] name = "getType" -> Sig(<<>>, uint(8))

arrayMembers(t, name, ts) ==
  CASE name = "empty" -> Sig(<<>>, bool)
    [] name = "toSlice" -> Sig(<<>>, TvmSlice)
    [] name = "dataSize" -> Sig(<<uint(256)>>, u3)
    [] name = "dataSizeQ" -> Sig(<<uint(256)>>, optional(u3))
    [] name = "append" -> Sig(<<bytes>>, void)
    [] name = "push" -> Sig(IF ts = <<>> THEN <<>> ELSE t.sub, void)
    [] name = "pop" -> Sig(<<>>, void)
    [] name = "substr" -> Sig([i \in DOMAIN ts |-> uint(256)], string)
    [] name = "byteLength" -> Sig(<<>>, uint(32))
    [] name = "find" -> Sig(<<IF ts[1].c = "FixedBytes" THEN bytesN(1) ELSE string>>,
                            optional(uint(32)))
    [] name = "findLast" -> Sig(<<bytesN(1)>>, optional(uint(32)))

realKeyType(key) == IF isByteArrayOrString(key) THEN uint(256) ELSE key
mappingMembers(t, name) ==
  LET key == t.sub[1]
      value == t.sub[2]
      pair == optional(tupleOf(<<realKeyType(key), value>>))
  IN  CASE name = "at" -> Sig(<<key>>, value)
        [] name = "fetch" -> Sig(<<key>>, optional(value))
        [] name = "exists" -> Sig(<<key>>, bool)
        [] name = "empty" -> Sig(<<>>, bool)
        [] name \in {"replace", "add"} -> Sig(<<key, value>>, bool)
        [] name \in {"getSet", "getAdd", "getReplace"} -> Sig(<<key, value>>, optional(value))
        [] name \in {"min", "max", "delMin", "delMax"} -> Sig(<<>>, pair)
        [] name \in {"next", "prev", "nextOrEq", "prevOrEq"} ->
             Sig(<<IF realKeyType(key).c = "Integer" THEN int(257) ELSE key>>, pair)
        [] name = "keys" -> Sig(<<>>, array(realKeyType(key)))
        [] name = "values" -> Sig(<<>>, array(value))

optionalMembers(t, name, ts) ==
  CASE name = "hasValue" -> Sig(<<>>, bool)
    [] name = "set" -> Sig(ts, void)
    [] name = "reset" -> Sig(<<>>, void)

\* ts: the types named as arguments of decode and decodeQ
sliceDecodeMembers(name, ts) ==
  CASE name = "dataSize" -> Sig(<<uint(256)>>, u3)
    [] name = "dataSizeQ" -> Sig(<<uint(256)>>, optional(u3))
    [] name \in {"decode", "decodeFunctionParams", "decodeResponsibleParams"} ->
         Sig(ts, IF Len(ts) = 1 THEN ts[1] ELSE tupleOf(ts))
    [] name = "decodeQ" -> Sig(ts, optional(IF Len(ts) = 1 THEN ts[1] ELSE tupleOf(ts)))
    [] name = "decodeStateVars" -> Sig(ts, tupleOf(<<uint(256), uint(64), bool>> \o ts))
    [] name = "loadUnsigned" -> Sig(<<uint(16)>>, uint(8))
    [] name = "loadSigned" -> Sig(<<uint(16)>>, int(8))
    [] name = "hasNBits" -> Sig(<<uint(16)>>, bool)
    [] name = "hasNRefs" -> Sig(<<uint(8)>>, bool)
    [] name = "hasNBitsAndRefs" -> Sig(<<uint(16), uint(8)>>, bool)
sliceMembers(name, ts) ==
  CASE name = "loadTons" -> Sig(<<>>, uint(128))
    [] name = "loadSlice" -> Sig([i \in DOMAIN ts |-> uint(256)], TvmSlice)
    [] name = "skip" -> Sig([i \in DOMAIN ts |-> uint(256)], void)
    [] name = "size" -> Sig(<<>>, bitsAndRefs)
    [] name = "empty" -> Sig(<<>>, bool)
    [] name \in {"bits", "depth"} -> Sig(<<>>, uint(16))
    [] name = "refs" -> Sig(<<>>, uint(8))
    [] name = "loadRef" -> Sig(<<>>, TvmCell)
    [] name = "loadRefAsSlice" -> Sig(<<>>, TvmSlice)
    [] name = "compare" -> Sig(<<TvmSlice>>, int(8))
    [] OTHER -> sliceDecodeMembers(name, ts)

cellMembers(name) ==
  CASE name = "depth" -> Sig(<<>>, uint(16))
    [] name = "toSlice" -> Sig(<<>>, TvmSlice)
    [] name = "dataSize" -> Sig(<<uint(256)>>, u3)
    [] name = "dataSizeQ" -> Sig(<<uint(256)>>, optional(u3))

vectorMembers(t, name) ==
  CASE name = "push" -> Sig(t.sub, void)
    [] name = "length" -> Sig(<<>>, uint(8))
    [] name = "pop" -> Sig(<<>>, t.sub[1])
    [] name = "empty" -> Sig(<<>>, bool)

builderMembers(name, ts) ==
  CASE name \in {"depth", "bits", "remBits"} -> Sig(<<>>, uint(16))
    [] name \in {"refs", "remRefs"} -> Sig(<<>>, uint(8))
    [] name \in {"size", "remBitsAndRefs"} -> Sig(<<>>, bitsAndRefs)
    [] name = "toCell" -> Sig(<<>>, TvmCell)
    [] name = "toSlice" -> Sig(<<>>, TvmSlice)
    [] name \in {"store", "storeRef"} -> Sig(ts, void)
    [] name \in {"storeOnes", "storeZeros"} -> Sig(<<uint(256)>>, void)
    [] name = "storeSigned" -> Sig(<<int(256), uint(16)>>, void)
    [] name = "storeUnsigned" -> Sig(<<uint(256), uint(16)>>, void)
    [] name = "storeTons" -> Sig(<<uint(128)>>, void)

-----------------------------------------------------------------------------
(* Magic objects.                                                          *)

tvmMembers(name, ts) ==
  CASE name \in {"code", "getData"} -> Sig(<<>>, TvmCell)
    [] name = "codeSalt" -> Sig(<<TvmCell>>, optional(TvmCell))
    [] name = "setCodeSalt" -> Sig(<<TvmCell, TvmCell>>, TvmCell)
    [] name \in {"pubkey", "initCodeHash"} -> Sig(<<>>, uint(256))
    [] name \in {"setPubkey", "setGasLimit"} -> Sig(<<uint(256)>>, void)
    [] name \in {"accept", "commit", "rawCommit", "exit", "exit1"} -> Sig(<<>>, void)
    [] name \in {"setData", "setcode", "setCurrentCode"} -> Sig(<<TvmCell>>, void)
    [] name = "log" -> Sig(<<string>>, void)
    [] name \in {"replayProtTime", "replayProtInterval"} -> Sig(<<>>, uint(64))
    [] name = "setReplayProtTime" -> Sig(<<uint(64)>>, void)
    [] name = "rawReserve" -> Sig(IF Len(ts) = 2 THEN <<uint(256), uint(256)>>
                                  ELSE <<uint(256), currencies, uint(256)>>, void)
    [] name \in {"bindump", "hexdump"} -> Sig(<<mobileType(ts[1])>>, void)
    [] name = "hash" -> Sig(<<IF ts[1].c = "StringLiteral" THEN string ELSE ts[1]>>, uint(256))
    [] name = "checkSign" -> Sig(CASE Len(ts) = 4 -> [i \in 1 .. 4 |-> uint(256)]
                                   [] ts[1] = TvmSlice -> <<TvmSlice, TvmSlice, uint(256)>>
                                   [] OTHER -> <<uint(256), TvmSlice, uint(256)>>, bool)
    [] name = "sendrawmsg" -> Sig(<<TvmCell, uint(8)>>, void)
    [] name = "rawConfigParam" -> Sig(<<int(32)>>, tupleOf(<<TvmCell, bool>>))
    [] name = "configParam1" -> Sig(<<>>, tupleOf(<<uint(256), bool>>))
    [] name \in {"configParam15", "configParam17"} ->
         Sig(<<>>, tupleOf([i \in 1 .. 4 |-> uint(32)] \o <<bool>>))
    [] name = "configParam34" ->
         Sig(<<>>, tupleOf(<<uint(8), uint(32), uint(32), uint(16), uint(16), uint(64),
                             mapping(uint(16), TvmCell), bool>>))

RECURSIVE getCommonType(_)
getCommonType(ts) == IF Len(ts) = 1 THEN mobileType(ts[1])
                     ELSE commonType(getCommonType(Front(ts)), Last(ts))
mathMembers(name, ts) ==
  LET common == getCommonType(ts)
      all == [i \in DOMAIN ts |-> common]
  IN  CASE name \in {"min", "max", "divr", "divc", "muldiv", "muldivr", "muldivc"} -> Sig(all, common)
        [] name \in {"minmax", "divmod", "muldivmod"} -> Sig(all, tupleOf(<<common, common>>))
        [] name = "abs" -> Sig(<<mobileType(ts[1])>>, mobileType(ts[1]))
        [] name = "modpow2" -> Sig(<<>>, mobileType(ts[1]))
        [] name = "sign" -> Sig(<<int(256)>>, int(8))
rndMembers(name, ts) ==
  CASE name = "next" -> IF ts = <<>> THEN Sig(<<>>, uint(256))
                        ELSE Sig(<<mobileType(ts[1])>>, mobileType(ts[1]))
    [] name = "setSeed" -> Sig(<<uint(256)>>, void)
    [] name = "getSeed" -> Sig(<<>>, uint(256))
    [] name = "shuffle" -> Sig([i \in DOMAIN ts |-> uint(256)], void)
goshMembers(name) ==
  CASE name \in {"diff", "applyPatch"} -> Sig(<<string, string>>, string)
    [] name = "applyPatchQ" -> Sig(<<string, string>>, optional(string))
    [] name \in {"zipDiff", "applyZipPatch"} -> Sig(<<bytes, bytes>>, bytes)
    [] name = "applyZipPatchQ" -> Sig(<<bytes, bytes>>, optional(bytes))
    [] name = "zip" -> Sig(<<string>>, bytes)
    [] name = "unzip" -> Sig(<<bytes>>, string)
\* abi.decode: ts are the types named in its second argument
abiMembers(name, ts) ==
  CASE name = "encode" -> Sig([i \in DOMAIN ts |-> mobileType(ts[i])], TvmCell)
    [] name = "decode" -> Sig(<<TvmCell>>, IF Len(ts) = 1 THEN ts[1] ELSE tupleOf(ts))
globalMembers(name, ts) ==
  CASE name \in {"gasToValue", "valueToGas"} -> Sig(<<uint(128), int(8)>>, uint(128))
    [] name \in {"bitSize", "uBitSize"} ->
         Sig(<<IF name = "bitSize" THEN int(256) ELSE uint(256)>>, uint(16))
    [] name = "sha256" -> Sig(ts, uint(256))
    [] name = "require" -> Sig(SubSeq(<<bool, uint(256)>>, 1, Least(Len(ts), 2))
                               \o (IF Len(ts) = 3 THEN <<mobileType(ts[3])>> ELSE <<>>), void)
    [] name = "revert" -> Sig(SubSeq(<<uint(256)>>, 1, Least(Len(ts), 1))
                              \o (IF Len(ts) = 2 THEN <<mobileType(ts[2])>> ELSE <<>>), void)
    [] name = "logtvm" -> Sig(<<string>>, void)
    [] name = "stoi" -> Sig(<<string>>, optional(int(256)))
    [] name \in {"format", "formatx", "formatt"} -> Sig(ts, string)

memberType(t, name, ts) ==
  CASE t.c = "Address" -> addressMembers(name)
    [] t.c = "Array" -> arrayMembers(t, name, ts)
    [] t.c \in {"Mapping", "ExtraCurrencyCollection"} -> mappingMembers(t, name)
    [] t.c = "Optional" -> optionalMembers(t, name, ts)
    [] t.c = "TvmSlice" -> sliceMembers(name, ts)
    [] t.c = "TvmCell" -> cellMembers(name)
    [] t.c = "TvmVector" -> vectorMembers(t, name)
    [] t.c = "TvmBuilder" -> builderMembers(name, ts)
    [] t.c = "tvm" -> tvmMembers(name, ts)
    [] t.c = "msg" -> Sig(<<>>, uint(256))
    [] t.c = "rnd" -> rndMembers(name, ts)
    [] t.c = "math" -> mathMembers(name, ts)
    [] t.c = "gosh" -> goshMembers(name)
    [] t.c = "abi" -> abiMembers(name, ts)
    [] t.c = "" -> globalMembers(name, ts)

\* obj.name(args); decode, decodeQ and abi.decode name types instead of values.
Magic(name) == Leaf("magic", magic(name), 0)
Method(obj, name, args) ==
  LET sig == memberType(obj.t, name, [i \in DOMAIN args |-> args[i].t])
  IN  [Inner("call", sig.ret, name, <<obj>> \o args) EXCEPT !.v = sig.ps]
TypeArg(t) == Leaf("type", t, 0)
=============================================================================
