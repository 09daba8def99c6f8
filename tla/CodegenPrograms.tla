-------------------------- MODULE CodegenPrograms ---------------------------
(***************************************************************************)
(* Sources for the code generator: for every construct of the language the *)
(* calls its routines make, on operands of the types they distinguish, and *)
(* what the compiled code has to leave on the stack of the TVM.            *)
(*                                                                         *)
(* Programs that the compiled code is known to get wrong, or that the code *)
(* generator rejects, are not members of the families.  Each such filter   *)
(* says what happens there; README.md lists them all.                      *)
(***************************************************************************)
EXTENDS ExprCode

Program(name, args, code, want) == [name |-> name, args |-> args, code |-> code, want |-> want]
Some(t, id) == Value(t, Sample(t, id))
WantT(t) == IF t.c = "Tuple" THEN [i \in DOMAIN t.sub |-> Of(t.sub[i])] ELSE <<Of(t)>>
Pair == struct(<<uint(8), bool>>)

-----------------------------------------------------------------------------
(* Values: what is stored in a cell is loaded again; what is put in a      *)
(* dictionary is found again.                                              *)

Large == struct(<<uint(256), address, address, mapping(uint(32), bool), enum(3), bytes, TvmCell,
                  optional(uint(64)), varuint(16)>>)
Small == struct(<<uint(8), address, bytes>>)
CellTypes == {uint(8), int(64), bool, bytesN(4), enum(3), fixed(16, 2), varuint(16), varint(32), address,
  bytes, array(uint(8)), mapping(uint(8), bool), optional(uint(32)), optional(mapping(uint(8), bool)),
  optional(optional(bool)), optional(Large), Small, TvmCell, function,
  optional(tupleOf(<<uint(8), bool>>))}
RoundTrip(t) ==
  {Program(<<"storeload", t>>, <<v>>,
     pushDiff(1, "NEWC") \o store(t, FALSE) \o pushDiff(0, "ENDC") \o pushDiff(0, "CTOS") \o load(t, FALSE),
     <<Is(v), Is(Slice(<<>>))>>) : v \in Samples(t, "a")}

DictValues == {uint(8), Small, Large, address, bytes, array(bool), mapping(uint(8), bool),
               optional(uint(32)), varuint(16), function}
DictKeys == {uint(8), int(256), address, bytes, struct(<<uint(8), int(32)>>), bytesN(32)}
GetResult(op, t, v) ==
  CASE op = "Exist" -> Of(bool)
    [] op = "Fetch" -> IF optValueAsTuple(t) THEN Is(Tuple(<<v>>)) ELSE Is(v)
    [] OTHER -> Is(v)
SetGet(k, t) ==
  {Program(<<"setget", k, t, op>>, <<v, u>>,
     pushS(1) \o prepareValueForDictOperations(k, t) \o pushS(1) \o prepareKeyForDictOperations(k, FALSE)
       \o pushNull \o setDict("DICTSET", k, valueForm(k, t))
       \o pushS(1) \o prepareKeyForDictOperations(k, FALSE) \o exchange(1) \o getDict(op, k, t, ""),
     <<Is(v), Is(u), GetResult(op, t, v)>>) :
     v \in Samples(t, "v"), u \in Samples(k, "k"), op \in {"Fetch", "Exist", "GetFromArray", "GetFromMapping"}}
ValuePrograms(ts, ks, vs) == UNION {RoundTrip(t) : t \in ts} \cup UNION {SetGet(k, t) : k \in ks, t \in vs}

-----------------------------------------------------------------------------
(* Conversions.                                                            *)

SimpleTypes == {uint(8), int(8), uint(16), int(24), uint(256), fixed(16, 1), ufixed(16, 2), fixed(24, 2),
  varuint(16), varint(16), bool, bytesN(1), bytesN(2), bytesN(32), enum(3), address, contract(0), contract(1),
  bytes, string, array(uint(8)), array(address), mapping(uint(8), bool), optional(uint(8)),
  optional(uint(16)), optional(mapping(uint(8), bool)), optional(optional(uint(16))),
  optional(tupleOf(<<uint(8), bool>>)), optional(tupleOf(<<uint(16), bool>>)), TvmCell, TvmSlice, Pair,
  optional(Pair), optional(bytes)}
TupleTypes == {tupleOf(<<uint(8), bool>>), tupleOf(<<uint(16), bool>>), tupleOf(<<optional(uint(8)), bytesN(2)>>),
               tupleOf(<<uint(8), bytesN(1)>>)}
LiteralTypes == {rational(0, 0), rational(5, 0), rational(-5, 0), rational(300, 0), rational(15, 1),
                 rational(-15, 1), stringLiteral(2, TRUE), stringLiteral(2, FALSE), null, emptyMap}
OnStack(t, id) == IF t.c = "Tuple" THEN TupleSamples(t.sub, id, 1) ELSE {<<v>> : v \in Samples(t, id)}

\* Left out: null given to an optional of a tuple, a mapping or an optional.  hardConvert packs it
\* as it packs a value: the optional then has a value, and for a tuple of n components TUPLE n
\* takes n - 1 slots that belong to others.
PacksNull(l, r) == r = null /\ packOptional(l.sub[1]) # <<>>
Implicit(l, r) == isImplicitlyConvertibleTo(r, l) /\ ~PacksNull(l, r)
\* Left out: accepted by the type checker, ended by solUnimplemented in the code generator.
Unsupported(l, r) ==
  \/ l.c \in {"Address", "Contract"} /\ r.c = "VarInteger"
  \/ r.c = "FixedBytes" /\ l.c = "Integer" /\ l.sg
  \/ r.c = "FixedBytes" /\ l.c = "FixedPoint" /\ (~l.sg \/ l.n < 8 * r.n)
  \/ r.c = "RationalNumber" /\ l.c = "Enum" /\ r.n \notin 0 .. l.n - 1
\* Left out: int to bytesN, which is not checked for a negative value.
Explicit(l, r) == /\ isExplicitlyConvertibleTo(r, l) /\ ~isImplicitlyConvertibleTo(r, l)
                  /\ ~Unsupported(l, r) /\ ~(l.c = "FixedBytes" /\ r.sg)
ConversionPrograms(simple, tuples, literals) ==
  UNION {{Program(<<"implicit", p[1], p[2]>>, a, hardConvert(p[1], p[2]), WantT(p[1])) : a \in OnStack(p[2], "a")} :
         p \in {q \in (simple \cup tuples) \X (simple \cup tuples \cup literals) :
                Implicit(q[1], q[2])}}
  \cup
  UNION {{Program(<<"explicit", p[1], p[2]>>, <<>>, typeConversion(p[1], p[2], pushValue(a)), <<Of(p[1])>>) :
           a \in Samples(p[2], "a")} :
         p \in {q \in simple \X (simple \cup literals) : Explicit(q[1], q[2])}}

-----------------------------------------------------------------------------
(* Operators.                                                              *)

OperandTypes == {uint(8), int(8), uint(256), int(256), fixed(16, 1), fixed(24, 2), varuint(16), bool, bytesN(1),
  bytesN(32), enum(3), address, contract(0), contract(1), bytes, string, TvmCell, TvmSlice, optional(uint(8)),
  mapping(uint(8), bool)}
Operands == {Some(t, "a") : t \in OperandTypes}
              \cup {Number(0), Number(3), Number(-3), Fraction(15, 1), StringLit(2), BoolLit(TRUE)}
\* Left out: signed division; the quotient of the least value and -1 leaves the type unchecked.
Unchecked(op, a, b) == op = "/" /\ binaryOperatorResult(op, a, b).sg
\* Left out: bytesN << n, for which the check of the result is not implemented; a comparison of
\* bytes and a literal, two cells, with an instruction for integers.
NotCompiled(op, a, b) == (op = "<<" /\ a.c = "FixedBytes") \/ (a = bytes /\ b.c = "StringLiteral")
Applies(op, a, b) == /\ binaryOperatorResult(op, a, b) # NoType
                     /\ ~Unchecked(op, a, b) /\ ~NotCompiled(op, a, b)
Binaries(ops) == UNION {{Program(<<"binary", op, p[1], p[2]>>, <<>>, compileNewExpr(Binary(op, p[1], p[2])),
                            WantT(Binary(op, p[1], p[2]).t)) :
                     p \in {q \in Operands \X Operands : Applies(op, q[1].t, q[2].t)}} :
                   op \in ops}
Flag(i) == Value(bool, Num("b" \o ToString(i), TRUE, 1))
Circuits == {Binary(o[1], Binary(o[2], Binary(o[3], Flag(1), Flag(2)), Flag(3)), Flag(4)) :
               o \in BooleanOps \X BooleanOps \X BooleanOps}
            \cup {Binary(o[1], Flag(1), Binary(o[2], Flag(2), Unary("!", Flag(3)))) : o \in BooleanOps \X BooleanOps}
Unaries == UNION {{Unary(op, x) : x \in {y \in Operands : y.e = "value" /\ unaryOperatorResult(op, y.t) # NoType}} :
                  op \in {"!", "~"}}
Conditionals == {Conditional(Flag(1), x, y) :
  x \in {Some(uint(8), "x"), Some(bytes, "x"), TupleE(<<Some(uint(8), "x"), Some(address, "z")>>)},
  y \in {Some(uint(8), "y"), Number(5), Some(uint(16), "y"), Some(bytes, "y"),
         TupleE(<<Some(uint(8), "y"), Some(address, "w")>>)}}
Arrays == {Index(InlineArray(xs), Number(1)) :
  xs \in {<<Some(uint(8), "x"), Some(uint(8), "y")>>, <<Some(address, "x"), Some(address, "y"), Some(address, "z")>>,
          <<Some(Pair, "x"), Some(Pair, "y")>>, <<Number(3), Some(uint(16), "x")>>,
          <<StringLit(2), Some(string, "s")>>, <<Some(optional(uint(8)), "x"), Some(optional(uint(8)), "y")>>}}
I(id) == Some(uint(8), id)
Reads == {Index(Some(bytes, "x"), I("i")), Index(Some(bytesN(32), "x"), I("i")),
  Index(Some(array(address), "x"), Number(2)), Index(Some(mapping(bytes, address), "x"), StringLit(2)),
  Index(Some(mapping(address, TvmCell), "x"), Some(address, "k")), Index(Some(vector(uint(8)), "x"), Number(0)),
  Length(Some(bytes, "x")), Length(Some(array(uint(8)), "x")), Member(Some(Pair, "x"), 1),
  OptionalGet(Some(optional(uint(8)), "x")), OptionalGet(Some(optional(mapping(uint(8), bool)), "x")),
  Constant(uint(8), Number(7)), Constant(uint(8), I("x"))}
  \cup {IndexRange(Some(bytes, "x"), r) : r \in {Skip, I("i")} \X {Skip, I("j")}}
OperatorPrograms(ops) ==
  Binaries(ops) \cup {Program(<<x.e, x>>, <<>>, compileNewExpr(x), WantT(x.t)) :
                  x \in Circuits \cup Unaries \cup {c \in Conditionals : c.t # NoType} \cup Arrays \cup Reads}

-----------------------------------------------------------------------------
(* Assignments: nested lvalues rooted at a local or a state variable.      *)

Rec == struct(<<uint(8), address, bytes, optional(uint(32))>>)
LocalTypes == <<uint(8), Rec, mapping(uint(8), Rec), array(Rec), optional(Rec),
                mapping(address, mapping(bytes, array(uint(8)))), int(64), optional(array(int(64))),
                struct(<<Rec, mapping(uint(8), bool)>>), bytes>>
Var(i) == Local(i - 1, LocalTypes[i])
StateVar(i) == State(10 + i, LocalTypes[i], Sample(LocalTypes[i], "state"))
Vars == {Var(i) : i \in DOMAIN LocalTypes} \cup {StateVar(i) : i \in {1, 3, 5}}
KeyOf(t) == CASE t = uint(8) -> Var(1) [] t = address -> Member(Var(2), 1) [] t = bytes -> Var(10)
\* Left out: get() of an optional that wraps its value in a tuple, as an lvalue.  What is assigned
\* to below it is the wrapping tuple.
Parts(x) ==
  CASE x.t.c = "Struct" -> {Member(x, i - 1) : i \in DOMAIN x.t.sub}
    [] isUsualArray(x.t) -> {Index(x, Var(1)), Index(x, Number(3))}
    [] x.t.c = "Mapping" -> {Index(x, KeyOf(x.t.sub[1]))}
                              \cup IF x.t.sub[1] = bytes THEN {Index(x, StringLit(3))} ELSE {}
    [] x.t.c = "Optional" /\ ~optValueAsTuple(x.t.sub[1]) -> {OptionalGet(x)}
    [] OTHER -> {}
Deeper(X) == UNION {Parts(x) : x \in X}
LValues == Vars \cup Deeper(Vars) \cup Deeper(Deeper(Vars)) \cup Deeper(Deeper(Deeper({Var(6), Var(8), Var(9)})))

RECURSIVE root(_)
root(e) == IF e.sub = <<>> THEN e ELSE root(e.sub[1])
Args == [i \in DOMAIN LocalTypes |-> Sample(LocalTypes[i], "a" \o ToString(i))]
\* Only the variables assigned to change.
Changed(lvs) == [i \in DOMAIN Args |-> IF \E lv \in lvs : root(lv) = Var(i) THEN Of(LocalTypes[i]) ELSE Is(Args[i])]
New(t) == Some(t, "v")
Assignments(lvs) ==
  {Program(<<"assign", lv>>, Args, acceptExprStatement(Assign(lv, New(lv.t))) \o compileNewExpr(lv),
           Append(Changed({lv}), Is(Sample(lv.t, "v")))) : lv \in lvs}
  \cup
  {Program(<<"assigned", lv>>, Args, compileNewExpr(Assign(lv, New(lv.t))) \o compileNewExpr(lv),
           Changed({lv}) \o <<Is(Sample(lv.t, "v")), Is(Sample(lv.t, "v"))>>) : lv \in lvs}
\* Left out: signed /=, as signed division is.
RightOperands == {Number(3), Some(uint(8), "v"), Some(string, "v"), StringLit(2)}
Compounds(ops) ==
  UNION {{Program(<<"compound", op, p[1], p[2]>>, Args, acceptExprStatement(AssignOp(op, p[1], p[2])) \o compileNewExpr(p[1]),
                  Append(Changed({p[1]}), Of(p[1].t))) :
           p \in {q \in (Vars \cup Deeper(Vars)) \X RightOperands :
                  CompoundAssignable(op, q[1].t, q[2].t) /\ ~(op = "/" /\ q[1].t.sg)}} :
         op \in ops \ {"**"}}
  \cup
  {Program(<<"compounded", lv>>, Args, compileNewExpr(AssignOp("+", lv, Number(3))), Append(Changed({lv}), Of(lv.t))) :
    lv \in {x \in LValues : CompoundAssignable("+", x.t, Number(3).t)}}
Steps == UNION {{Unary(op, lv), Postfix(op, lv)} :
                op \in {"++", "--"}, lv \in {x \in LValues : unaryOperatorResult("++", x.t) # NoType}}
\* The value of the expression ++x is not checked to fit the type of x (int(257) here); what is
\* stored is.
Increments(steps) ==
  UNION {{Program(<<"step", x>>, Args, acceptExprStatement(x), Changed({x.sub[1]})),
          Program(<<"stepped", x>>, Args, compileNewExpr(x),
                  Append(Changed({x.sub[1]}), Of(IF x.e = "unary" THEN int(257) ELSE x.t)))} : x \in steps}
\* Left out: delete x.get(), which the code generator does not compile.
Deletes(lvs) ==
  {Program(<<"delete", lv>>, Args, acceptExprStatement(Delete(lv)) \o compileNewExpr(lv), Append(Changed({lv}), Of(lv.t))) :
    lv \in {x \in lvs : canBeDeleted(x.t) /\ x.e # "optget"}}
TupleAssigns(xs, ys) ==
  {Program(<<"tuple", x, y>>, Args,
           acceptExprStatement(Assign(TupleE(<<x, Skip, y>>), TupleE(<<New(x.t), Number(5), Some(y.t, "w")>>)))
             \o compileNewExpr(y),
           Append(Changed({x, y}), Is(Sample(y.t, "w")))) :
    x \in xs, y \in ys}
AssignmentPrograms(ops) ==
  Assignments(LValues) \cup Compounds(ops) \cup Increments(Steps) \cup Deletes(LValues)
    \cup TupleAssigns(Deeper({Var(2), Var(4), StateVar(3)}), Deeper({Var(i) : i \in {2, 3, 5, 6}}))

-----------------------------------------------------------------------------
(* Methods: on a value, and on variables they change.                      *)

On(obj, name, args) == [obj |-> obj, name |-> name, args |-> args]
Own(t) == Local(0, t)
Global(t) == State(10, t, Sample(t, "g"))
InStruct(t) == Member(Local(0, struct(<<uint(8), t>>)), 1)
InMapping(t) == Index(Local(0, mapping(uint(8), t)), Number(3))
InArray(t) == Index(Local(0, array(t)), Some(uint(32), "i"))
Whole(t) == {Own(t), Global(t)}
Held(t) == Whole(t) \cup {InStruct(t)}
Nested(t) == Held(t) \cup {InMapping(t), InArray(t)}
Writes(objs, names, argss) == {On(o, n, a) : o \in objs, n \in names, a \in argss}

U(n) == Some(uint(n), "u")
Maps == {mapping(uint(16), address), mapping(bytes, struct(<<uint(8), bytes>>)), mapping(Pair, optional(uint(8))),
         mapping(address, bytes), mapping(int(8), mapping(uint(8), bool)),
         mapping(uint(8), struct([i \in 1 .. 5 |-> uint(256)]))}
Key(t) == Some(t.sub[1], "k")
ArrayMethods == UNION {
  {On(Some(t, "x"), "empty", <<>>) : t \in {bytes, string, array(uint(8))}},
  {On(Some(string, "x"), "substr", a) : a \in {<<U(8)>>, <<U(8), Number(5)>>}},
  {On(Some(string, "x"), "find", <<a>>) : a \in {Some(bytesN(1), "b"), Some(string, "s"), StringLit(2)}},
  {On(Some(string, "x"), "findLast", <<Some(bytesN(1), "b")>>), On(Some(string, "x"), "byteLength", <<>>)},
  {On(Some(bytes, "x"), n, <<U(8)>>) : n \in {"dataSize", "dataSizeQ"}}, {On(Some(bytes, "x"), "toSlice", <<>>)},
  UNION {Writes(Nested(array(t)), {"push"}, {<<>>, <<Some(t, "n")>>}) \cup Writes(Nested(array(t)), {"pop"}, {<<>>}) :
         t \in {uint(8), bytes, Pair, optional(uint(8)), mapping(uint(8), bool)}},
  Writes(Nested(bytes), {"append"}, {<<Some(bytes, "y")>>})}
\* Left out: keys() and values() of a mapping whose key is a struct, which they do not unpack.
MappingMethods == UNION {
  {On(Some(t, "m"), n, <<Key(t)>>) : t \in Maps, n \in {"at", "fetch", "exists"}},
  {On(Some(t, "m"), n, <<>>) : t \in Maps, n \in {"min", "max", "empty"}},
  {On(Some(t, "m"), n, <<Some(mappingMembers(t, n).ps[1], "k")>>) : t \in Maps, n \in {"next", "prev", "nextOrEq", "prevOrEq"}},
  {On(Some(t, "m"), n, <<>>) : t \in {u \in Maps : u.sub[1].c # "Struct"}, n \in {"keys", "values"}},
  UNION {Writes(Nested(t), {"replace", "add", "getSet", "getAdd", "getReplace"}, {<<Key(t), Some(t.sub[2], "v")>>}) :
         t \in Maps},
  UNION {Writes(Nested(t), {"delMin", "delMax"}, {<<>>}) : t \in Maps}}
\* Left out: load* and decode* on a slice in a struct, a mapping or an array.  They store the slice
\* back with the results on top of it: SETINDEX gets a result in place of the slice.
SliceMethods == UNION {
  {On(Some(TvmSlice, "s"), n, <<>>) : n \in {"empty", "size", "bits", "refs", "depth", "loadRef", "loadRefAsSlice", "loadTons"}},
  {On(Some(TvmSlice, "s"), n, <<U(8)>>) : n \in {"dataSize", "dataSizeQ", "hasNBits", "hasNRefs", "loadSlice", "skip"}},
  {On(Some(TvmSlice, "s"), "hasNBitsAndRefs", <<U(8), U(8)>>), On(Some(TvmSlice, "s"), "compare", <<Some(TvmSlice, "t")>>)},
  Writes(Whole(TvmSlice), {"loadRef", "loadRefAsSlice", "loadTons"}, {<<>>}),
  Writes(Whole(TvmSlice), {"loadUnsigned", "loadSigned", "loadSlice"}, {<<Number(8)>>}),
  Writes(Whole(TvmSlice), {"loadSlice"}, {<<U(8)>>, <<U(8), U(8)>>}),
  Writes(Held(TvmSlice) \cup {InArray(TvmSlice)}, {"skip"}, {<<U(8)>>, <<U(8), U(8)>>}),
  Writes(Whole(TvmSlice), {"decode", "decodeQ"},
         {<<TypeArg(uint(8))>>, <<TypeArg(uint(8)), TypeArg(bytes)>>,
          <<TypeArg(array(uint(8))), TypeArg(mapping(uint(8), bool))>>}),
  Writes(Held(TvmSlice) \cup {InArray(TvmSlice)}, {"decodeFunctionParams", "decodeResponsibleParams", "decodeStateVars"},
         {<<TypeArg(uint(32)), TypeArg(uint(8)), TypeArg(bytes)>>})}
BuilderMethods == UNION {
  {On(Some(TvmBuilder, "b"), n, <<>>) :
    n \in {"depth", "bits", "remBits", "refs", "remRefs", "size", "remBitsAndRefs", "toCell", "toSlice"}},
  Writes(Held(TvmBuilder), {"storeOnes", "storeZeros", "storeTons"}, {<<U(8)>>}),
  Writes(Held(TvmBuilder), {"storeRef"}, {<<Some(t, "x")>> : t \in {TvmCell, TvmSlice, TvmBuilder}}),
  Writes(Held(TvmBuilder), {"storeUnsigned"}, {<<Some(uint(8), "x"), w>> : w \in {U(8), Number(9)}}),
  Writes(Held(TvmBuilder), {"storeSigned"}, {<<Some(int(8), "x"), w>> : w \in {U(8), Number(9)}}),
  Writes(Held(TvmBuilder), {"store"},
         {<<U(8)>>, <<U(8), BoolLit(TRUE), Some(address, "a")>>,
          <<BoolLit(FALSE), Some(bytes, "c"), Some(optional(uint(8)), "o"), Number(5)>>})}
OtherMethods == UNION {
  {On(Value(vector(uint(8)), v), n, <<>>) : n \in {"length", "empty"}, v \in Samples(vector(uint(8)), "v")},
  Writes(Held(vector(uint(8))), {"push"}, {<<U(8)>>}), Writes(Whole(vector(uint(8))), {"pop"}, {<<>>}),
  {On(Some(TvmCell, "c"), n, <<>>) : n \in {"depth", "toSlice"}},
  {On(Some(TvmCell, "c"), n, <<U(8)>>) : n \in {"dataSize", "dataSizeQ"}},
  {On(Some(address, "a"), n, <<>>) : n \in {"isStdZero", "isExternZero", "isNone", "isStdAddrWithoutAnyCast", "unpack", "getType"}},
  {On(Value(optional(uint(8)), v), "hasValue", <<>>) : v \in Samples(optional(uint(8)), "o")},
  UNION {Writes(Nested(optional(t)), {"set"}, {<<Some(t, "n")>>}) \cup Writes(Nested(optional(t)), {"reset"}, {<<>>}) :
         t \in {uint(8), mapping(uint(8), bool), optional(uint(8))}},
  Writes(Nested(optional(tupleOf(<<uint(16), address>>))), {"set"}, {<<U(8), Some(address, "a")>>})}
TvmMethods == UNION {
  {On(Magic("tvm"), n, <<>>) :
    n \in {"code", "getData", "pubkey", "initCodeHash", "accept", "commit", "rawCommit", "exit", "exit1", "replayProtTime",
           "replayProtInterval", "configParam1", "configParam15", "configParam34"}},
  {On(Magic("tvm"), n, <<Some(TvmCell, "c")>>) :
    n \in {"codeSalt", "setData", "setcode", "setCurrentCode", "bindump", "hexdump", "hash"}},
  {On(Magic("tvm"), n, <<U(8)>>) : n \in {"setPubkey", "setGasLimit", "bindump", "hexdump", "setReplayProtTime"}},
  {On(Magic("tvm"), "checkSign", a) :
    a \in {<<U(256), U(256), U(256), U(256)>>, <<U(256), Some(TvmSlice, "s"), U(256)>>,
           <<Some(TvmSlice, "h"), Some(TvmSlice, "s"), U(256)>>}},
  {On(Magic("tvm"), "setCodeSalt", <<Some(TvmCell, "c"), Some(TvmCell, "d")>>),
   On(Magic("tvm"), "hash", <<Some(TvmSlice, "s")>>), On(Magic("tvm"), "hash", <<StringLit(3)>>),
   On(Magic("tvm"), "rawReserve", <<U(128), U(8)>>), On(Magic("tvm"), "rawReserve", <<U(128), Some(currencies, "c"), U(8)>>),
   On(Magic("tvm"), "sendrawmsg", <<Some(TvmCell, "m"), U(8)>>), On(Magic("tvm"), "rawConfigParam", <<Number(3)>>),
   On(Magic("tvm"), "log", <<StringLit(3)>>), On(Magic("tvm"), "log", <<Some(string, "s")>>), On(Magic("msg"), "pubkey", <<>>)},
  {On(Magic("rnd"), n, <<>>) : n \in {"next", "getSeed", "shuffle"}},
  {On(Magic("rnd"), n, <<U(8)>>) : n \in {"next", "setSeed", "shuffle"}},
  {On(Magic("gosh"), n, <<Some(string, "a"), Some(string, "b")>>) :
    n \in {"diff", "applyPatch", "applyPatchQ", "zipDiff", "applyZipPatch", "applyZipPatchQ"}},
  {On(Magic("gosh"), n, <<Some(string, "a")>>) : n \in {"zip", "unzip"}}}
Unit == Leaf("magic", NoType, 0)
\* Left out: divr and divc of fixed-point numbers, which are not checked to fit.
MathMethods == UNION {
  {On(Magic("math"), n, a) : n \in {"min", "max"}, a \in {<<U(8), U(16)>>, <<U(8), Number(300), Some(int(32), "i")>>}},
  {On(Magic("math"), n, <<U(8), U(16)>>) : n \in {"minmax", "divr", "divc", "divmod"}},
  {On(Magic("math"), "min", <<Some(fixed(16, 2), "f"), Some(fixed(16, 2), "g")>>)},
  {On(Magic("math"), n, <<Some(t, "x"), Some(t, "y"), Number(5)>>) :
    n \in {"muldiv", "muldivr", "muldivc", "muldivmod"}, t \in {uint(8), int(8), uint(256)}},
  {On(Magic("math"), "abs", <<Some(t, "x")>>) : t \in {int(8), int(256)}},
  {On(Magic("math"), "modpow2", <<Some(uint(16), "x"), Number(8)>>), On(Magic("math"), "sign", <<Some(int(8), "i")>>)},
  {On(Unit, n, <<U(8), Number(-1)>>) : n \in {"gasToValue", "valueToGas"}},
  {On(Unit, "bitSize", <<Some(int(8), "i")>>), On(Unit, "uBitSize", <<U(8)>>), On(Unit, "stoi", <<Some(string, "s")>>)},
  {On(Unit, "sha256", <<Some(t, "x")>>) : t \in {bytes, TvmSlice}},
  {On(Unit, "require", <<Some(bool, "b")>> \o a) :
    a \in {<<>>, <<Number(101)>>, <<Number(5000)>>, <<U(8)>>, <<Number(101), Some(address, "x")>>, <<U(16), Some(address, "x")>>}},
  {On(Unit, "revert", a) :
    a \in {<<>>, <<Number(101)>>, <<Number(5000)>>, <<U(8)>>, <<Number(101), Some(address, "x")>>, <<U(16), Some(address, "x")>>}},
  {On(Unit, n, <<a>>) : n \in {"format", "formatx", "formatt"}, a \in {U(8), Some(int(8), "i"), Number(5)}},
  {On(Unit, "format", <<U(8), a>>) : a \in {Some(address, "i"), Some(string, "s"), StringLit(2), Some(fixed(16, 2), "f")}}}

\* The variable that holds the object is still of its type, the results are of theirs.
MethodPrograms(calls) ==
  UNION {LET m == Method(c.obj, c.name, c.args)
             r == root(c.obj)
             local == r.e = "local"
             \* length of a vector is declared uint8, though a vector may be longer
             result == IF c.obj.t.c = "TvmVector" /\ c.name = "length" THEN <<Of(uint(16))>> ELSE WantT(m.t)
         IN  {Program(<<"method", c.name, c.obj, c.args>>, IF local THEN <<v>> ELSE <<>>, compileNewExpr(m),
                      (IF local THEN <<Of(r.t)>> ELSE <<>>) \o result) :
                v \in IF local THEN Samples(r.t, "v") \ {Tuple(<<>>)} ELSE {Null}} : c \in calls}
MethodCalls == ArrayMethods \cup MappingMethods \cup SliceMethods \cup BuilderMethods \cup OtherMethods
                 \cup TvmMethods \cup MathMethods
=============================================================================
