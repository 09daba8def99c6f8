------------------------------ MODULE ExprCode ------------------------------
(***************************************************************************)
(* TVMExpressionCompiler: the code of an expression.                       *)
(***************************************************************************)
EXTENDS MethodCode

RECURSIVE compileNewExpr(_)

\* ExprUtils::constValue: <<>> or the number the expression is folded to.
RECURSIVE constValue(_)
constValue(e) == CASE e.e = "number" -> <<IF isFractional(e.t) THEN e.n ELSE numerator(e.t)>>
                   [] e.e = "constant" -> constValue(e.sub[1])
                   [] OTHER -> <<>>
returnParamQty(e) == IF e.t.c = "Tuple" THEN Len(e.t.sub) ELSE 1

compileEach(es) == Flat([i \in DOMAIN es |-> compileNewExpr(es[i])])

pushLocalOrStateVariable(e) ==
  CASE e.e = "local" -> pushLocal(e.n)
    [] e.e = "constant" -> compileNewExpr(e.sub[1])
    [] e.e = "state" -> getGlob(e.n, e.v[1])

visitLiteral(e) == CASE e.e = "bool" -> pushDiff(1, IF e.n = 1 THEN "TRUE" ELSE "FALSE")
                     [] e.e = "null" -> pushNull
                     [] e.e = "emptyMap" -> pushDiff(1, "NEWDICT")
                     [] e.e = "string" -> pushValue(Cell(<<AnyField("string")>>))

\* An array literal whose elements are computed at run time.
visitHonest(es, onlyDict) ==
  LET n == Len(es)
      t == inlineArrayType(es)
  IN  Asserted(compileEach(Reverse(es)) \o pushInt(0) \o pushDiff(1, "NEWDICT") \o pushInt(n)
        \o Opaque(Continuation(rot \o prepareValueForDictOperations(ArrayKey, t) \o pushS(2)
                               \o pushDiff(0, "INC") \o exchange(3) \o rot
                               \o setDict("DICTSET", ArrayKey, valueForm(ArrayKey, t)))
                  \o repeat, n + 3, 2)
        \o IF onlyDict THEN dropUnder(1, 1) ELSE pushDiffN(-1, "TUPLE", 2), 1)

-----------------------------------------------------------------------------
(* Left values: variable [index | member | get()]...                       *)

parseIndexType(t) == IF t.c = "Array" THEN ArrayKey ELSE t.sub[1]
checkOptionalValue == pushDiff(0, "ISNULL") \o throwIf(1)
pushIndexAndConvert(e) ==
  compileNewExpr(e.sub[2]) \o hardConvert(e.sub[1].t.sub[1], e.sub[2].t)
isDict(t) == t.c \in {"Mapping", "ExtraCurrencyCollection"}
isDictKeyByHash(t) == isRefType(t) \/ t.c = "StringLiteral"
prepareIndex(t) == IF isDictKeyByHash(t) THEN pushDiff(0, "HASHCU")
                   ELSE prepareKeyForDictOperations(t, FALSE)

\* Leaves the parts needed to write the value back and, if full, the value.
RECURSIVE expandLValue(_, _)
expandLValue(e, full) ==
  LET base == e.sub[1] IN
  CASE e.e \in {"local", "state"} -> IF full THEN pushLocalOrStateVariable(e) ELSE <<>>
    [] e.e = "index" /\ isDict(base.t) ->
         expandLValue(base, TRUE) \o pushIndexAndConvert(e) \o prepareIndex(e.sub[2].t) \o exchange(1)
           \o IF full THEN pushS2(1, 0) \o getDict("GetFromMapping", base.t.sub[1], base.t.sub[2], "")
              ELSE <<>>
    [] e.e = "index" /\ isUsualArray(base.t) ->
         expandLValue(base, TRUE) \o pushDiffN(1, "UNTUPLE", 2) \o compileNewExpr(e.sub[2])
           \o exchange(1) \o pushS2(1, 2) \o pushDiff(-1, "LESS") \o throwIfNot(1)
           \o IF full THEN pushS2(1, 0) \o getDict("GetFromArray", ArrayKey, e.t, "") ELSE <<>>
    [] e.e = "member" -> expandLValue(base, TRUE) \o IF full THEN pushS(0) \o index(e.n) ELSE <<>>
    [] e.e = "optget" -> expandLValue(base, TRUE) \o (IF full THEN pushS(0) ELSE <<>>)
                           \o checkOptionalValue
    [] OTHER -> solUnimplemented

\* Writes the value on the top back.
RECURSIVE collectLValue(_, _)
collectLValue(e, haveValueOnStackTop) ==
  LET base == e.sub[1]
      set(key, value) == prepareValueForDictOperations(key, value) \o rotRev
                           \o setDict("DICTSET", key, valueForm(key, value))
  IN
  CASE e.e = "local" -> IF haveValueOnStackTop THEN assignLocal(e.n) ELSE solUnimplemented
    [] e.e = "state" -> setGlob(e.n)
    [] e.e = "index" /\ isDict(base.t) ->
         (IF haveValueOnStackTop THEN set(base.t.sub[1], base.t.sub[2]) ELSE dropUnder(1, 1))
           \o collectLValue(base, TRUE)
    [] e.e = "index" -> (IF haveValueOnStackTop THEN set(ArrayKey, e.t) ELSE popS(1))
                          \o pushDiffN(-1, "TUPLE", 2) \o collectLValue(base, TRUE)
    [] e.e = "member" -> setIndex(e.n) \o collectLValue(base, TRUE)
    [] e.e = "optget" -> collectLValue(base, TRUE)

-----------------------------------------------------------------------------
(* Unary operators.                                                        *)

isCheckFitUseless(t, op) == t = uint(256) /\ op \in {"+", "**", "*", "<<", "++"}

compileUnaryOperation(e, opcode, resultNeeded) ==
  LET x == e.sub[1]
      expanded == expandLValue(x, TRUE)
      below == Grow(expanded, 0) - 1
  IN  expanded
        \o (CASE ~resultNeeded -> pushDiff(0, opcode)
              [] e.e = "unary" -> pushDiff(0, opcode) \o pushS(0)
                          \o IF below # 0 THEN blockSwap(below + 1, 1) ELSE <<>>
              [] OTHER -> pushS(0) \o pushDiff(0, opcode)
                          \o IF below # 0 THEN exchange(1) \o blockSwap(below + 1, 1) ELSE <<>>)
        \o (IF isCheckFitUseless(e.t, e.op) THEN <<>> ELSE checkFit(e.t))
        \o collectLValue(x, TRUE)

compileUnaryDelete(e) ==
  LET x == e.sub[1]
      base == x.sub[1]
      key == base.t.sub[1]
  IN  expandLValue(x, FALSE)
        \o CASE x.e = "index" /\ isDict(base.t) ->
                  pushS(1) \o exchange(1) \o pushInt(dictKeyLength(key))
                    \o pushDict(-1, "DICTDEL", typeToDictChar(key), "") \o drop(1)
                    \o collectLValue(x, FALSE)
             [] x.e = "optget" -> solUnimplemented
             [] OTHER -> pushDefaultValue(x.t) \o collectLValue(x, TRUE)

visitUnary(e, resultNeeded) ==
  LET x == e.sub[1] IN
  CASE e.e = "delete" -> compileUnaryDelete(e)
    [] e.op = "++" -> compileUnaryOperation(e, "INC", resultNeeded)
    [] e.op = "--" -> compileUnaryOperation(e, "DEC", resultNeeded)
    [] e.op = "!" -> compileNewExpr(x) \o pushDiff(0, "NOT")
    [] e.op = "-" -> compileNewExpr(x) \o pushDiff(0, "NEGATE")
    [] e.op = "~" -> compileNewExpr(x)
                       \o IF isSigned(x.t) THEN pushDiff(0, "BITNOT")
                          ELSE pushDiffN(1, "PUSHPOW2DEC", numBits(x.t)) \o pushDiff(-1, "SUBR")

-----------------------------------------------------------------------------
(* Binary operators.                                                       *)

\* What turns the sign of a comparison into its truth value.
SignTest(op) == CASE op = ">" -> "ISPOS" [] op = ">=" -> "ISNNEG"
                  [] op = "<" -> "ISNEG" [] op = "<=" -> "ISNPOS"
compareSlices(op) ==
  CASE op = "==" -> pushDiff(-1, "SDEQ")
    [] op = "!=" -> pushDiff(-1, "SDEQ") \o pushDiff(0, "NOT")
    [] op \in CompareOps -> pushDiff(-1, "SDLEXCMP") \o pushDiff(0, SignTest(op))
    [] OTHER -> solUnimplemented
compareStrings(op) ==
  pushMacroCallInCallRef(2, <<Num("?", TRUE, 2)>>)
    \o CASE op = "==" -> pushDiff(0, "ISZERO")
         [] op = "!=" -> pushDiff(0, "ISZERO") \o pushDiff(0, "NOT")
         [] OTHER -> pushDiff(0, SignTest(op))
visitBinaryOperationForTvmCell(l, r, op) ==
  IF op \notin {"==", "!="} THEN solUnimplemented
  ELSE l \o pushDiff(0, "HASHCU") \o r \o pushDiff(0, "HASHCU")
       \o pushDiff(-1, IF op = "==" THEN "EQUAL" ELSE "NEQ")
concatenateStrings == pushMacroCallInCallRef(2, <<Cell(<<AnyField("?")>>)>>)
visitBinaryOperationForString(l, r, op) ==
  CASE op = "+" -> l \o r \o concatenateStrings
    [] op \in {"==", "!="} -> visitBinaryOperationForTvmCell(l, r, op)
    [] op \in CompareOps -> l \o r \o compareStrings(op)
    [] OTHER -> solUnimplemented

\* a && b && c compiles to a nest: c is evaluated within the continuation of b.
RECURSIVE unroll(_)
unroll(e) == (IF e.sub[1].e = "binary" /\ e.sub[1].op = e.op THEN unroll(e.sub[1]) ELSE <<e.sub[1]>>)
               \o <<e.sub[2]>>
\* The tested copy is not taken off the believed depth.
visitLogicalKeepsCopy(e) ==
  LET order == unroll(e)
      n == Len(order) - 1
  IN  compileNewExpr(order[1])
        \o Each(n, LAMBDA i : pushS(0) \o startContinuation \o drop(1) \o compileNewExpr(order[i + 1]))
        \o Each(n, LAMBDA i : endLogCircuit(e.op = "&&"))
visitLogicalShortCircuiting(e) ==
  LET order == unroll(e)
      n == Len(order) - 1
  IN  compileNewExpr(order[1])
        \o Each(n, LAMBDA i : pushS(0) \o fixStack(-1) \o startContinuation \o drop(1)
                                \o compileNewExpr(order[i + 1]))
        \o Each(n, LAMBDA i : endLogCircuit(e.op = "&&"))

\* right is empty if the right operand is on the stack.
MathOpcode(op) ==
  CASE op = "+" -> "ADD" [] op = "*" -> "MUL" [] op = "-" -> "SUB" [] op = "%" -> "MOD"
    [] op = "/" -> "DIV" [] op = ">" -> "GREATER" [] op = ">=" -> "GEQ" [] op = "<" -> "LESS"
    [] op = "<=" -> "LEQ" [] op = "==" -> "EQUAL" [] op = "!=" -> "NEQ" [] op = "&" -> "AND"
    [] op = "|" -> "OR" [] op = "<<" -> "LSHIFT" [] op = ">>" -> "RSHIFT" [] op = "^" -> "XOR"
Powered(base, right, rightValue) ==
  CASE rightValue = <<2>> -> pushS(0) \o pushDiff(-1, "MUL")
    [] rightValue = <<3>> -> pushS(0) \o pushS(0) \o pushDiff(-1, "MUL") \o pushDiff(-1, "MUL")
    [] rightValue = <<4>> -> pushS(0) \o pushDiff(-1, "MUL") \o pushS(0) \o pushDiff(-1, "MUL")
    [] OTHER -> right \o dup2 \o pushDiff(-1, "OR") \o throwIfNot(1)
                  \o pushMacroCallInCallRef(2, <<Num("?", base.sg, IF base.sg THEN 257 ELSE 256)>>)
visitMathBinaryOperation(op, common, right, rightValue) ==
  LET power == 10 ^ common.digits
      isFixed == common.c = "FixedPoint"
  IN  (CASE op = "**" -> Powered(common, right, rightValue)
         [] op = "*" /\ isFixed -> right \o pushInt(power) \o pushDiff(-2, "MULDIV")
         [] op = "/" /\ isFixed -> right \o pushInt(power) \o exchange(1) \o pushDiff(-2, "MULDIV")
         [] OTHER -> right \o pushDiff(-1, MathOpcode(op)))
        \o IF op \in {"+", "-", "*", "**", "<<"} /\ ~isCheckFitUseless(common, op)
           THEN checkFit(common) ELSE <<>>

isAddressOrContractType(t) == t.c \in {"Address", "Contract"}
visitBinary(e) ==
  LET op == e.op
      a == e.sub[1]
      b == e.sub[2]
      common == commonTypeOf(e)
      acceptLeft == compileNewExpr(a) \o hardConvert(common, a.t)
      acceptRight == compileNewExpr(b)
                       \o hardConvert(IF op \in ShiftOps THEN mobileType(b.t) ELSE common, b.t)
  IN  CASE "Function" \in {a.t.c, b.t.c} -> solUnimplemented
        [] common = string -> visitBinaryOperationForString(acceptLeft, acceptRight, op)
        [] (a.t = TvmCell /\ b.t = TvmCell) \/ (isByteArrayOrString(a.t) /\ isByteArrayOrString(b.t)) ->
             visitBinaryOperationForTvmCell(acceptLeft, acceptRight, op)
        [] isAddressOrContractType(a.t) \/ isAddressOrContractType(b.t)
             \/ (a.t = TvmSlice /\ b.t = TvmSlice) -> acceptLeft \o acceptRight \o compareSlices(op)
        [] op \in BooleanOps -> visitLogicalShortCircuiting(e)
        [] OTHER -> acceptLeft \o visitMathBinaryOperation(op, common, acceptRight, constValue(b))

-----------------------------------------------------------------------------
(* Conditional, index and member access.                                   *)

visitConditional(e) ==
  LET n == returnParamQty(e.sub[2]) IN
  Asserted(compileNewExpr(e.sub[1]) \o fixStack(-1)
           \o Continuation(compileNewExpr(e.sub[2])) \o fixStack(-n)
           \o Continuation(compileNewExpr(e.sub[3])) \o fixStack(-n)
           \o pushConditional(n), n)

visitByteIndex(base, i) ==
  base \o pushDiff(0, "CTOS") \o i
    \o pushRefContAndCallX(pushInt(127) \o pushDiff(0, "DIVMOD") \o rotRev
         \o Continuation(pushDiff(0, "PLDREF") \o pushDiff(0, "CTOS")) \o repeat \o fixStack(-1)
         \o exchange(1) \o pushDiffN(0, "MULCONST", 8) \o pushDiff(-1, "SDSKIPFIRST")
         \o pushDiffN(0, "PLDU", 8), 2, 1)
visitVectorIndex(base, i, val) ==
  base \o IF val # <<>> /\ val[1] <= 15 THEN indexWithExcep(0) \o indexWithExcep(val[1])
          ELSE i \o pushInt(255) \o pushDiff(0, "DIVMOD") \o rotRev \o pushDiff(-1, "INDEXVAR")
               \o exchange(1) \o pushDiff(-1, "INDEXVAR")
visitIndex(e) ==
  LET t == e.sub[1].t
      base == compileNewExpr(e.sub[1])
      i == compileNewExpr(e.sub[2])
  IN  CASE t = bytes -> visitByteIndex(base, i)
        [] isUsualArray(t) -> i \o base \o index(1) \o getDict("GetFromArray", ArrayKey, e.t, "")
        [] t.c = "TvmVector" -> visitVectorIndex(base, i, constValue(e.sub[2]))
        [] t.c = "FixedBytes" -> base \o pushInt(t.n - 1) \o i \o pushDiff(-1, "SUB")
             \o pushDiffN(0, "MULCONST", 8) \o pushDiff(-1, "RSHIFT") \o pushDiffN(0, "MODPOW2", 8)
        [] OTHER -> pushIndexAndConvert(e) \o prepareIndex(e.sub[2].t) \o base
             \o getDict("GetFromMapping", t.sub[1], t.sub[2], "")
\* x[i:j], x[i:], x[:j], x[:]; a bound left out is Skip
visitIndexRange(e) ==
  compileNewExpr(e.sub[1])
    \o (IF e.sub[2] = Skip THEN pushInt(0) ELSE compileNewExpr(e.sub[2]))
    \o (IF e.sub[3] = Skip THEN pushInt(0) \o pushDiff(1, "TRUE")
        ELSE compileNewExpr(e.sub[3]) \o pushDiff(1, "FALSE"))
    \o pushMacroCallInCallRef(4, <<Cell(<<AnyField("?")>>)>>)

visitLength(e) ==
  LET x == e.sub[1] IN
  CASE isByteArrayOrString(x.t) -> compileNewExpr(x) \o byteLengthOfCell
    [] isUsualArray(x.t) -> compileNewExpr(x) \o index(0)
    [] x.t.c = "FixedBytes" -> IF x.e \in {"local", "state"} THEN pushInt(x.t.n) ELSE solUnimplemented

-----------------------------------------------------------------------------
(* Assignments.                                                            *)

\* The components are assigned from the last value to the first.
assignTupleBackwards(lhs, rhs) ==
  LET one(i) == LET l == lhs.sub[i]
                    expanded == expandLValue(l, FALSE)
                IN  IF l = Skip THEN drop(1)
                    ELSE expanded \o blockSwap(1, Grow(expanded, 0)) \o collectLValue(l, TRUE)
  IN  compileNewExpr(rhs) \o Each(Len(lhs.sub), one)
assignTuple(lhs, rhs) ==
  LET n == Len(lhs.sub)
      one(i) == LET l == lhs.sub[i]
                    expanded == expandLValue(l, FALSE)
                IN  IF l = Skip THEN drop(1)
                    ELSE hardConvert(l.t, IF rhs.t.c = "Tuple" THEN rhs.t.sub[i] ELSE rhs.t)
                         \o expanded \o blockSwap(1, Grow(expanded, 0)) \o collectLValue(l, TRUE)
  IN  compileNewExpr(rhs) \o (IF n >= 2 THEN reverse(n, 0) ELSE <<>>) \o Each(n, one)

visitAssignment(e, resultNeeded) ==
  LET lhs == e.sub[1]
      rhs == e.sub[2]
      right == compileNewExpr(rhs) \o hardConvert(lhs.t, rhs.t)
      expanded == expandLValue(lhs, e.op # "=")
      size == Grow(expanded, 0)
  IN  CASE lhs.e = "tuple" -> assignTuple(lhs, rhs)
        [] e.op = "=" -> right \o expanded
             \o (IF resultNeeded THEN pushS(size) ELSE blockSwap(Grow(right, 0), size))
             \o collectLValue(lhs, TRUE)
        [] OTHER -> right \o expanded \o blockSwap(1, size)
             \o (IF lhs.t = string THEN concatenateStrings
                 ELSE visitMathBinaryOperation(e.op, lhs.t, <<>>, <<>>))
             \o (IF resultNeeded THEN pushS(0) \o blockSwap(size, 1) ELSE <<>>)
             \o collectLValue(lhs, TRUE)

-----------------------------------------------------------------------------
(* <optional>.get() as a value is compiled by FunctionCallCompiler.        *)

optionalGet(e) == compileNewExpr(e.sub[1]) \o pushS(0) \o checkOptionalValue
                    \o unpackOptional(e.t)

(* Any other method call: the code of its parts.  A temporary object is     *)
(* dropped after the call instead of being written back.                   *)
isLValue(e) == e.e \in {"local", "state", "index", "member", "optget"}
visitFunctionCall(e) ==
  LET obj == e.sub[1]
      args == Tail(e.sub)
      lvalue == isLValue(obj)
      ps == e.v
      value == IF obj.e = "magic" THEN <<>> ELSE compileNewExpr(obj)
      parts == [name |-> e.op, t |-> obj.t, ret |-> e.t, obj |-> value,
                expand |-> IF lvalue THEN expandLValue(obj, TRUE) ELSE value,
                expandPart |-> IF lvalue THEN expandLValue(obj, FALSE) ELSE <<>>,
                collect |-> IF lvalue THEN collectLValue(obj, TRUE) ELSE drop(1),
                ts |-> [i \in DOMAIN args |-> args[i].t],
                const |-> [i \in DOMAIN args |-> constValue(args[i])],
                raw |-> [i \in DOMAIN args |-> IF args[i].e = "type" THEN <<>> ELSE compileNewExpr(args[i])],
                arg |-> [i \in DOMAIN ps |-> IF args[i].e = "type" THEN <<>>
                                             ELSE compileNewExpr(args[i]) \o hardConvert(ps[i], args[i].t)]]
  IN  compileMethod(parts, args)

acceptExpr(e, resultNeeded) ==
  IF constValue(e) # <<>> THEN pushDiffN(1, "PUSHINT", constValue(e)[1])
  ELSE CASE e.e \in {"bool", "null", "emptyMap", "string"} -> visitLiteral(e)
         [] e.e \in {"local", "state", "constant"} -> pushLocalOrStateVariable(e)
         [] e.e = "value" -> Each(Len(e.v), LAMBDA i : pushValue(e.v[i]))
         [] e.e = "binary" -> visitBinary(e)
         [] e.e \in {"unary", "postfix", "delete"} -> visitUnary(e, resultNeeded)
         [] e.e = "assign" -> visitAssignment(e, resultNeeded)
         [] e.e = "tuple" -> compileEach(e.sub)
         [] e.e = "array" -> visitHonest(e.sub, FALSE)
         [] e.e = "member" -> compileNewExpr(e.sub[1]) \o index(e.n)
         [] e.e = "length" -> visitLength(e)
         [] e.e = "index" -> visitIndex(e)
         [] e.e = "range" -> visitIndexRange(e)
         [] e.e = "cond" -> visitConditional(e)
         [] e.e = "optget" -> optionalGet(e)
         [] e.e = "call" -> visitFunctionCall(e)
compileNewExpr(e) == acceptExpr(e, TRUE)
\* The top of an expression statement: unary operators and assignments leave no result.
acceptExprStatement(e) ==
  acceptExpr(e, FALSE)
    \o IF e.e \in {"unary", "postfix", "delete", "assign"} /\ constValue(e) = <<>> THEN <<>>
       ELSE drop(returnParamQty(e))
=============================================================================
