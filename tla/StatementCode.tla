--------------------------- MODULE StatementCode ---------------------------
(***************************************************************************)
(* The statements of TVMFunctionCompiler that move values, as calls of the *)
(* StackPusher: declarations of variables, the loop over an array, bytes   *)
(* or a mapping, emit; and the members of msg, tx, block and address.      *)
(* Flags of loops that break, continue or return are in ControlFlow.       *)
(***************************************************************************)
EXTENDS MessageCode

SenderAddress == 9

\* A variable of a declaration is its type, or Unnamed.
Unnamed == NoType
named(vs) == {i \in DOMAIN vs : vs[i] # Unnamed}
RECURSIVE deleteUnnamedVars(_, _, _)
deleteUnnamedVars(vs, i, top) ==
  IF i = 0 THEN <<>>
  ELSE IF vs[i] = Unnamed THEN dropUnder(1, top) \o deleteUnnamedVars(vs, i - 1, top)
  ELSE deleteUnnamedVars(vs, i - 1, top + 1)
\* init: the initial value, if any
visitVariableDeclarationStatement(vs, init) ==
  LET n == Len(vs)
      into(i, t) == IF vs[i] # Unnamed THEN hardConvert(vs[i], t) ELSE drop(1)
      asTuple == init # <<>> /\ init[1].e = "tuple" /\ Len(init[1].sub) = n
  IN  Ensured(
        CASE init = <<>> -> Each(n, LAMBDA i : pushDefaultValue(vs[i]))
          [] asTuple -> Each(n, LAMBDA i : acceptExpr(init[1].sub[i], TRUE) \o into(i, init[1].sub[i].t))
          [] ~asTuple /\ n = 1 -> acceptExpr(init[1], TRUE) \o hardConvert(vs[1], init[1].t)
          [] OTHER -> acceptExpr(init[1], TRUE)
                        \o Each(n, LAMBDA j : (IF vs[n + 1 - j] # Unnamed
                                               THEN hardConvert(vs[n + 1 - j], init[1].t.sub[n + 1 - j]) ELSE <<>>)
                                                \o blockSwap(n - 1, 1))
                        \o deleteUnnamedVars(vs, n, 0),
        Cardinality(named(vs)))
pushDefaultParameters(ts) == Each(Len(ts), LAMBDA i : pushDefaultValue(ts[i]))

-----------------------------------------------------------------------------
(* foreach.  The iteration values lie above what was on the stack: cell    *)
(* value, or dict index value, or dict key' key value, where the body      *)
(* cannot see key'.                                                        *)

visitForOrWhileCondition(code) == Asserted(Continuation(code \o fixStack(-1)), 0)
loopVarQty(t) == IF t.c = "Mapping" THEN 4 ELSE IF isByteArrayOrString(t) THEN 2 ELSE 3
foreachInit(t) ==
  CASE t.c = "Mapping" -> pushS(0) \o minOrMax("DICTMIN", t.sub[1], t.sub[2], TRUE)
    [] isByteArrayOrString(t) -> pushDiff(0, "CTOS") \o pushNull
    [] OTHER -> index(1) \o pushInt(0) \o pushNull
isNotNull == pushDiff(0, "ISNULL") \o pushDiff(0, "NOT")
foreachCondition(t) ==
  CASE t.c = "Mapping" -> pushS(2) \o isNotNull
    [] isByteArrayOrString(t) -> pushS(1) \o pushDiff(0, "SEMPTY") \o pushDiff(0, "NOT")
    [] OTHER -> pushS(1) \o pushS(3) \o getDict("Fetch", ArrayKey, t.sub[1], "Slice")
                  \o pushS(0) \o popS(2) \o isNotNull
\* The bytes go on in the reference of a cell that has been read to its end.
foreachStart(t) ==
  IF isByteArrayOrString(t)
  THEN Asserted(
         pushS(1)
           \o Asserted(Opaque(pushAsymN("LDUQ", 8) \o fixStack(1)
                         \o Continuation(pushDiff(0, "PLDREF") \o pushDiff(0, "CTOS") \o pushDiffN(1, "LDU", 8)
                                           \o fixStack(-2)) \o ifNot, 1, 2), 1)
           \o popS(3) \o popS(1), 0)
  ELSE <<>>
foreachNext(t) ==
  CASE t.c = "Mapping" ->
         Asserted(pushS(2) \o pushS(4) \o pushInt(dictKeyLength(t.sub[1]))
                    \o prevNext("DICTGETNEXT", t.sub[1], t.sub[2], TRUE) \o popS(3) \o popS(3) \o popS(3), 0)
    [] isByteArrayOrString(t) -> <<>>
    [] OTHER -> pushS(1) \o pushDiff(0, "INC") \o popS(2)
visitForEachStatement(range, body) ==
  LET t == range.t IN
  Asserted(
    Asserted(acceptExpr(range, TRUE) \o foreachInit(t), loopVarQty(t))
      \o visitForOrWhileCondition(foreachCondition(t))
      \o startContinuation \o foreachStart(t) \o body \o foreachNext(t) \o endContinuation \o _while
      \o drop(loopVarQty(t)), 0)

\* emit E{dest: d}(args): the arguments are not converted.
visitEmitStatement(ts, args, o) ==
  Each(Len(args), LAMBDA i : compileNewExpr(args[Len(args) + 1 - i]))
    \o (IF has(o, "dest") THEN acceptExpr(o["dest"], TRUE) ELSE <<>>)
    \o sendMsg(ExtOutMsgInfo, DOMAIN o, NoOptions, FALSE, <<>>,
               [size \in Nat |-> createMsgBodyAndAppendToBuilder(ts, <<>>, FALSE, size, TRUE)], DefaultFlag)

-----------------------------------------------------------------------------
(* Members of msg: the values of the transaction at the bottom of the      *)
(* stack.                                                                  *)

skipFields(ops) == Each(Len(ops), LAMBDA i : push(ops[i]))
transactionId == pushBottom(5)
message == pushBottom(3) \o pushDiff(0, "CTOS")
Addresses == <<"LDMSGADDR", "LDMSGADDR">>
\* HardCode of instructions that leave one value
readMessage(first, yes, no) ==
  pushRefContAndCallX(
    Opaque(first \o transactionId \o Continuation(yes) \o Continuation(no) \o ifElse, 0, 1), 0, 1)
visitMsgMagic(name) ==
  CASE name = "sender" -> getGlob(SenderAddress, Whatever)
    [] name = "value" -> pushBottom(2)
    [] name = "data" -> pushBottom(4)
    [] name = "isInternal" -> transactionId \o pushDiffN(0, "EQINT", 0)
    [] name = "isExternal" -> transactionId \o pushDiffN(0, "EQINT", -1)
    [] name = "isTickTock" -> transactionId \o pushDiffN(0, "EQINT", -2)
    [] name = "createdAt" ->
         readMessage(<<>>, pushInt(0),
                     message \o pushN("LDU", 4) \o skipFields(Addresses \o <<"LDGRAMS", "LDDICT", "LDGRAMS", "LDGRAMS">>)
                       \o pushN("LDU", 64) \o pushN("PLDU", 32) \o dropUnder(8, 1))
    [] name = "hasStateInit" ->
         readMessage(message, pushN("LDU", 2) \o skipFields(Addresses \o <<"LDGRAMS">>) \o pushN("PLDI", 1)
                       \o dropUnder(4, 1),
                     pushN("LDU", 4) \o skipFields(Addresses \o <<"LDGRAMS", "LDDICT", "LDGRAMS", "LDGRAMS">>)
                       \o pushN("LDU", 96) \o pushN("PLDI", 1) \o dropUnder(8, 1))
    [] name = "currencies" ->
         readMessage(<<>>, push("NEWDICT"),
                     message \o pushN("LDU", 4) \o skipFields(Addresses \o <<"LDGRAMS", "PLDDICT">>) \o dropUnder(4, 1))
visitMagic(object, name) ==
  CASE object = "msg" -> visitMsgMagic(name)
    [] <<object, name>> = <<"tx", "timestamp">> -> push("LTIME")
    [] <<object, name>> = <<"tx", "storageFee">> -> push("STORAGEFEE")
    [] <<object, name>> = <<"block", "timestamp">> -> push("BLOCKLT")
\* address(this).balance and .currencies, a.wid and a.value
checkForAddressMemberAccess(name, a) ==
  CASE name = "balance" -> pushDiffN(1, "GETPARAM", 7) \o index(0)
    [] name = "currencies" -> pushDiffN(1, "GETPARAM", 7) \o index(1)
    [] name = "wid" -> compileNewExpr(a) \o pushDiff(0, "PARSEMSGADDR") \o indexWithExcep(2)
    [] name = "value" -> compileNewExpr(a) \o pushDiff(0, "PARSEMSGADDR") \o indexWithExcep(3)
                           \o pushDiffN(0, "PLDU", 256)
=============================================================================
