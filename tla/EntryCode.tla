----------------------------- MODULE EntryCode -----------------------------
(***************************************************************************)
(* How a contract is entered and left: the code that moves the state       *)
(* variables between c4 and c7 (generateC7ToT4Macro, generateC4ToC7,       *)
(* generateC4ToC7WithInitMemory, updateOnlyTime), the public functions,    *)
(* getters and constructors, the selector, and the two mains, as calls of  *)
(* the StackPusher.                                                        *)
(*                                                                         *)
(* A contract ct has its state variables vars (type t, static, init: the   *)
(* initial value if it has one), the flags of its ABI header, its public   *)
(* functions [id, code], and the code of afterSignatureCheck (after),      *)
(* receive, fallback and onBounce in a sequence that is empty without it.  *)
(***************************************************************************)
EXTENDS StatementCode

FirstIndexForVariables == 10
ReturnParams == [Index |-> 4, Bounce |-> 1, Value |-> 2, Currencies |-> 3, Flag |-> 4, CallbackFunctionId |-> 5]

variable(i, t) == getGlob(FirstIndexForVariables + i - 1, Sample(t, "v"))
setVariable(i) == setGlob(FirstIndexForVariables + i - 1)
stateVarTypes(ct) == [i \in DOMAIN ct.vars |-> ct.vars[i].t]
tooMuchStateVariables(ct) == Len(ct.vars) >= FirstIndexForVariables + 6
afterSignatureCheck(ct) == ct.after # <<>>
hasTimeInAbiHeader(ct) == ct.time \/ ~afterSignatureCheck(ct)
storeTimestampInC4(ct) == hasTimeInAbiHeader(ct) /\ ~afterSignatureCheck(ct)
getOffsetC4(ct) == 256 + (IF storeTimestampInC4(ct) THEN 64 ELSE 0) + 1 + (IF ct.await THEN 1 ELSE 0)
When(b, code) == IF b THEN code ELSE <<>>

-----------------------------------------------------------------------------
(* c7 -> c4.                                                               *)

pushAllVariables(ct) ==
  LET n == Len(ct.vars) IN
  IF tooMuchStateVariables(ct)
  THEN Asserted(pushC7 \o pushDiff(1, "FALSE") \o setIndexQ(n + FirstIndexForVariables)
                  \o untuple(n + FirstIndexForVariables + 1) \o drop(1)
                  \o reverse(n + FirstIndexForVariables, 0) \o drop(FirstIndexForVariables), n)
  ELSE Each(n, LAMBDA i : variable(n + 1 - i, ct.vars[n + 1 - i].t))
generateC7ToT4Macro(ct) ==
  pushAllVariables(ct)
    \o When(storeTimestampInC4(ct), getGlob(C7.ReplayProtTime, Whatever))
    \o getGlob(C7.TvmPubkey, Whatever)
    \o pushDiff(1, "NEWC") \o pushDiffN(-1, "STU", 256)
    \o When(storeTimestampInC4(ct), pushDiffN(-1, "STU", 64))
    \o pushDiff(0, "STONE") \o When(ct.await, pushDiff(0, "STZERO"))
    \o When(ct.vars # <<>>,
            encodeParameters(stateVarTypes(ct),
                             Position(getOffsetC4(ct), IF ct.await THEN 1 ELSE 0, stateVarTypes(ct))))
    \o pushDiff(0, "ENDC") \o popRoot

(* c4 -> c7.                                                               *)

loadVariables(ct) ==
  LET n == Len(ct.vars) IN
  decodeData(getOffsetC4(ct), IF ct.await THEN 1 ELSE 0, stateVarTypes(ct))
    \o IF tooMuchStateVariables(ct)
       THEN Each(FirstIndexForVariables, LAMBDA i : getGlob(i - 1, Null))
              \o blockSwap(n, FirstIndexForVariables) \o tuple(n + FirstIndexForVariables) \o popC7
       ELSE Each(n, LAMBDA i : setVariable(n + 1 - i))
generateC4ToC7(ct) ==
  pushRoot \o pushDiff(0, "CTOS") \o LDU(256) \o When(storeTimestampInC4(ct), LDU(64))
    \o LDU(1) \o dropUnder(1, 1)
    \o When(ct.await, pushDiffN(1, "LDI", 1) \o dropUnder(1, 1))
    \o (IF ct.vars # <<>> THEN fixStack(1) \o Asserted(loadVariables(ct), -1) ELSE pushDiff(-1, "ENDS"))
    \o When(storeTimestampInC4(ct), setGlob(C7.ReplayProtTime))
    \o fixStack(1) \o setGlob(C7.TvmPubkey)

\* A macro called with take 0 and ret 0.
callMacro(code) == pushRefContAndCallX(functionOf(0, code, 0, 0, FALSE), 0, 0)
pushMacro(code) == functionOf(0, code, 0, 0, FALSE)

(* The first transaction finds the dictionary of the deployer in c4.       *)

PersistenceMembersStartIndex == 1
staticBefore(ct, k) == Cardinality({j \in 1 .. k - 1 : ct.vars[j].static})
\* The dictionary lies below the variables pushed so far.
initialVariable(ct, k, below) ==
  IF ct.vars[k].static
  THEN pushInt(PersistenceMembersStartIndex + staticBefore(ct, k)) \o pushS(1 + below)
         \o getDict("GetFromMapping", KeyOfC4, ct.vars[k].t, valueForm(KeyOfC4, ct.vars[k].t))
  ELSE pushDefaultValue(ct.vars[k].t)
initMemory(ct) ==
  LET n == Len(ct.vars)
      many == tooMuchStateVariables(ct)
      other == IF many THEN FirstIndexForVariables ELSE 0
  IN  pushInt(0) \o pushRoot \o pushDiff(0, "CTOS") \o pushDiff(0, "PLDDICT")
        \o Each(other, LAMBDA i : getGlob(i - 1, Null))
        \o Each(n, LAMBDA k : initialVariable(ct, k, other + k - 1))
        \o (IF many THEN tuple(n + other) \o popC7 ELSE Each(n, LAMBDA i : setVariable(n + 1 - i)))
        \o pushInt(64) \o Opaque(pushAsymDict("DICTGET", "U", "") \o throwIfNot(1), 3, 1)
        \o pushDiffN(0, "PLDU", 256) \o setGlob(C7.TvmPubkey)
        \o pushInt(0) \o setGlob(C7.ReplayProtTime)
        \o Each(n, LAMBDA k : When(ct.vars[k].init # <<>>,
                                   Flat([i \in DOMAIN ct.vars[k].init |-> compileNewExpr(ct.vars[k].init[i])])
                                     \o setVariable(k)))
generateC4ToC7WithInitMemory(ct) ==
  pushRoot \o pushDiff(0, "CTOS") \o pushDiff(0, "SBITS") \o pushDiffN(0, "GTINT", 1)
    \o Continuation(pushMacro(generateC4ToC7(ct))) \o Continuation(initMemory(ct)) \o ifElse
updateOnlyTime ==
  pushRoot \o pushDiff(0, "CTOS") \o LDU(256) \o LDU(64) \o dropUnder(1, 1)
    \o getGlob(C7.ReplayProtTime, Whatever) \o rot \o pushDiff(1, "NEWC")
    \o pushDiffN(-1, "STU", 256) \o pushDiffN(-1, "STU", 64) \o pushDiff(-1, "STSLICE")
    \o pushDiff(0, "ENDC") \o popRoot

-----------------------------------------------------------------------------
(* Public functions.  A function f has an id, parameters ts, results rets, *)
(* a mutability, responsible, and body: the calls from the parameters to   *)
(* the results.  On entry the stack holds the selector of the transaction  *)
(* (-1 external, 0 internal), the arguments and the id.                    *)

checkCtorCalled == getGlob(C7.ConstructorFlag, Whatever) \o throwIfNot(1)
pushC4ToC7IfNeed(ct, mutability) ==
  When(mutability # "Pure",
       was_c4_to_c7_called \o fixStack(-1) \o Continuation(pushMacro(generateC4ToC7(ct))) \o _if)
\* Only functions that change the state write it; the time of an external message is
\* written anyway.
updC4IfItNeeds(ct, mutability) ==
  IF mutability = "NonPayable" THEN callMacro(generateC7ToT4Macro(ct))
  ELSE pushS(0)
         \o Continuation(pushMacro(IF ~afterSignatureCheck(ct) /\ hasTimeInAbiHeader(ct) /\ Len(ct.vars) >= 2
                                   THEN updateOnlyTime ELSE generateC7ToT4Macro(ct)))
         \o _if
headerBits(ct) == 1 + 512 + (IF ct.pubkey THEN 1 + 256 ELSE 0) + (IF hasTimeInAbiHeader(ct) THEN 64 ELSE 0)
                    + (IF ct.expire THEN 32 ELSE 0)
decodeFunctionParameters(ct, ts, isResponsible) ==
  LET id == 32 + (IF isResponsible THEN 32 ELSE 0) IN
  OpaqueReading(pushS(1) \o fixStack(-1)
                  \o Continuation(decodePublicFunctionParameters(ts, headerBits(ct) + id))
                  \o Continuation(decodePublicFunctionParameters(ts, id)) \o ifElse, 1, Len(ts))

returnParam(name) == getGlob(ReturnParams.Index, Whatever) \o index(ReturnParams[name])
\* An external caller gets an external message, the caller of a responsible function an
\* internal one.  The stack is locked: its size is the number of results.
emitOnPublicFunctionReturn(f) ==
  LET n == Len(f.rets)
      toExternal == pushS(n + 2) \o pushDiff(0, "CTOS") \o LDU(2) \o pushDiff(1, "LDMSGADDR") \o drop(1) \o popS(1)
                      \o sendMsg(ExtOutMsgInfo, {"dest"}, NoOptions, FALSE, <<>>,
                                 [size \in Nat |-> createMsgBodyAndAppendToBuilder(f.rets, <<>>, FALSE, size, FALSE)],
                                 DefaultFlag)
      toInternal == getGlob(ReturnParams.Index, Whatever)
                      \o pushS(0) \o index(ReturnParams.Currencies) \o pushS(1) \o index(ReturnParams.Value)
                      \o getGlob(SenderAddress, Whatever) \o blockSwap(1, 3) \o index(ReturnParams.Bounce)
                      \o sendMsg(IntMsgInfo, {"dest", "bounce", "tons", "currency"}, NoOptions, FALSE, <<>>,
                                 [size \in Nat |-> createMsgBodyAndAppendToBuilder(
                                                     f.rets, returnParam("CallbackFunctionId"), FALSE, size, FALSE)],
                                 returnParam("Flag"))
  IN  When(n > 0,
           Asserted(OpaqueReading(pushS(n) \o fixStack(-1)
                                    \o Continuation(toExternal \o fixStack(n))
                                    \o Continuation(IF f.responsible THEN toInternal ELSE drop(n))
                                    \o ifElse, n, 0), -n))

setCallbackFunctionId == Asserted(
  LDU(32) \o getGlob(ReturnParams.Index, Whatever) \o blockSwap(1, 2)
    \o setIndexQ(ReturnParams.CallbackFunctionId) \o setGlob(ReturnParams.Index), 0)
\* The body may use the selector that lies below its parameters.
callWithSelector(f) ==
  pushRefContAndCallX(functionOf(Len(f.ts), f.body, Len(f.ts), Len(f.rets), FALSE), Len(f.ts) + 1, Len(f.rets) + 1)
ensureSize(n, code) == code \o <<[Call0 EXCEPT !.m = "sizeis", !.n = n]>>
generatePublicFunction(ct, f) ==
  ensureSize(0,
    ensureSize(Len(f.rets),
      fixStack(2) \o drop(1) \o checkCtorCalled \o pushC4ToC7IfNeed(ct, f.mutability)
        \o When(f.responsible, setCallbackFunctionId)
        \o decodeFunctionParameters(ct, f.ts, f.responsible)
        \o callWithSelector(f))
    \o emitOnPublicFunctionReturn(f))
  \o updC4IfItNeeds(ct, f.mutability) \o throw0
\* A public state variable; it answers external messages only.
generateGetter(ct, i) ==
  LET t == ct.vars[i].t IN
  fixStack(2) \o drop(1) \o pushDiff(-1, "ENDS") \o callMacro(generateC4ToC7(ct)) \o variable(i, t)
    \o pushS(1)
    \o Continuation(fixStack(-1)
         \o sendMsg(ExtOutMsgInfo, {}, NoOptions, FALSE, <<>>,
                    [size \in Nat |-> createMsgBodyAndAppendToBuilder(<<t>>, <<>>, FALSE, size, FALSE)], DefaultFlag))
    \o _if \o throw0

(* Constructors.  A hierarchy h lists its contracts from derived to base   *)
(* (linearizedBaseContracts); each has the number of constructor           *)
(* parameters, or none, and the bases it gives arguments to, in the order  *)
(* of the source: [base, args].                                            *)

\* dfs: the path on which each contract is first met, and where its arguments come from
RECURSIVE dfs(_, _, _, _)
RECURSIVE dfsEach(_, _, _, _)
dfs(h, c, order, met) ==
  IF c \in DOMAIN met.path THEN met
  ELSE dfsEach(h, h[c].gives, Append(order, c), [met EXCEPT !.path = (c :> Append(order, c)) @@ @])
dfsEach(h, gives, order, met) ==
  IF gives = <<>> THEN met
  ELSE LET g == Head(gives)
       IN  dfsEach(h, Tail(gives), order,
                   dfs(h, g.base, order, [met EXCEPT !.args = (g.base :> g.args) @@ @]))
RECURSIVE dfsFrom(_, _, _)
dfsFrom(h, i, met) == IF i > Len(h) THEN met ELSE dfsFrom(h, i + 1, dfs(h, i, <<>>, met))
pathsOf(h) == dfsFrom(h, 1, [path |-> <<>>, args |-> <<>>])

\* The parameters of the bases on the way to c that are not on the stack yet.  An argument
\* is a constant or a parameter <<contract, i>> of the contract that gives it.
Declared(c, n) == [j \in 1 .. n |-> <<c, j>>]
positionIn(decls, d) == {p \in DOMAIN decls : decls[p] = d}
accessParam(decls, d) == IF positionIn(decls, d) = {} THEN solUnimplemented
                         ELSE pushLocal((CHOOSE p \in positionIn(decls, d) : TRUE) - 1)
argument(decls, a) == IF a.const THEN pushInt(a.n) ELSE accessParam(decls, a.param)
RECURSIVE pushConstructorArgs(_, _, _)
pushConstructorArgs(h, parents, st) ==
  IF parents = <<>> THEN st
  ELSE LET p == Head(parents) IN
       pushConstructorArgs(h, Tail(parents),
         IF p \in st.onStack THEN st
         ELSE [st EXCEPT !.onStack = @ \cup {p}, !.decls = @ \o Declared(p, h[p].params),
                         !.code = @ \o Each(h[p].params, LAMBDA j :
                                             argument(st.decls \o Declared(p, j - 1), st.met.args[p][j]))])
Decls == Seq(Nat \X Nat)
takeLast(decls, n) == SubSeq(decls, Len(decls) - n + 1, Len(decls))
\* body[c, decls]: the constructor of c, where the parameters decls are on the stack
RECURSIVE constructorsFrom(_, _, _, _)
constructorsFrom(h, c, body, st) ==
  IF c = 0 THEN st
  ELSE LET there == pushConstructorArgs(h, st.met.path[c], st)
           n == h[c].params
       IN  constructorsFrom(h, c - 1, body,
             IF ~h[c].ctor THEN st
             ELSE [there EXCEPT !.decls = SubSeq(@, 1, Len(@) - n),
                                !.code = @ \o functionOf(n, body[c, takeLast(there.decls, n)], n, 0, FALSE)])
\* path[c] is a sequence of contracts, the decls are their parameters from the bottom on.
inlineConstructors(h, body) ==
  constructorsFrom(h, Len(h), body,
    [met |-> pathsOf(h), code |-> <<>>, decls |-> Declared(1, h[1].params),
     onStack |-> {1} \cup {c \in DOMAIN h : h[c].params = 0}]).code
c4ToC7WithMemoryInitAndConstructorProtection(ct) ==
  was_c4_to_c7_called \o fixStack(-1) \o Continuation(pushMacro(generateC4ToC7WithInitMemory(ct))) \o _if
    \o getGlob(C7.ConstructorFlag, Whatever) \o throwIf(1)
generateConstructors(ct, h, ts, body) ==
  ensureSize(Len(ts),
    fixStack(2) \o drop(1) \o c4ToC7WithMemoryInitAndConstructorProtection(ct)
      \o IF ~h[1].ctor THEN pushDiff(-1, "ENDS") ELSE decodeFunctionParameters(ct, ts, FALSE))
    \o inlineConstructors(h, body)
    \o When(\A c \in DOMAIN h : ~h[c].ctor, push("ACCEPT"))
    \o callMacro(generateC7ToT4Macro(ct)) \o throw0

-----------------------------------------------------------------------------
(* Modifiers.  A function has argQty parameters and retQty results; a      *)
(* modifier has its arguments, the locals it declares before the only      *)
(* placeholder, and the globals from `out` on into which it copies them    *)
(* after it.  Before the function the parameters are brought above what    *)
(* the modifiers have on the stack, afterwards the results below it.       *)

checkMsgKind(f) ==
  CASE f.only = "external" -> pushBottom(5) \o pushDiffN(0, "EQINT", -1) \o throwIfNot(1)
    [] f.only = "internal" -> pushBottom(5) \o throwIf(1)
    [] OTHER -> <<>>
\* size: what the pusher believes when the modifiers from i on start
RECURSIVE withModifiers(_, _, _)
withModifiers(f, i, size) ==
  LET argQty == Len(f.ts)
      retQty == Len(f.rets)
  IN  IF i > Len(f.modifiers)
      THEN blockSwap(argQty, size - argQty) \o functionOf(argQty, f.body, argQty, retQty, FALSE)
             \o fixStack(argQty - retQty) \o blockSwap(size - argQty, retQty)
      ELSE LET mod == f.modifiers[i]
               own == mod.args \o mod.locals
           IN  Asserted(compileEach(own) \o withModifiers(f, i + 1, size + Len(own))
                          \o Each(Len(own), LAMBDA k : pushLocal(size + k - 1) \o setGlob(mod.out + k))
                          \o drop(Len(own)), 0)
visitFunctionWithModifiers(f) == checkMsgKind(f) \o withModifiers(f, 1, Len(f.ts))

-----------------------------------------------------------------------------
(* The selector: the ids in increasing order, four to a block.  Each       *)
(* function has its id and its code.                                       *)

pushOneFunction(f) ==
  pushS(0) \o pushInt(f.id) \o pushDiff(-1, "EQUAL") \o fixStack(-1)
    \o Continuation(functionOf(0, f.code, 0, 0, TRUE)) \o ifJmp
RECURSIVE blockSizeFor(_, _)
blockSizeFor(qty, size) == IF 4 * size >= qty THEN size ELSE blockSizeFor(qty, 4 * size)
RECURSIVE buildPublicFunctionSelector(_)
buildPublicFunctionSelector(fs) ==
  LET n == Len(fs)
      size == blockSizeFor(n, 1)
      blocks == (n + size - 1) \div size
      last(b) == Least(b * size, n)
      part(b) == SubSeq(fs, (b - 1) * size + 1, last(b))
  IN  IF n <= 4 THEN Each(n, LAMBDA i : pushOneFunction(fs[i]))
      ELSE Each(blocks, LAMBDA b :
             IF Len(part(b)) = 1 THEN pushOneFunction(part(b)[1])
             ELSE pushS(0) \o pushInt(fs[last(b)].id) \o pushDiff(-1, "LEQ")
                    \o Continuation(buildPublicFunctionSelector(part(b))) \o ifJmp)
getPublicFunctions(fs) == SortSeq(fs, LAMBDA f, g : f.id < g.id)
generatePublicFunctionSelector(fs) == buildPublicFunctionSelector(getPublicFunctions(fs))

-----------------------------------------------------------------------------
(* The mains.  The node puts five values on the stack: the balance, the    *)
(* value of the message, the message, its body and the selector of the     *)
(* transaction.                                                            *)

setGlobSenderAddressIfNeed(ct) ==
  When(ct.sender, pushValue(Address("zero")) \o setGlob(SenderAddress))
setCtorFlag == pushRoot \o pushDiff(0, "CTOS") \o pushDiff(0, "SBITS") \o pushDiffN(0, "NEQINT", 1)
                 \o setGlob(C7.ConstructorFlag)
setCopyleft(ct) == When(ct.copyleft, pushValue(Address("copyleft")) \o pushInt(1) \o pushDiff(-2, "COPYLEFT"))
\* Called where the values of the transaction lie below: they are read, though take is 0.
callEntry(code) == startContinuation \o functionOf(0, code, 0, 0, TRUE)
                     \o <<[Call0 EXCEPT !.m = "callx", !.yes = TRUE]>>
\* body functionId -> nothing, unless a function with the id is found
callPublicFunctionOrFallback(ct) ==
  callEntry(generatePublicFunctionSelector(ct.functions))
    \o IF ct.fallback # <<>> THEN drop(2) \o callEntry(ct.fallback[1]) ELSE _throw(0, TRUE)

pushMsgPubkey(ct) ==
  (IF ct.pubkey
   THEN exchange(1) \o LDU(1) \o exchange(1)
          \o Continuation(LDU(256) \o exchange(3) \o exchange(1))
          \o Continuation(exchange(2) \o getGlob(C7.TvmPubkey, Whatever)) \o ifElse
   ELSE rot \o getGlob(C7.TvmPubkey, Whatever))
    \o When(ct.msgPubkey, pushS(0) \o setGlob(C7.MsgPubkey))
checkSignatureAndReadPublicKey(ct) ==
  LDU(1) \o exchange(1)
    \o Continuation(pushInt(512) \o pushDiff(0, "LDSLICEX") \o pushS(0) \o pushDiff(0, "HASHSU")
                      \o pushMsgPubkey(ct) \o pushDiff(-2, "CHKSIGNU") \o throwIfNot(1))
    \o IF ct.pubkey THEN Continuation(LDU(1) \o exchange(1) \o throwIf(1)) \o ifElse ELSE _if
\* External: replay_protection_macro of the standard library.
replayProtection ==
  getGlob(C7.ReplayProtTime, Whatever) \o pushS(1) \o pushDiff(-1, "LESS") \o throwIfNot(1)
    \o pushS(0) \o pushDiff(1, "NOW") \o pushInt(1000) \o pushDiff(-1, "MUL")
    \o pushInt(ReplayProtectionInterval) \o pushDiff(-1, "ADD") \o pushDiff(-1, "LESS") \o throwIfNot(1)
    \o setGlob(C7.ReplayProtTime)
defaultReplayProtection == LDU(64) \o exchange(1) \o functionOf(1, replayProtection, 1, 0, FALSE)
expire == LDU(32) \o exchange(1) \o pushDiff(1, "NOW") \o pushDiff(-1, "GREATER") \o throwIfNot(1)
generateMainExternalForAbiV2(ct) ==
  setCopyleft(ct) \o setCtorFlag \o setGlobSenderAddressIfNeed(ct) \o pushS(1)
    \o callMacro(generateC4ToC7WithInitMemory(ct)) \o checkSignatureAndReadPublicKey(ct)
    \o (IF afterSignatureCheck(ct) THEN pushS(3) \o functionOf(2, ct.after[1], 2, 1, FALSE)
        ELSE defaultReplayProtection \o When(ct.expire, expire))
    \o LDU(32) \o exchange(1) \o callPublicFunctionOrFallback(ct)

callFallback(ct) ==
  IF ct.fallback # <<>>
  THEN Continuation(drop(1) \o callEntry(ct.fallback[1]) \o throw0) \o ifNot
  ELSE throwIfNot(1)
checkIfCtorCalled(ct, ifFlag) ==
  Continuation(checkCtorCalled) \o IF ifFlag THEN ifJmp ELSE ifNotJmp
\* ... body -> ... body functionId rest, unless the message has no function id
pushReceiveOrFallback(ct) ==
  LET readId == pushS(1) \o OpaqueReading(pushAsymN("LDUQ", 32) \o callFallback(ct), 1, 2) IN
  IF ct.receive # <<>>
  THEN pushS(1) \o pushDiff(0, "SEMPTY") \o pushS(0)
         \o Continuation(drop(1) \o readId \o pushS(1) \o pushDiffN(0, "EQINT", 0) \o pushS(0)
                           \o Continuation(dropUnder(2, 1)) \o _if) \o ifNot
         \o Continuation(functionOf(0, ct.receive[1], 0, 0, TRUE)) \o ifJmp
  ELSE pushS(1) \o pushDiff(0, "SEMPTY") \o checkIfCtorCalled(ct, TRUE)
         \o readId \o pushS(1) \o checkIfCtorCalled(ct, FALSE)
\* The defaults of the answer of a responsible function.
initReturnParams ==
  LET set(value, name) == value \o setIndexQ(ReturnParams[name]) IN
  getGlob(ReturnParams.Index, Whatever) \o set(pushDiff(1, "TRUE"), "Bounce") \o set(pushInt(DefaultMsgValue), "Value")
    \o set(pushNull, "Currencies") \o set(pushInt(0), "Flag") \o setGlob(ReturnParams.Index)
readSender(ct) == LDU(4) \o pushDiff(1, "LDMSGADDR") \o drop(1) \o setGlob(SenderAddress)
generateMainInternal(ct) ==
  setCopyleft(ct) \o setCtorFlag \o pushS(2) \o pushDiff(0, "CTOS")
    \o (IF ct.sender \/ ct.responsible THEN readSender(ct) ELSE pushDiffN(0, "PLDU", 4))
    \o pushDiffN(0, "MODPOW2", 1)
    \o When(ct.responsible, initReturnParams)
    \o (IF ct.onBounce # <<>>
        THEN Continuation(pushS(1) \o pushDiffN(1, "LDSLICE", 32) \o dropUnder(1, 1)
                           \o functionOf(0, ct.onBounce[1], 0, 0, TRUE)) \o ifJmp
        ELSE Continuation(<<>>) \o ifJmp)
    \o pushReceiveOrFallback(ct) \o exchange(1) \o callPublicFunctionOrFallback(ct)

(* receive, fallback, onBounce, onCodeUpgrade and onTickTock.              *)

generateReceiveOrFallbackOrOnBounce(ct, f) ==
  checkCtorCalled \o pushC4ToC7IfNeed(ct, f.mutability) \o fixStack(Len(f.ts))
    \o visitFunctionWithModifiers(f) \o updC4IfItNeeds(ct, f.mutability)
generateOnCodeUpgrade(ct, f) ==
  fixStack(Len(f.ts)) \o visitFunctionWithModifiers(f) \o callMacro(generateC7ToT4Macro(ct))
    \o push("COMMIT") \o throw0
\* -2 is hidden from the optimizer: take and ret are 0.
generateOnTickTock(ct, f) ==
  startOpaque \o pushInt(-2) \o <<[Call0 EXCEPT !.m = "endopaque", !.yes = TRUE]>> \o pushS(2)
    \o When(f.mutability # "Pure", callMacro(generateC4ToC7(ct)))
    \o setCopyleft(ct) \o setGlobSenderAddressIfNeed(ct) \o visitFunctionWithModifiers(f)
    \o When(f.mutability # "Pure", callMacro(generateC7ToT4Macro(ct)))
=============================================================================
