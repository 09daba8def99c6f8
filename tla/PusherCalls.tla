---------------------------- MODULE PusherCalls ----------------------------
(***************************************************************************)
(* The methods of class StackPusher (TVMPusher.cpp), the only interface    *)
(* through which the rest of the code generator emits code.  A routine of  *)
(* the generator is modelled as the sequence of calls it makes; the        *)
(* operators below build those sequences.                                  *)
(***************************************************************************)
EXTENDS SolTypes, Opcodes

NoDiff == 99
Call0 == [m |-> "", op |-> "", n |-> -1, ch |-> "", suf |-> "", diff |-> NoDiff,
          take |-> 0, ret |-> 0, v |-> <<>>, st |-> NOP, yes |-> FALSE]

-----------------------------------------------------------------------------
(* Opcodes.                                                                *)

push(op) == <<[Call0 EXCEPT !.m = "push", !.op = op]>>
pushN(op, n) == <<[Call0 EXCEPT !.m = "push", !.op = op, !.n = n]>>
pushDiff(d, op) == <<[Call0 EXCEPT !.m = "push", !.op = op, !.diff = d]>>
pushDiffN(d, op, n) == <<[Call0 EXCEPT !.m = "push", !.op = op, !.n = n, !.diff = d]>>
pushDict(d, op, ch, suf) ==
  <<[Call0 EXCEPT !.m = "push", !.op = op, !.ch = ch, !.suf = suf, !.diff = d]>>
pushInt(n) == pushDiffN(1, "PUSHINT", n)
pushNull == pushDiff(1, "NULL")
\* push(diff, ""): corrects the size without emitting anything
fixStack(d) == <<[Call0 EXCEPT !.m = "fix", !.diff = d]>>
\* STSLICECONST of n constant bits; id "0" (zeros), "1" (ones) or a name
stSliceConst(id, n) ==
  <<[Call0 EXCEPT !.m = "push", !.op = "STSLICECONST", !.n = n, !.ch = id, !.diff = 0]>>

\* solUnimplemented() and cast_error(): the compiler gives up
solUnimplemented == <<[Call0 EXCEPT !.m = "unimplemented"]>>

pushAsym(op) == <<[Call0 EXCEPT !.m = "asym", !.op = op]>>
pushAsymN(op, n) == <<[Call0 EXCEPT !.m = "asym", !.op = op, !.n = n]>>
pushAsymDict(op, ch, suf) ==
  <<[Call0 EXCEPT !.m = "asym", !.op = op, !.ch = ch, !.suf = suf]>>

(* Stack manipulation, tuples.                                             *)

stack(d, st) == <<[Call0 EXCEPT !.m = "stack", !.st = st, !.diff = d]>>
pushS(i) == stack(1, PUSH_S(i))
pushS2(i, j) == stack(2, PUSH2_S(i, j))
dup2 == pushS2(1, 0)
popS(i) == stack(-1, POP_S(i))
exchange(i) == stack(0, XCHG(0, i))
rot == stack(0, BLKSWAP(1, 2))
rotRev == stack(0, BLKSWAP(2, 1))
reverse(i, j) == stack(0, REVERSE(i, j))
drop(n) == IF n = 0 THEN <<>> ELSE stack(-n, DROP(n))
blockSwap(down, up) == IF down = 0 \/ up = 0 THEN <<>> ELSE stack(0, BLKSWAP(down, up))
dropUnder(dropped, left) ==
  IF dropped = 0 THEN <<>>
  ELSE IF left = 0 THEN drop(dropped)
  ELSE IF dropped = 1 /\ left = 1 THEN popS(1)
  ELSE stack(-dropped, BLKDROP2(dropped, left))

tuple(n) == IF n <= 15 THEN pushDiffN(1 - n, "TUPLE", n)
            ELSE pushInt(n) \o <<[Call0 EXCEPT !.m = "tuplevar", !.n = n]>>
untuple(n) == IF n <= 15 THEN pushDiffN(n - 1, "UNTUPLE", n)
              ELSE pushInt(n) \o <<[Call0 EXCEPT !.m = "untuplevar", !.n = n]>>
index(n) == pushDiffN(0, "INDEX_NOEXCEP", n)
indexWithExcep(n) == pushDiffN(0, "INDEX_EXCEP", n)
setIndex(n) == IF n <= 15 THEN pushDiffN(-1, "SETINDEX", n)
               ELSE pushInt(n) \o pushDiff(-2, "SETINDEXVAR")
setIndexQ(n) == IF n <= 15 THEN pushDiffN(-1, "SETINDEXQ", n)
                ELSE pushInt(n) \o pushDiff(-2, "SETINDEXVARQ")

\* A value pushed by one instruction (a constant cell or slice) or by the
\* code of a compiled subexpression.
pushValue(v) == <<[Call0 EXCEPT !.m = "value", !.v = <<v>>]>>
\* pushCall, execute and HardCode: the callee takes `take` values and leaves res.
pushCall(take, res) == <<[Call0 EXCEPT !.m = "call", !.take = take, !.v = res]>>
_throw(take, always) == <<[Call0 EXCEPT !.m = "throw", !.take = take, !.yes = always]>>
\* THROWIFNOT: take includes the condition
throwIfNot(take) == <<[Call0 EXCEPT !.m = "throwif", !.take = take, !.yes = FALSE]>>
throwIf(take) == <<[Call0 EXCEPT !.m = "throwif", !.take = take, !.yes = TRUE]>>
getGlob(i, v) == <<[Call0 EXCEPT !.m = "getglob", !.n = i, !.v = <<v>>]>>
setGlob(i) == <<[Call0 EXCEPT !.m = "setglob", !.n = i]>>

\* The local variable at position pos of the stack (TVMStack::getOffset), and tryAssignParam.
pushLocal(pos) == <<[Call0 EXCEPT !.m = "local", !.n = pos, !.diff = 1]>>
assignLocal(pos) == <<[Call0 EXCEPT !.m = "assignlocal", !.n = pos, !.diff = -1]>>

\* External: what the callee gets of a sent message: its body, from the function id on.
receive == <<[Call0 EXCEPT !.m = "receive", !.take = 1, !.ret = 1]>>
\* The message sent last is kept where the TVM keeps its actions.
C5 == 100
sent == getGlob(C5, Null)
\* c4, the data of the contract
C4 == 101
pushRoot == getGlob(C4, Cell(<<AnyField("c4")>>))
popRoot == setGlob(C4)
pushC7 == <<[Call0 EXCEPT !.m = "pushc7"]>>
popC7 == <<[Call0 EXCEPT !.m = "popc7"]>>
\* DEPTH, ADDCONST, PICK: the n-th value from the bottom of the stack
pushBottom(n) == <<[Call0 EXCEPT !.m = "bottom", !.n = n]>>
\* THROW 0 ends the transaction and keeps c4 and c5.
throw0 == <<[Call0 EXCEPT !.m = "exit"]>>

(* Code blocks and the instructions that consume them.                     *)

startContinuation == <<[Call0 EXCEPT !.m = "start"]>>
endContinuation == <<[Call0 EXCEPT !.m = "endcont"]>>
startOpaque == <<[Call0 EXCEPT !.m = "startopaque"]>>
endOpaque(take, ret) == <<[Call0 EXCEPT !.m = "endopaque", !.take = take, !.ret = ret]>>
endLogCircuit(isAnd) == <<[Call0 EXCEPT !.m = "endlog", !.yes = isAnd]>>
callX(take, ret) == <<[Call0 EXCEPT !.m = "callx", !.take = take, !.ret = ret]>>
ifElse == <<[Call0 EXCEPT !.m = "ifelse", !.op = ""]>>
pushConditional(ret) == <<[Call0 EXCEPT !.m = "ifelse", !.ret = ret]>>
_if == <<[Call0 EXCEPT !.m = "if", !.yes = TRUE]>>
ifNot == <<[Call0 EXCEPT !.m = "if", !.yes = FALSE]>>
ifJmp == <<[Call0 EXCEPT !.m = "ifjmp", !.yes = TRUE]>>
ifNotJmp == <<[Call0 EXCEPT !.m = "ifjmp", !.yes = FALSE]>>
_while == <<[Call0 EXCEPT !.m = "while"]>>
repeat == <<[Call0 EXCEPT !.m = "repeat"]>>
until == <<[Call0 EXCEPT !.m = "until"]>>

\* `const int saved = stackSize(); ...; solAssert(saved + d == stackSize())`
Asserted(code, d) == <<[Call0 EXCEPT !.m = "mark"]>> \o code
                       \o <<[Call0 EXCEPT !.m = "assert", !.diff = d]>>
\* the same with ensureSize(), which does nothing while the stack is locked
Ensured(code, d) == <<[Call0 EXCEPT !.m = "mark"]>> \o code
                      \o <<[Call0 EXCEPT !.m = "ensure", !.diff = d]>>

\* A function is emitted by a StackPusher of its own, which starts with n parameters.
\* Its call states take and ret; the mains and the code they call read what lies below.
functionOf(n, code, take, ret, reads) ==
  <<[Call0 EXCEPT !.m = "function", !.n = n]>> \o code
    \o <<[Call0 EXCEPT !.m = "endfunction", !.take = take, !.ret = ret, !.yes = reads]>>
\* External: a transaction runs code on the n values that the node puts on the stack.
transaction(n, code) == <<[Call0 EXCEPT !.m = "function", !.n = 0]>> \o code
                          \o <<[Call0 EXCEPT !.m = "endtransaction", !.take = n]>>

pushRefContAndCallX(code, take, ret) == startContinuation \o code \o callX(take, ret)
pushMacroCallInCallRef(take, res) == pushRefContAndCallX(pushCall(take, res), take, Len(res))
Opaque(code, take, ret) == startOpaque \o code \o endOpaque(take, ret)
\* Opaque code that looks below the values it declares
OpaqueReading(code, take, ret) ==
  startOpaque \o code \o <<[Call0 EXCEPT !.m = "endopaque", !.take = take, !.ret = ret, !.yes = TRUE]>>
Continuation(code) == startContinuation \o code \o endContinuation

RECURSIVE Flat(_)
Flat(ss) == IF ss = <<>> THEN <<>> ELSE Head(ss) \o Flat(Tail(ss))
Each(n, f(_)) == Flat([i \in 1 .. n |-> f(i)])

\* The size change of one call while the stack is not locked.
Effect(c) ==
  CASE c.m = "push" -> gen(c.op, c.n)[2] - gen(c.op, c.n)[1]
    [] c.m \in {"fix", "stack", "local", "assignlocal"} -> c.diff
    [] c.m \in {"value", "getglob", "pushc7", "bottom"} -> 1
    [] c.m \in {"setglob", "popc7"} -> -1
    [] c.m = "call" -> Len(c.v) - c.take
    [] c.m \in {"throw", "throwif"} -> -c.take
    [] c.m = "tuplevar" -> -c.n
    [] c.m = "untuplevar" -> c.n - 2
    [] c.m \in {"ifelse", "endopaque"} -> c.ret - c.take
    [] OTHER -> 0

\* What stackSize() grows by over a sequence of calls.
RECURSIVE Grow(_, _)
Grow(cs, lock) ==
  IF cs = <<>> THEN 0
  ELSE LET l == CASE Head(cs).m = "startopaque" -> lock + 1
                  [] Head(cs).m = "endopaque" -> lock - 1
                  [] OTHER -> lock
       IN  (IF l = 0 THEN Effect(Head(cs)) ELSE 0) + Grow(Tail(cs), l)
=============================================================================
