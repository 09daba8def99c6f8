------------------------------ MODULE TvmNodes ------------------------------
(***************************************************************************)
(* The instructions that the optimizers of the generated code rewrite: the *)
(* nodes of TvmAst.hpp, their constructors, recognisers and equality       *)
(* (TvmAst.cpp), and the constant slices with their conversions            *)
(* (StrUtils of TVMCommons.cpp).                                           *)
(*                                                                         *)
(* A node is one record.  c is its class, op its opcode, a, b and k its    *)
(* numbers, s its slice, st its stack operation, t and f its blocks, of    *)
(* types ty and fy ("": there is no such block); no and jmp are flags.     *)
(***************************************************************************)
EXTENDS TvmStack, Opcodes, Sequences, SequencesExt, FiniteSetsExt

CONSTANTS IntBits,               \* 256: the bits of an integer without its sign
          CellBitLength,         \* 1023
          MaxPushSliceBitLength, \* 997
          MaxSTSLICECONST        \* 56

NoArg == 9999
NoSlice == [n |-> <<>>, tag |-> "none"]
Node0 == [c |-> "", op |-> "", a |-> NoArg, b |-> NoArg, k |-> NoArg, s |-> NoSlice, st |-> NOP,
          t |-> <<>>, f |-> <<>>, ty |-> "", fy |-> "", no |-> FALSE, jmp |-> FALSE]

-----------------------------------------------------------------------------
(* Constant slices.  A slice is printed in hexadecimal digits; when its    *)
(* length is not a multiple of four, a one and zeros complete it and "_"   *)
(* follows.  STSLICECONST also takes the digits 0 and 1, one bit each.     *)

\* The bitlen low bits of a number, the highest first.
toBits(value, bitlen) ==
  LET v == IF value < 0 THEN 2 ^ bitlen + value ELSE value
  IN  [i \in 1 .. bitlen |-> IF (v \div 2 ^ (bitlen - i)) % 2 = 0 THEN 0 ELSE 1]

binaryStringToSlice(bits) ==
  LET tag == Len(bits) % 4 # 0
      s0 == IF tag THEN Append(bits, 1) ELSE bits
      s == s0 \o [i \in 1 .. ((4 - (Len(s0) % 4)) % 4) |-> 0]
  IN  [n |-> [i \in 1 .. (Len(s) \div 4) |->
               8 * s[4 * i - 3] + 4 * s[4 * i - 2] + 2 * s[4 * i - 1] + s[4 * i]],
       tag |-> IF tag THEN "_" ELSE ""]

\* The bits of the digit before "_": those above its lowest one.
completed(digit) == CHOOSE bits \in UNION {[1 .. n -> {0, 1}] : n \in 0 .. 3} :
                      toBits(digit, 4) = bits \o <<1>> \o [i \in 1 .. (3 - Len(bits)) |-> 0]
toBitString(slice) ==
  IF slice.tag = "bit" THEN slice.n
  ELSE LET last == Len(slice.n)
           whole == IF slice.tag = "_" THEN last - 1 ELSE last
       IN  FlattenSeq([i \in 1 .. whole |-> toBits(slice.n[i], 4)])
             \o (IF slice.tag = "_" THEN completed(slice.n[last]) ELSE <<>>)

toBigint(bits) == FoldLeft(LAMBDA v, bit : 2 * v + bit, 0, bits)
toBinLength(num) == IF num = 0 THEN 0 ELSE CHOOSE n \in 1 .. 31 : 2 ^ (n - 1) <= num /\ num < 2 ^ n

fitsAlways(bits) == TRUE
\* unitBitStringToHex of two strings: nothing when they do not fit a cell
fitsCell(bits) == Len(bits) <= CellBitLength

-----------------------------------------------------------------------------
(* Constructors.                                                           *)

gen1(op) == [Node0 EXCEPT !.c = "Gen", !.op = op]
genN(op, n) == [gen1(op) EXCEPT !.a = n]
genS(op, slice) == [gen1(op) EXCEPT !.s = slice]
PUSHINT(n) == genN("PUSHINT", n)
\* PUSHINT $name$: the number is known to the linker only.
PUSHSYM == [gen1("PUSHINT") EXCEPT !.no = TRUE]
St(op) == [Node0 EXCEPT !.c = "Stack", !.st = op]
PushSlice(op, slice) == [Node0 EXCEPT !.c = "Slice", !.op = op, !.s = slice]
genPushSlice(bits) ==
  PushSlice(IF Len(bits) <= MaxPushSliceBitLength THEN "PUSHSLICE" ELSE "PUSHREFSLICE", binaryStringToSlice(bits))
makePUSHREF(slice) == PushSlice("PUSHREF", slice)
Exc(op, code) == [Node0 EXCEPT !.c = "Exc", !.op = op, !.a = code]
Ret(op) == [Node0 EXCEPT !.c = "Ret", !.op = op]
Asym(op) == [Node0 EXCEPT !.c = "Asym", !.op = op]
Glob(op, i) == [Node0 EXCEPT !.c = "Glob", !.op = op, !.a = i]
Loc(line) == [Node0 EXCEPT !.c = "Loc", !.a = line]
\* TvmIfElse without and with a false body; a is ret()
If1(no, jmp, t, ty) == [Node0 EXCEPT !.c = "If", !.no = no, !.jmp = jmp, !.t = t, !.ty = ty, !.a = 0]
IfElse(jmp, t, ty, f, fy, ret) ==
  [Node0 EXCEPT !.c = "If", !.jmp = jmp, !.t = t, !.ty = ty, !.f = f, !.fy = fy, !.a = ret]
SubProgram(jmp, t, ty) == [Node0 EXCEPT !.c = "Sub", !.jmp = jmp, !.t = t, !.ty = ty, !.a = 0, !.b = 0]
\* no: the loop is infinite; jmp: it may be left by a break or return
While(infinite, brk, cond, body) ==
  [Node0 EXCEPT !.c = "While", !.no = infinite, !.jmp = brk, !.t = cond, !.ty = "PUSHCONT", !.f = body, !.fy = "PUSHCONT"]
LogCircuit(op, body) == [Node0 EXCEPT !.c = "Log", !.op = op, !.t = body, !.ty = "None"]
Opaque(take, ret, pure, body) ==
  [Node0 EXCEPT !.c = "Opaque", !.a = take, !.b = ret, !.no = pure, !.t = body, !.ty = "None"]
ReturnOrBreakOrCont(take, body) == [Node0 EXCEPT !.c = "RBC", !.a = take, !.t = body, !.ty = "None"]

\* NULL/ZERO under the flag (SWAP) or under the value below it (ROTR)
getZeroOrNullAlignment(isZero, isSwap, isNot) ==
  Asym(CASE isZero /\ isSwap -> IF isNot THEN "ZEROSWAPIFNOT" ELSE "ZEROSWAPIF"
         [] isZero /\ ~isSwap -> IF isNot THEN "ZEROROTRIFNOT" ELSE "ZEROROTRIF"
         [] ~isZero /\ isSwap -> IF isNot THEN "NULLSWAPIFNOT" ELSE "NULLSWAPIF"
         [] ~isZero /\ ~isSwap -> IF isNot THEN "NULLROTRIFNOT" ELSE "NULLROTRIF")

flipIfElse(n) == IF n.fy = "" THEN [n EXCEPT !.no = ~@]
                 ELSE [n EXCEPT !.t = n.f, !.ty = n.fy, !.f = n.t, !.fy = n.ty]

-----------------------------------------------------------------------------
(* Recognisers.  Where the code returns an empty optional the result is    *)
(* None (or 0, as in TvmStack).                                            *)

None == -1
NoPair == <<0, 0>>
is(n, ops) == n.c = "Gen" /\ n.op \in ops
full(n) == IF n.c = "Gen" THEN <<n.op, n.a>> ELSE <<"", NoArg>>
isExc(n, ops) == n.c = "Exc" /\ n.op \in ops
isPUSHINT(n) == is(n, {"PUSHINT"}) /\ ~n.no
isConstAdd(n) == is(n, {"INC", "DEC", "ADDCONST"})
getAddNum(n) == IF n.op = "INC" THEN 1 ELSE IF n.op = "DEC" THEN -1 ELSE n.a
isCommutative(n) == is(n, {"ADD", "AND", "EQUAL", "MAX", "MIN", "MUL", "NEQ", "OR", "SDEQ", "XOR"})
isPlainPushSlice(n) == n.c = "Slice" /\ n.ty = ""

Drop(n) == isDrop(n.st)
Pops(n) == isPOP(n.st)
Swaps(n) == isSWAP(n.st)
isBLKSWAP(n) == IF n.st.opcode = "BLKSWAP" THEN <<n.st.i, n.st.j>>
                ELSE IF n.st \in {XCHG(0, 1), REVERSE(2, 0)} THEN <<1, 1>> ELSE NoPair
isBLKPUSH(n) == IF n.st.opcode = "BLKPUSH" THEN <<n.st.i, n.st.j>>
                ELSE IF n.st = PUSH_S(0) THEN <<1, 0>> ELSE NoPair
isREVERSE(n) == IF n.st.opcode = "REVERSE" THEN <<n.st.i, n.st.j>>
                ELSE IF n.st \in {BLKSWAP(1, 1), XCHG(0, 1)} THEN <<2, 0>>
                ELSE IF n.st = XCHG(0, 2) THEN <<3, 0>> ELSE NoPair
isXCHG_S0(n) == IF n.st.opcode = "XCHG" /\ n.st.i = 0 THEN n.st.j
                ELSE IF n.st \in {BLKSWAP(1, 1), REVERSE(2, 0)} THEN 1
                ELSE IF n.st = REVERSE(3, 0) THEN 2 ELSE 0
isBLKDROP2(n) == IF n.st.opcode = "BLKDROP2" THEN <<n.st.i, n.st.j>>
                 ELSE IF n.st = POP_S(1) THEN <<1, 1>> ELSE NoPair
isPUSH(n) == IF n.st.opcode = "PUSH_S" THEN n.st.i
             ELSE IF n.st.opcode = "BLKPUSH" /\ n.st.i = 1 THEN n.st.j ELSE None

\* The opcodes that gen() declares pure.
PureOps == (gen01 \ {"RANDU256"}) \cup
  {"BBITS", "BITSIZE", "BREFS", "BREMBITS", "BREMREFS", "DICTEMPTY", "EQINT", "GTINT", "HASHCU",
   "HASHSU", "INDEX_NOEXCEP", "ISNEG", "ISNNEG", "ISNPOS", "ISNULL", "ISPOS", "ISZERO", "LESSINT",
   "NEQINT", "NOT", "SBITS", "SDEMPTY", "SEMPTY", "SGN", "SHA256U", "SREFS", "BBITREFS",
   "BREMBITREFS", "SBITREFS", "AND", "CMP", "EQUAL", "GEQ", "GREATER", "LEQ", "LESS", "MAX",
   "MIN", "NEQ", "OR", "SCHKBITSQ", "SCHKREFSQ", "SDEQ", "XOR", "MINMAX"}
takeRet(n) == CASE n.c = "Gen" -> gen(n.op, IF n.a = NoArg THEN -1 ELSE n.a)
                [] n.c = "Slice" -> <<0, 1>>
                [] n.c = "Glob" -> IF n.op = "GET" THEN <<0, 1>> ELSE <<1, 0>>
                [] n.c \in {"Opaque", "Sub"} -> <<n.a, n.b>>
                [] OTHER -> <<-1, -1>>
isPure(n) == CASE n.c = "Gen" -> n.op \in PureOps
               [] n.c = "Slice" -> TRUE
               [] n.c = "Glob" -> n.op = "GET"
               [] n.c = "Opaque" -> n.no
               [] OTHER -> FALSE
isPureGen01(n) == isPure(n) /\ takeRet(n) = <<0, 1>>
isSimpleCommand(n) == n.c \in {"Gen", "Slice", "Glob", "Opaque"} /\ takeRet(n) = <<0, 1>>

Live(code) == SelectSeq(code, LAMBDA n : n.c # "Loc")

\* operator== of the nodes; the loops and TvmIfElse are equal to nothing.
RECURSIVE Same(_, _)
Same(x, y) ==
  /\ x.c = y.c /\ x.c \notin {"If", "While"}
  /\ \/ [x EXCEPT !.t = <<>>] = [y EXCEPT !.t = <<>>]
     \/ {full(x), full(y)} = {<<"TRUE", NoArg>>, <<"PUSHINT", -1>>}
     \/ {full(x), full(y)} = {<<"FALSE", NoArg>>, <<"PUSHINT", 0>>}
  /\ Len(x.t) = Len(y.t)
  /\ \A i \in DOMAIN x.t : Same(x.t[i], y.t[i])

\* A jump or return among the instructions, not looking into the blocks of an IF or a loop.
RECURSIVE hasRetOrJmp(_)
hasRetOrJmp(n) == \/ n.c \in {"RBC", "Ret"}
                  \/ n.c \in {"Sub", "If"} /\ n.jmp
                  \/ n.c = "Opaque" /\ \E i \in DOMAIN n.t : hasRetOrJmp(n.t[i])
=============================================================================
