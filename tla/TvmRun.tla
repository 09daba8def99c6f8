------------------------------- MODULE TvmRun -------------------------------
(***************************************************************************)
(* External: what the TVM does when it executes the instructions of        *)
(* TvmNodes, and the assembler mnemonics that Printer writes for them.     *)
(* Integers have IntBits bits and a sign, cells CellBitLength bits.        *)
(*                                                                         *)
(* A run has an outcome o: "end" (past the last instruction), "ret", "alt" *)
(* (RETALT), "throw" (e is the exception code) or "loop" (Fuel iterations  *)
(* of a loop were not enough), a stack, top first, and global variables.   *)
(***************************************************************************)
EXTENDS TvmNodes, Bitwise

CONSTANTS Fuel, Globals, SymbolValue

Value(k, n, s, r) == [k |-> k, n |-> n, s |-> s, r |-> r]
Num(n) == Value("int", n, <<>>, <<>>)
NullValue == Value("null", 0, <<>>, <<>>)
Truth(b) == Num(IF b THEN -1 ELSE 0)
TupleVal(vs) == Value("tuple", 0, <<>>, vs)
SliceOf(bits, refs) == Value("slice", 0, bits, refs)
BuilderOf(bits, refs) == Value("builder", 0, bits, refs)
CellOf(bits, refs) == Value("cell", 0, bits, refs)
\* A value of no particular type
Thing(n) == Value("thing", n, <<>>, <<>>)

Overflow == 4
RangeCheck == 5
TypeCheck == 7
CellOverflow == 8
CellUnderflow == 9
InvalidOpcode == 6

Machine(stk, glob) == [o |-> "end", e |-> 0, stk |-> stk, glob |-> glob]
Throws(m, code) == [m EXCEPT !.o = "throw", !.e = code, !.stk = <<>>]
Push(m, take, vs) == [m EXCEPT !.stk = vs \o SubSeq(@, take + 1, Len(@))]
InRange(n) == - 2 ^ IntBits <= n /\ n < 2 ^ IntBits
PushNum(m, take, n) == IF InRange(n) THEN Push(m, take, <<Num(n)>>) ELSE Throws(m, Overflow)

-----------------------------------------------------------------------------
(* Arithmetic.                                                             *)

Unsigned(n) == n % 2 ^ (IntBits + 1)
Signed(n) == IF n >= 2 ^ IntBits THEN n - 2 ^ (IntBits + 1) ELSE n
FloorDiv(a, b) == IF b > 0 THEN a \div b ELSE (-a) \div (-b)
\* x is below y on the stack
Binary(op, x, y) ==
  CASE op = "ADD" -> x + y [] op = "SUB" -> x - y [] op = "SUBR" -> y - x [] op = "MUL" -> x * y
    [] op = "DIV" -> FloorDiv(x, y) [] op = "MOD" -> x - y * FloorDiv(x, y)
    [] op = "MIN" -> Min({x, y}) [] op = "MAX" -> Max({x, y})
    [] op = "AND" -> Signed(Unsigned(x) & Unsigned(y)) [] op = "OR" -> Signed(Unsigned(x) | Unsigned(y))
    [] op = "XOR" -> Signed(Unsigned(x) ^^ Unsigned(y))
    [] op = "LSHIFT" -> x * 2 ^ y [] op = "RSHIFT" -> x \div 2 ^ y
    [] OTHER -> LET holds == CASE op = "EQUAL" -> x = y [] op = "NEQ" -> x # y [] op = "GREATER" -> x > y
                               [] op = "LESS" -> x < y [] op = "GEQ" -> x >= y [] OTHER -> x <= y
                IN  IF holds THEN -1 ELSE 0
BinaryOps == {"ADD", "SUB", "SUBR", "MUL", "DIV", "MOD", "MIN", "MAX", "AND", "OR", "XOR",
              "EQUAL", "NEQ", "GREATER", "LESS", "GEQ", "LEQ"}
Unary(op, a, x) ==
  CASE op = "INC" -> x + 1 [] op = "DEC" -> x - 1 [] op = "NEGATE" -> -x [] op = "ABS" -> Max({x, -x})
    [] op = "NOT" -> -x - 1 [] op = "ADDCONST" -> x + a [] op = "MULCONST" -> x * a
    [] op = "LSHIFT" -> x * 2 ^ a [] op = "RSHIFT" -> x \div 2 ^ a [] op = "MODPOW2" -> x % 2 ^ a
    [] op = "EQINT" -> IF x = a THEN -1 ELSE 0 [] op = "NEQINT" -> IF x # a THEN -1 ELSE 0
    [] op = "GTINT" -> IF x > a THEN -1 ELSE 0 [] op = "LESSINT" -> IF x < a THEN -1 ELSE 0
    [] op = "UFITS" -> IF 0 <= x /\ x < 2 ^ a THEN x ELSE 2 ^ (IntBits + 1)
    [] op = "FITS" -> IF - 2 ^ (a - 1) <= x /\ x < 2 ^ (a - 1) THEN x ELSE 2 ^ (IntBits + 1)
    [] OTHER -> x
UnaryOps == {"INC", "DEC", "NEGATE", "ABS", "NOT", "ADDCONST", "MULCONST", "LSHIFT", "RSHIFT", "MODPOW2",
             "EQINT", "NEQINT", "GTINT", "LESSINT", "UFITS", "FITS"}

(* Builders, slices, tuples.                                               *)

Store(m, take, b, bits, refs) ==
  IF b.k # "builder" THEN Throws(m, TypeCheck)
  ELSE IF Len(b.s) + Len(bits) > CellBitLength \/ Len(b.r) + Len(refs) > 4 THEN Throws(m, CellOverflow)
  ELSE Push(m, take, <<BuilderOf(b.s \o bits, b.r \o refs)>>)
StoreInt(m, b, x, n, signed) ==
  IF x.k # "int" THEN Throws(m, TypeCheck)
  ELSE IF n \notin 1 .. IntBits + (IF signed THEN 1 ELSE 0) THEN Throws(m, InvalidOpcode)
  ELSE IF signed /\ ~(- 2 ^ (n - 1) <= x.n /\ x.n < 2 ^ (n - 1)) THEN Throws(m, RangeCheck)
  ELSE IF ~signed /\ ~(0 <= x.n /\ x.n < 2 ^ n) THEN Throws(m, RangeCheck)
  ELSE Store(m, 2, b, toBits(x.n, n), <<>>)
\* The value v stored by ST* into the builder b
StoreValue(m, n, b, v) ==
  CASE n.op \in {"STU", "STUR"} -> StoreInt(m, b, v, n.a, FALSE)
    [] n.op \in {"STI", "STIR"} -> StoreInt(m, b, v, n.a, TRUE)
    [] n.op \in {"STSLICE", "STSLICER"} -> IF v.k = "slice" THEN Store(m, 2, b, v.s, v.r) ELSE Throws(m, TypeCheck)
    [] n.op \in {"STREF", "STREFR"} -> IF v.k = "cell" THEN Store(m, 2, b, <<>>, <<v>>) ELSE Throws(m, TypeCheck)
    [] n.op \in {"STB", "STBR"} -> IF v.k = "builder" THEN Store(m, 2, b, v.s, v.r) ELSE Throws(m, TypeCheck)
    [] OTHER -> IF v.k = "builder" THEN Store(m, 2, b, <<>>, <<CellOf(v.s, v.r)>>) ELSE Throws(m, TypeCheck)
StoreOps == {"STU", "STI", "STSLICE", "STREF", "STB", "STBREF"}
StoreOpsR == {"STUR", "STIR", "STSLICER", "STREFR", "STBR", "STBREFR"}

FromBits(bits, signed) == LET n == toBigint(bits)
                          IN  IF signed /\ bits # <<>> /\ bits[1] = 1 THEN n - 2 ^ Len(bits) ELSE n
\* LDU, LDI and their forms that keep only the number
Load(m, take, sl, n, signed, keep) ==
  IF sl.k # "slice" THEN Throws(m, TypeCheck)
  ELSE IF Len(sl.s) < n THEN Throws(m, CellUnderflow)
  ELSE Push(m, take, (IF keep THEN <<SliceOf(SubSeq(sl.s, n + 1, Len(sl.s)), sl.r)>> ELSE <<>>)
                       \o <<Num(FromBits(SubSeq(sl.s, 1, n), signed))>>)
LoadRef(m, sl, keep) ==
  IF sl.k # "slice" THEN Throws(m, TypeCheck)
  ELSE IF sl.r = <<>> THEN Throws(m, CellUnderflow)
  ELSE Push(m, 1, (IF keep THEN <<SliceOf(sl.s, Tail(sl.r))>> ELSE <<>>) \o <<sl.r[1]>>)

Picked(m, v, i) == IF v.k # "tuple" THEN Throws(m, TypeCheck)
                   ELSE IF i + 1 \notin DOMAIN v.r THEN Throws(m, RangeCheck) ELSE Push(m, 1, <<v.r[i + 1]>>)

-----------------------------------------------------------------------------
(* One instruction without blocks.                                         *)

RECURSIVE BlockOf(_)
\* The contents of a constant cell or slice
BlockOf(n) == [s |-> toBitString(n.s), r |-> IF n.ty = "" THEN <<>> ELSE <<CellOf(BlockOf(n.t[1]).s, BlockOf(n.t[1]).r)>>]

Gen1(m, n) ==
  LET x == m.stk[1]
      y == m.stk[2]
      ints(k) == \A i \in 1 .. k : m.stk[i].k = "int"
  IN  CASE n.op = "PUSHINT" -> IF n.no THEN Push(m, 0, <<Num(SymbolValue)>>)
                               ELSE IF InRange(n.a) THEN Push(m, 0, <<Num(n.a)>>) ELSE Throws(m, InvalidOpcode)
        [] n.op = "TRUE" -> Push(m, 0, <<Num(-1)>>)
        [] n.op = "FALSE" -> Push(m, 0, <<Num(0)>>)
        [] n.op = "NULL" -> Push(m, 0, <<NullValue>>)
        [] n.op = "ISNULL" -> Push(m, 1, <<Truth(x = NullValue)>>)
        [] n.op = "CONDSEL" -> IF m.stk[3].k # "int" THEN Throws(m, TypeCheck)
                               ELSE Push(m, 3, <<IF m.stk[3].n # 0 THEN y ELSE x>>)
        [] n.op = "MULRSHIFT" /\ n.a = NoArg ->
             IF ~ints(3) THEN Throws(m, TypeCheck)
             ELSE IF x.n \notin 0 .. IntBits THEN Throws(m, RangeCheck)
             ELSE PushNum(m, 3, (m.stk[3].n * y.n) \div 2 ^ x.n)
        [] n.op = "MULRSHIFT" /\ n.a # NoArg ->
             IF ints(2) THEN PushNum(m, 2, (x.n * y.n) \div 2 ^ n.a) ELSE Throws(m, TypeCheck)
        [] n.op \in {"LSHIFT", "RSHIFT"} /\ n.a = NoArg ->
             IF ~ints(2) THEN Throws(m, TypeCheck)
             ELSE IF x.n \notin 0 .. IntBits THEN Throws(m, RangeCheck) ELSE PushNum(m, 2, Binary(n.op, y.n, x.n))
        [] n.op \in UnaryOps -> IF ints(1) THEN PushNum(m, 1, Unary(n.op, n.a, x.n)) ELSE Throws(m, TypeCheck)
        [] n.op \in {"DIV", "MOD"} /\ x = Num(0) -> Throws(m, Overflow)
        [] n.op \in BinaryOps -> IF ints(2) THEN PushNum(m, 2, Binary(n.op, y.n, x.n)) ELSE Throws(m, TypeCheck)
        [] n.op = "TUPLE" -> Push(m, n.a, <<TupleVal(Reverse(SubSeq(m.stk, 1, n.a)))>>)
        [] n.op = "UNTUPLE" -> IF x.k # "tuple" \/ Len(x.r) # n.a THEN Throws(m, TypeCheck) ELSE Push(m, 1, Reverse(x.r))
        [] n.op \in {"INDEX_NOEXCEP", "INDEX_EXCEP"} -> Picked(m, x, n.a)
        [] n.op = "INDEX2" -> LET m1 == Picked(m, x, n.a) IN IF m1.o # "end" THEN m1 ELSE Picked(m1, m1.stk[1], n.b)
        [] n.op = "INDEX3" -> LET m1 == Picked(m, x, n.a)
                                  m2 == IF m1.o # "end" THEN m1 ELSE Picked(m1, m1.stk[1], n.b)
                              IN  IF m2.o # "end" THEN m2 ELSE Picked(m2, m2.stk[1], n.k)
        [] n.op = "NEWC" -> Push(m, 0, <<BuilderOf(<<>>, <<>>)>>)
        [] n.op = "ENDC" -> IF x.k = "builder" THEN Push(m, 1, <<CellOf(x.s, x.r)>>) ELSE Throws(m, TypeCheck)
        [] n.op = "STZERO" -> Store(m, 1, x, <<0>>, <<>>)
        [] n.op = "STONE" -> Store(m, 1, x, <<1>>, <<>>)
        [] n.op = "STSLICECONST" -> Store(m, 1, x, toBitString(n.s), <<>>)
        [] n.op = "STZEROES" -> IF x.k # "int" THEN Throws(m, TypeCheck) ELSE Store(m, 2, y, [i \in 1 .. x.n |-> 0], <<>>)
        [] n.op \in StoreOps -> StoreValue(m, n, x, y)
        [] n.op \in StoreOpsR -> StoreValue(m, n, y, x)
        [] n.op \in {"LDU", "PLDU"} -> Load(m, 1, x, n.a, FALSE, n.op = "LDU")
        [] n.op \in {"LDI", "PLDI"} -> Load(m, 1, x, n.a, TRUE, n.op = "LDI")
        [] n.op \in {"LDUX", "PLDUX"} -> Load(m, 2, y, x.n, FALSE, n.op = "LDUX")
        [] n.op \in {"LDIX", "PLDIX"} -> Load(m, 2, y, x.n, TRUE, n.op = "LDIX")
        [] n.op \in {"LDREF", "PLDREF"} -> LoadRef(m, x, n.op = "LDREF")
        [] OTHER -> Throws(m, InvalidOpcode)

StackStep(m, op) ==
  IF Len(m.stk) < Need(op) THEN Throws(m, 2)
  ELSE [m EXCEPT !.stk = [i \in 1 .. (Len(m.stk) + Delta(op)) |-> m.stk[Src(op, i - 1) + 1]]]

\* NULLSWAPIF and its kin: the top is an integer; a value is put under it or under the next one.
AsymStep(m, op) ==
  LET x == m.stk[1]
      filler == IF op \in {"ZEROSWAPIF", "ZEROSWAPIFNOT", "ZEROROTRIF", "ZEROROTRIFNOT"} THEN Num(0) ELSE NullValue
      negated == op \in {"ZEROSWAPIFNOT", "ZEROROTRIFNOT", "NULLSWAPIFNOT", "NULLROTRIFNOT"}
      deep == op \in {"ZEROROTRIF", "ZEROROTRIFNOT", "NULLROTRIF", "NULLROTRIFNOT"}
  IN  IF x.k # "int" THEN Throws(m, TypeCheck)
      ELSE IF (x.n # 0) = negated THEN m
      ELSE IF deep THEN Push(m, 2, <<x, m.stk[2], filler>>) ELSE Push(m, 1, <<x, filler>>)

ExcStep(m, n) ==
  IF n.op = "THROW" THEN Throws(m, n.a)
  ELSE IF n.op = "THROWANY" THEN Throws(m, m.stk[1].n)
  ELSE LET m1 == Push(m, 1, <<>>)
       IN  IF m.stk[1].k # "int" THEN Throws(m, TypeCheck)
           ELSE IF (m.stk[1].n # 0) = (n.op = "THROWIF") THEN Throws(m, n.a) ELSE m1

RetStep(m, n) ==
  LET alt == n.op \in {"RETALT", "IFRETALT", "IFNOTRETALT"}
      leave(m1) == [m1 EXCEPT !.o = IF alt THEN "alt" ELSE "ret"]
      m2 == Push(m, 1, <<>>)
  IN  IF n.op \in {"RET", "RETALT"} THEN leave(m)
      ELSE IF m.stk[1].k # "int" THEN Throws(m, TypeCheck)
      ELSE IF (m.stk[1].n # 0) = (n.op \in {"IFRET", "IFRETALT"}) THEN leave(m2) ELSE m2

GlobStep(m, n) == IF n.op = "GET" THEN Push(m, 0, <<m.glob[n.a]>>)
                  ELSE [Push(m, 1, <<>>) EXCEPT !.glob[n.a] = m.stk[1]]

-----------------------------------------------------------------------------
(* Assembler: the mnemonics and the operands their encodings have room     *)
(* for.                                                                    *)

Mnemonics == [DUP |-> PUSH_S(0), OVER |-> PUSH_S(1), SWAP |-> XCHG(0, 1), DROP |-> DROP(1), DROP2 |-> DROP(2),
              DUP2 |-> PUSH2_S(1, 0), OVER2 |-> PUSH2_S(3, 2), NIP |-> POP_S(1), ROT |-> BLKSWAP(1, 2),
              ROTREV |-> BLKSWAP(2, 1), SWAP2 |-> BLKSWAP(2, 2), TUCK |-> TUCK]
StackAsm(n) ==
  CASE n.op = "PUSH" -> PUSH_S(n.a) [] n.op = "POP" -> POP_S(n.a) [] n.op = "BLKDROP" -> DROP(n.a)
    [] n.op = "XCHG" -> IF n.b = NoArg THEN XCHG(0, n.a) ELSE XCHG(n.a, n.b)
    [] n.op = "BLKDROP2" -> BLKDROP2(n.a, n.b) [] n.op = "PUSH2" -> PUSH2_S(n.a, n.b)
    [] n.op = "PUSH3" -> PUSH3_S(n.a, n.b, n.k) [] n.op = "ROLL" -> BLKSWAP(1, n.a)
    [] n.op = "ROLLREV" -> BLKSWAP(n.a, 1) [] n.op = "BLKSWAP" -> BLKSWAP(n.a, n.b)
    [] n.op = "REVERSE" -> REVERSE(n.a, n.b) [] n.op = "BLKPUSH" -> BLKPUSH(n.a, n.b)
    [] OTHER -> PUXC(n.a)
StackMnemonics == {"PUSH", "POP", "BLKDROP", "XCHG", "BLKDROP2", "PUSH2", "PUSH3", "ROLL", "ROLLREV", "BLKSWAP",
                   "REVERSE", "BLKPUSH", "PUXC"}

IsLegal(n) ==
  CASE n.op \in {"PUSH", "POP"} -> n.a \in 0 .. 255
    [] n.op = "BLKDROP" -> n.a \in 1 .. 15 /\ n.b = NoArg
    [] n.op = "XCHG" -> IF n.b = NoArg THEN n.a \in 1 .. 255 ELSE n.a \in 1 .. 15 /\ n.b \in (n.a + 1) .. 15
    [] n.op \in {"BLKDROP2", "BLKPUSH"} -> n.a \in 1 .. 15 /\ n.b \in 0 .. 15
    [] n.op \in {"PUSH2", "PUSH3"} -> {n.a, n.b} \subseteq 0 .. 15 /\ n.k \in 0 .. 15 \cup {NoArg}
    [] n.op \in {"ROLL", "ROLLREV"} -> n.a \in 1 .. 16
    [] n.op = "BLKSWAP" -> n.a \in 1 .. 16 /\ n.b \in 1 .. 16
    [] n.op = "REVERSE" -> n.a \in 2 .. 17 /\ n.b \in 0 .. 15
    [] n.op \in {"ADDCONST", "MULCONST", "EQINT", "NEQINT", "GTINT", "LESSINT"} -> n.a \in -128 .. 127
    [] n.op \in {"LSHIFT", "RSHIFT", "MULRSHIFT"} -> n.a \in 1 .. IntBits \cup {NoArg}
    [] n.op \in {"UFITS", "FITS", "MODPOW2", "STU", "STUR", "STI", "STIR", "LDU", "LDI", "PLDU", "PLDI"} -> n.a \in 1 .. IntBits
    [] n.op \in {"TUPLE", "UNTUPLE", "INDEX"} -> n.a \in 0 .. 15
    [] n.op \in {"INDEX2", "INDEX3"} -> {n.a, n.b} \subseteq 0 .. 3 /\ n.k \in 0 .. 3 \cup {NoArg}
    [] n.op = "STSLICECONST" -> Len(toBitString(n.s)) <= MaxSTSLICECONST
    [] n.op \in {"GETGLOB", "SETGLOB"} -> n.a \in 1 .. 31
    [] OTHER -> TRUE

-----------------------------------------------------------------------------
(* Blocks.                                                                 *)

\* A block that was called: RET leaves only it.
Called(m) == IF m.o = "ret" THEN [m EXCEPT !.o = "end"] ELSE m
Jumped(m) == IF m.o = "end" THEN [m EXCEPT !.o = "ret"] ELSE m
\* The end of an iteration and of a loop that catches RETALT
LeftLoop(m) == [m EXCEPT !.o = "end"]

RECURSIVE Run(_, _, _)
RECURSIVE AsmStep(_, _)
RECURSIVE Loop(_, _, _)
RECURSIVE LoopOf(_, _, _, _, _)
Enter(m, n, block) == IF n.jmp THEN Jumped(Run(block, m, Fuel)) ELSE Called(Run(block, m, Fuel))
RECURSIVE Step(_, _)
Step(m, n) ==
  LET m1 == Push(m, 1, <<>>)
  IN  CASE n.c = "Gen" -> IF Len(m.stk) < takeRet(n)[1] THEN Throws(m, 2) ELSE Gen1(m, n)
        [] n.c = "Stack" -> StackStep(m, n.st)
        [] n.c = "Slice" -> LET b == BlockOf(n)
                            IN  IF Len(b.s) > CellBitLength THEN Throws(m, InvalidOpcode)
                                ELSE Push(m, 0, <<IF n.op = "PUSHREF" THEN CellOf(b.s, b.r) ELSE SliceOf(b.s, b.r)>>)
        [] n.c = "Loc" -> m
        [] n.c = "Exc" -> ExcStep(m, n)
        [] n.c = "Ret" -> RetStep(m, n)
        [] n.c = "Asym" -> AsymStep(m, n.op)
        [] n.c = "Glob" -> GlobStep(m, n)
        [] n.c \in {"Opaque", "RBC"} -> Run(n.t, m, Fuel)
        [] n.c = "Sub" -> Enter(m, n, n.t)
        [] n.c = "Log" -> IF m.stk[1].k # "int" THEN Throws(m, TypeCheck)
                          ELSE IF (m.stk[1].n # 0) = (n.op = "AND") THEN Called(Run(n.t, m1, Fuel)) ELSE m1
        [] n.c = "If" -> IF m.stk[1].k # "int" THEN Throws(m, TypeCheck)
                         ELSE IF (m.stk[1].n # 0) # n.no THEN Enter(m1, n, n.t)
                         ELSE IF n.fy # "" THEN Enter(m1, n, n.f) ELSE m1
        [] n.c = "Asm" -> IF IsLegal(n) THEN AsmStep(m, n) ELSE Throws(m, InvalidOpcode)
        [] OTHER -> Loop(m, n, Fuel)
RECURSIVE RunAfter(_, _, _)
RunAfter(m, code, fuel) == IF m.o = "end" THEN Run(code, m, fuel) ELSE m
Run(code, m, fuel) == IF code = <<>> THEN m ELSE RunAfter(Step(m, code[1]), Tail(code), fuel)
Loop(m, n, fuel) == LoopOf(m, IF n.no THEN <<gen1("TRUE")>> ELSE n.t, n.f, n.jmp, fuel)
\* After the body, after the condition, and before it
RECURSIVE Repeats(_, _, _, _, _)
Repeats(m, condition, block, brk, fuel) ==
  IF m.o = "end" THEN LoopOf(m, condition, block, brk, fuel - 1)
  ELSE IF m.o = "alt" /\ brk THEN LeftLoop(m) ELSE m
RECURSIVE Tested(_, _, _, _, _)
Tested(m, condition, block, brk, fuel) ==
  IF m.o = "alt" THEN (IF brk THEN LeftLoop(m) ELSE m)
  ELSE IF m.o # "end" THEN m
  ELSE IF m.stk[1].k # "int" THEN Throws(m, TypeCheck)
  ELSE IF m.stk[1].n = 0 THEN Push(m, 1, <<>>)
  ELSE Repeats(Called(Run(block, Push(m, 1, <<>>), Fuel)), condition, block, brk, fuel)
LoopOf(m, condition, block, brk, fuel) ==
  IF fuel = 0 THEN [m EXCEPT !.o = "loop", !.stk = <<>>]
  ELSE Tested(Called(Run(condition, m, Fuel)), condition, block, brk, fuel)

\* A number on the stack gives the operand of the instructions that end in X or VAR.
ByNumbers(m, n) ==
  LET x == m.stk[1].n
      y == m.stk[2].n
  IN  CASE n.op = "DROPX" -> StackStep(Push(m, 1, <<>>), DROP(x))
        [] n.op = "ROLLX" -> StackStep(Push(m, 1, <<>>), BLKSWAP(1, x))
        [] n.op = "ROLLREVX" -> StackStep(Push(m, 1, <<>>), BLKSWAP(x, 1))
        [] n.op = "BLKSWX" -> StackStep(Push(m, 2, <<>>), BLKSWAP(y, x))
        [] n.op = "REVX" -> StackStep(Push(m, 2, <<>>), REVERSE(y, x))
        [] n.op = "INDEXVAR" -> Picked(Push(m, 1, <<>>), m.stk[2], x)
        [] n.op = "GETGLOBVAR" -> GlobStep(Push(m, 1, <<>>), Glob("GET", x))
        [] OTHER -> GlobStep(Push(m, 1, <<>>), Glob("SET", x))
XOps == {"DROPX", "ROLLX", "ROLLREVX", "BLKSWX", "REVX", "INDEXVAR", "GETGLOBVAR", "SETGLOBVAR"}

\* Branches: those named ...REF hold the block, the others take it from the stack.
Conditionals == {"IF", "IFNOT", "IFJMP", "IFNOTJMP", "IFREF", "IFNOTREF", "IFJMPREF", "IFNOTJMPREF"}
IfElses == {"IFELSE", "IFREFELSE", "IFELSEREF", "IFREFELSEREF"}
AsmStep(m, n) ==
  LET block(i) == m.stk[i].s
      Test(i) == m.stk[i].n # 0
      ref == n.op \in {"IFREF", "IFNOTREF", "IFJMPREF", "IFNOTJMPREF"}
      not == n.op \in {"IFNOT", "IFNOTJMP", "IFNOTREF", "IFNOTJMPREF"}
      jmp == n.op \in {"IFJMP", "IFNOTJMP", "IFJMPREF", "IFNOTJMPREF", "JMPX", "JMPREF"}
      go(m1, b) == IF jmp THEN Jumped(Run(b, m1, Fuel)) ELSE Called(Run(b, m1, Fuel))
      flag == IF ref THEN 1 ELSE 2
      conts == CASE n.op = "IFELSE" -> 2 [] n.op = "IFREFELSEREF" -> 0 [] OTHER -> 1
      yes == CASE n.op = "IFELSE" -> block(2) [] n.op = "IFELSEREF" -> block(1) [] OTHER -> n.t
      no == CASE n.op \in {"IFELSE", "IFREFELSE"} -> block(1) [] n.op = "IFELSEREF" -> n.t [] OTHER -> n.f
  IN  CASE n.op \in {"PUSHCONT", "PUSHREFCONT"} -> Push(m, 0, <<Value("cont", 0, n.t, <<>>)>>)
        [] n.op \in {"CALLREF", "JMPREF"} -> go(m, n.t)
        [] n.op \in {"CALLX", "JMPX"} -> go(Push(m, 1, <<>>), block(1))
        [] n.op \in Conditionals -> IF m.stk[flag].k # "int" THEN Throws(m, TypeCheck)
                                    ELSE IF Test(flag) # not THEN go(Push(m, flag, <<>>), IF ref THEN n.t ELSE block(1))
                                    ELSE Push(m, flag, <<>>)
        [] n.op \in IfElses -> IF m.stk[conts + 1].k # "int" THEN Throws(m, TypeCheck)
                               ELSE go(Push(m, conts + 1, <<>>), IF Test(conts + 1) THEN yes ELSE no)
        [] n.op \in {"WHILE", "WHILEBRK"} -> LoopOf(Push(m, 2, <<>>), block(2), block(1), n.op = "WHILEBRK", Fuel)
        [] n.op \in {"AGAIN", "AGAINBRK"} -> LoopOf(Push(m, 1, <<>>), <<gen1("TRUE")>>, block(1), n.op = "AGAINBRK", Fuel)
        [] n.op \in DOMAIN Mnemonics -> StackStep(m, Mnemonics[n.op])
        [] n.op \in StackMnemonics -> StackStep(m, StackAsm(n))
        [] n.op \in XOps -> ByNumbers(m, n)
        [] n.op = "PUSHPOW2" -> Gen1(m, PUSHINT(2 ^ n.a))
        [] n.op = "PUSHPOW2DEC" -> Gen1(m, PUSHINT(2 ^ n.a - 1))
        [] n.op = "PUSHNEGPOW2" -> Gen1(m, PUSHINT(- 2 ^ n.a))
        [] n.op \in {"SINGLE", "PAIR", "TRIPLE"} -> Gen1(m, genN("TUPLE", CASE n.op = "SINGLE" -> 1 [] n.op = "PAIR" -> 2 [] OTHER -> 3))
        [] n.op \in {"UNSINGLE", "UNPAIR", "UNTRIPLE"} ->
             Gen1(m, genN("UNTUPLE", CASE n.op = "UNSINGLE" -> 1 [] n.op = "UNPAIR" -> 2 [] OTHER -> 3))
        [] n.op \in {"FIRST", "SECOND", "THIRD"} -> Picked(m, m.stk[1], CASE n.op = "FIRST" -> 0 [] n.op = "SECOND" -> 1 [] OTHER -> 2)
        [] n.op = "INDEX" -> Picked(m, m.stk[1], n.a)
        [] n.op = "GETGLOB" -> GlobStep(m, Glob("GET", n.a))
        [] n.op = "SETGLOB" -> GlobStep(m, Glob("SET", n.a))
        [] OTHER -> Step(m, [n EXCEPT !.c = "Gen"])

\* The outcome of a function body on a stack; at its end a function returns.
Outcome(code, stk) == Jumped(Run(code, Machine(stk, Globals), Fuel))
=============================================================================
