--------------------------- MODULE PeepholeRules ---------------------------
(***************************************************************************)
(* The rewriting rules of PeepholeOptimizer.cpp.  A rule looks at the next *)
(* instructions, .loc lines left out, and gives the number of instructions *)
(* it removes and those it puts in their place.  In each function of the   *)
(* optimizer the first rule that applies is taken.                         *)
(***************************************************************************)
EXTENDS TvmNodes

CONSTANTS maxStackDepth  \* 9: the stack that StackOpcodeSquasher permutes

Nothing == <<0, <<>>>>
On(applies, qty, cmds) == IF applies THEN <<qty, cmds>> ELSE Nothing
First(rs) == IF \E i \in DOMAIN rs : rs[i] # Nothing
             THEN rs[Min({i \in DOMAIN rs : rs[i] # Nothing})] ELSE Nothing
\* The i-th instruction of the rest of the block, or none.
At(q, i) == IF i \in DOMAIN q THEN q[i] ELSE Node0

DropN(n) == St(DROP(n))
DropRest(n) == IF n = 0 THEN <<>> ELSE <<DropN(n)>>
Short(v) == -128 <= v /\ v <= 127
power2(v) == IF v \in {2 ^ p : p \in 1 .. 8} THEN toBinLength(v) - 1 ELSE 0

-----------------------------------------------------------------------------
(* optimizeAt1: one instruction.                                           *)

Condition(n) == n.c = "If" /\ n.fy = ""
Choice(n) == n.c = "If" /\ n.fy # ""
\* the only instruction of a block
Only(t) == IF Len(Live(t)) = 1 THEN Live(t)[1] ELSE Node0
RETALT == Ret("RETALT")

At1Conditions(n) ==
  LET x == Only(n.t)
      empty == Live(n.t) = <<>>
  IN  First(<<
        On(full(n) \in {<<"ADDCONST", 0>>, <<"MULCONST", 1>>}, 1, <<>>),
        On(full(n) = <<"ADDCONST", 1>>, 1, <<gen1("INC")>>),
        On(full(n) = <<"ADDCONST", -1>>, 1, <<gen1("DEC")>>),
        On(full(n) = <<"MULCONST", -1>>, 1, <<gen1("NEGATE")>>),
        On(Condition(n) /\ empty /\ ~n.jmp, 1, <<DropN(1)>>),
        On(Condition(n) /\ empty /\ n.jmp, 1, <<Ret(IF n.no THEN "IFNOTRET" ELSE "IFRET")>>),
        On(Condition(n) /\ isExc(x, {"THROW"}), 1, <<Exc(IF n.no THEN "THROWIFNOT" ELSE "THROWIF", x.a)>>),
        On(Condition(n) /\ x = RETALT, 1, <<Ret(IF n.no THEN "IFNOTRETALT" ELSE "IFRETALT")>>),
        On(n.c = "Sub" /\ x = RETALT, 1, <<RETALT>>)>>)

At1Choices(n, withUnpackOpaque) ==
  LET t == Live(n.t)
      f == Live(n.f)
      nt == Len(n.t)
      nf == Len(n.f)
  IN  First(<<
        On(Choice(n) /\ nt = nf /\ \A i \in 1 .. nt : Same(n.t[i], n.f[i]), 1,
           <<DropN(1), SubProgram(FALSE, n.t, n.ty)>>),
        On(/\ withUnpackOpaque /\ Choice(n) /\ n.a = 0 /\ ~n.jmp /\ nt > 0 /\ nf > 0
           /\ n.ty = "PUSHCONT" /\ n.fy = "PUSHCONT"
           /\ Same(n.t[nt], n.f[nf])
           /\ \A x \in ToSet(n.t) \cup ToSet(n.f) : ~hasRetOrJmp(x), 1,
           <<IfElse(FALSE, Front(n.t), "PUSHCONT", Front(n.f), "PUSHCONT", 0), Last(n.t)>>),
        On(Choice(n) /\ f = <<>> /\ ~n.jmp, 1, <<If1(n.no, FALSE, n.t, n.ty)>>),
        On(Choice(n) /\ t = <<>> /\ ~n.jmp, 1, <<If1(~n.no, FALSE, n.f, n.fy)>>),
        On(/\ Choice(n)
           /\ \A x \in {Only(t), Only(f)} : isPureGen01(x) /\ x.c = "Gen", 1,
           <<Only(t), Only(f), gen1("CONDSEL")>>)>>)

\* A branch that only pushes 0 or NULL, on top or under the value on top
Aligns(body, isZero, isSwap) ==
  /\ Len(body) = (IF isSwap THEN 2 ELSE 1)
  /\ Same(body[1], IF isZero THEN PUSHINT(0) ELSE gen1("NULL"))
  /\ isSwap => body[2] = St(XCHG(0, 1))
Alignment(n, isZero, isSwap, trueBranch) ==
  LET branch == IF trueBranch THEN n.t ELSE n.f
  IN  On(/\ n.c = "If" /\ (trueBranch \/ n.fy # "")
         /\ Aligns(branch, isZero, isSwap), 1,
         <<getZeroOrNullAlignment(isZero, ~isSwap, IF trueBranch THEN n.no ELSE TRUE),
           IF trueBranch THEN [n EXCEPT !.t = <<>>] ELSE [n EXCEPT !.f = <<>>]>>)

At1Blocks(n, withUnpackOpaque) ==
  First(<<
    On(n.c = "While" /\ ~n.no /\ Len(n.t) = 1 /\ is(At(n.t, 1), {"TRUE"}), 1, <<[n EXCEPT !.no = TRUE]>>),
    On(n.c = "Sub" /\ ~n.jmp /\ n.ty = "PUSHCONT" /\ \A x \in ToSet(n.t) : ~hasRetOrJmp(x), 1, n.t)>>
    \o IF ~withUnpackOpaque THEN <<>>
       ELSE <<Alignment(n, TRUE, TRUE, TRUE), Alignment(n, TRUE, TRUE, FALSE),
              Alignment(n, TRUE, FALSE, TRUE), Alignment(n, TRUE, FALSE, FALSE),
              Alignment(n, FALSE, TRUE, TRUE), Alignment(n, FALSE, TRUE, FALSE),
              Alignment(n, FALSE, FALSE, TRUE), Alignment(n, FALSE, FALSE, FALSE)>>)

undoesItself(n, withUnpackOpaque) ==
  First(<<At1Conditions(n), On(is(n, {"INC"}), 1, <<genN("ADDCONST", 1)>>), At1Choices(n, withUnpackOpaque),
          At1Blocks(n, withUnpackOpaque)>>)
optimizeAt1(n, withUnpackOpaque) ==
  First(<<At1Conditions(n), At1Choices(n, withUnpackOpaque), At1Blocks(n, withUnpackOpaque)>>)

-----------------------------------------------------------------------------
(* optimizeAt2: two instructions.                                          *)

\* ST*R with the builder below the value, and ST* with the builder on top
Direct(op) == CASE op = "STBR" -> "STB" [] op = "STIR" -> "STI" [] op = "STUR" -> "STU"
                [] op = "STREFR" -> "STREF" [] op = "STSLICER" -> "STSLICE" [] op = "STBREFR" -> "STBREF"
                [] OTHER -> ""

At2SwapAndInt(x, y) ==
  LET v == x.a
      small == isPUSHINT(x)
  IN  First(<<
        On(Swaps(x) /\ is(y, {"STU"}), 2, <<genN("STUR", y.a)>>),
        On(Swaps(x) /\ is(y, {"STSLICE"}), 2, <<gen1("STSLICER")>>),
        On(Swaps(x) /\ is(y, {"SUB"}), 2, <<gen1("SUBR")>>),
        On(Swaps(x) /\ is(y, {"SUBR"}), 2, <<gen1("SUB")>>),
        On(Swaps(x) /\ isCommutative(y), 1, <<>>),
        On(Swaps(x) /\ y.c = "Gen" /\ Direct(y.op) # "", 2, <<genN(Direct(y.op), y.a)>>),
        On(small /\ v = 1 /\ is(y, {"ADD"}), 2, <<gen1("INC")>>),
        On(small /\ v = 1 /\ is(y, {"SUB"}), 2, <<gen1("DEC")>>),
        On(small /\ Short(v) /\ is(y, {"ADD"}), 2, <<genN("ADDCONST", v)>>),
        On(small /\ Short(v) /\ is(y, {"MUL"}), 2, <<genN("MULCONST", v)>>),
        On(small /\ Short(-v) /\ is(y, {"SUB"}), 2, <<genN("ADDCONST", -v)>>),
        \* nothing is executed after a return or an exception
        On(x.c = "Ret" /\ x.op \in {"RET", "RETALT"}, 2, <<x>>),
        On(isExc(x, {"THROWANY", "THROW"}), 2, <<x>>)>>)

At2Drops(x, y) ==
  LET push == isPUSH(x)
      blkpush == isBLKPUSH(x)
      drop2 == isBLKDROP2(y)
      last == blkpush[2] - blkpush[1] + 1
  IN  First(<<
        On(push = 0 /\ Swaps(y), 2, <<x>>),
        On(Pops(x) # 0 /\ Drop(y) # 0 /\ Pops(x) = Drop(y) + 1 /\ Pops(x) <= 15, 2, <<St(makeBLKDROP2(Pops(x), 1))>>),
        On(Swaps(x) /\ Pops(y) = 2, 2, <<St(makeBLKDROP2(1, 2))>>),
        On((push # None \/ isPureGen01(x)) /\ Drop(y) # 0, 2, DropRest(Drop(y) - 1)),
        On(blkpush # NoPair /\ Drop(y) # 0, 2,
           IF blkpush[1] > Drop(y) THEN <<St(makeBLKPUSH(blkpush[1] - Drop(y), blkpush[2]))>>
           ELSE DropRest(Drop(y) - blkpush[1])),
        On(push # None /\ drop2 = <<push + 1, 1>>, 2, DropRest(push)),
        On(isPureGen01(x) /\ drop2 # NoPair, 2, <<St(makeBLKDROP2(drop2[1], drop2[2] - 1)), x>>),
        On(/\ blkpush # NoPair /\ drop2 # NoPair /\ blkpush[1] = blkpush[2] + 1
           /\ drop2[2] = blkpush[1] /\ drop2[1] >= blkpush[1], 2,
           IF drop2[1] = blkpush[1] THEN <<>> ELSE <<St(makeBLKDROP2(drop2[1] - blkpush[1], blkpush[1]))>>),
        On(/\ blkpush # NoPair /\ drop2 # NoPair /\ blkpush[1] = drop2[2]
           /\ last >= 0 /\ last + blkpush[1] = drop2[1], 2, <<DropN(last)>>),
        On(push = 0 /\ drop2 # NoPair /\ drop2[2] = 1, 2,
           IF drop2[1] = 1 THEN <<>> ELSE <<St(makeBLKDROP2(drop2[1] - 1, 1))>>),
        On(isBLKDROP2(x) = <<1, 1>> /\ Drop(y) # 0, 2, <<DropN(Drop(y) + 1)>>)>>)

\* A condition negated or compared with zero before it is consumed
Consumed(x, y, negates) ==
  First(<<On(isExc(y, {"THROWIF"}), 2, <<Exc(IF negates THEN "THROWIFNOT" ELSE "THROWIF", y.a)>>),
          On(isExc(y, {"THROWIFNOT"}), 2, <<Exc(IF negates THEN "THROWIF" ELSE "THROWIFNOT", y.a)>>),
          On(y.c = "If", 2, <<IF negates THEN flipIfElse(y) ELSE y>>)>>)

At2Blocks(x, y) ==
  LET swap1 == isBLKSWAP(x)
      swap2 == isBLKSWAP(y)
      drop1 == isBLKDROP2(x)
      drop2 == isBLKDROP2(y)
      same == swap1 # NoPair /\ swap2 # NoPair /\ swap1[1] + swap1[2] = swap2[1] + swap2[2]
  IN  First(<<
        IF is(x, {"NOT"}) THEN Consumed(x, y, TRUE) ELSE Nothing,
        IF full(x) = <<"EQINT", 0>> THEN Consumed(x, y, TRUE) ELSE Nothing,
        IF full(x) = <<"NEQINT", 0>> THEN Consumed(x, y, FALSE) ELSE Nothing,
        On(is(x, {"TRUE"}) /\ y.c = "If" /\ ~y.no, 2, <<SubProgram(y.jmp, y.t, y.ty)>>),
        On(swap1 # NoPair /\ drop2 # NoPair /\ drop2 = <<swap1[2], swap1[1]>>, 2, <<DropN(swap1[2])>>),
        On(drop1 # NoPair /\ Drop(y) # 0 /\ Drop(y) >= drop1[2], 2, <<DropN(drop1[1] + Drop(y))>>),
        On(swap1 # NoPair /\ Drop(y) # 0 /\ Drop(y) = swap1[1], 2, <<St(makeBLKDROP2(swap1[1], swap1[2]))>>),
        On(same /\ swap2[1] = 1, 2,
           IF swap1[2] = 1 THEN <<>> ELSE <<St(BLKSWAP(swap1[1] + 1, swap1[2] - 1))>>),
        On(same /\ swap2[2] = 1, 2,
           IF swap1[1] = 1 THEN <<>> ELSE <<St(BLKSWAP(swap1[1] - 1, swap1[2] + 1))>>)>>)

Index(n) == is(n, {"INDEX_NOEXCEP", "INDEX_EXCEP"}) /\ n.a \in 0 .. 3

At2Values(x, y) ==
  LET v == x.a
      sum == getAddNum(x) + getAddNum(y)
      p == power2(v)
  IN  First(<<
        On(is(x, {"TUPLE"}) /\ is(y, {"UNTUPLE"}) /\ x.a = y.a, 2, <<>>),
        On(is(x, {"UNTUPLE"}) /\ is(y, {"TUPLE"}) /\ x.a = y.a, 2, <<>>),
        On(x.c = "Glob" /\ y.c = "Glob" /\ x.op = "SET" /\ y.op = "GET" /\ x.a = y.a, 2, <<St(PUSH_S(0)), x>>),
        On(isConstAdd(x) /\ isConstAdd(y) /\ Short(sum), 2, <<genN("ADDCONST", sum)>>),
        On(Index(x) /\ Index(y), 2, <<[genN("INDEX2", x.a) EXCEPT !.b = y.a]>>),
        On(is(x, {"INDEX2"}) /\ Index(y) /\ x.a \in 0 .. 3 /\ x.b \in 0 .. 3, 2,
           <<[genN("INDEX3", x.a) EXCEPT !.b = x.b, !.k = y.a]>>),
        On(isPUSHINT(x) /\ v \in 1 .. IntBits /\ is(y, {"RSHIFT", "LSHIFT"}) /\ y.a = NoArg, 2, <<genN(y.op, v)>>),
        On(isPUSHINT(x) /\ is(y, {"DIV"}) /\ p > 0, 2, <<genN("RSHIFT", p)>>),
        On(isPUSHINT(x) /\ is(y, {"MUL"}) /\ p > 0, 2, <<genN("LSHIFT", p)>>),
        On(isPUSHINT(x) /\ is(y, {"MOD"}) /\ p > 0, 2, <<genN("MODPOW2", p)>>),
        On(isPUSHINT(x) /\ Short(v) /\ is(y, {"NEQ"}), 2, <<genN("NEQINT", v)>>),
        On(isPUSHINT(x) /\ Short(v) /\ is(y, {"EQUAL"}), 2, <<genN("EQINT", v)>>),
        On(isPUSHINT(x) /\ Short(v) /\ is(y, {"GREATER"}), 2, <<genN("GTINT", v)>>),
        On(isPUSHINT(x) /\ Short(v) /\ is(y, {"LESS"}), 2, <<genN("LESSINT", v)>>),
        On(isPUSHINT(x) /\ Short(v - 1) /\ is(y, {"GEQ"}), 2, <<genN("GTINT", v - 1)>>),
        On(isPUSHINT(x) /\ Short(v + 1) /\ is(y, {"LEQ"}), 2, <<genN("LESSINT", v + 1)>>)>>)

At2Merges(x, y) ==
  LET drop1 == isBLKDROP2(x)
      drop2 == isBLKDROP2(y)
      drops == drop1 # NoPair /\ drop2 # NoPair
      swap == isBLKSWAP(y)
      rev == isREVERSE(x)
      int == isPUSHINT(x)
  IN  First(<<
        On(drops /\ drop1[2] = drop2[2] /\ drop1[1] + drop2[1] <= 15, 2,
           <<St(makeBLKDROP2(drop1[1] + drop2[1], drop1[2]))>>),
        On(drops /\ drop1[2] = drop2[1] + drop2[2], 2, <<St(makeBLKDROP2(drop1[1] + drop2[1], drop2[2]))>>),
        On(is(x, {"MUL"}) /\ is(y, {"RSHIFT"}), 2, <<genN("MULRSHIFT", y.a)>>),
        On(is(x, {"NEWC"}) /\ is(y, {"ENDC"}), 2, <<makePUSHREF(binaryStringToSlice(<<>>))>>),
        On(is(x, {"NOT"}) /\ is(y, {"NOT"}), 2, <<>>),
        On(is(x, {"UFITS", "FITS"}) /\ is(y, {x.op}), 2, <<genN(x.op, Min({x.a, y.a}))>>),
        On(is(x, {"FALSE"}) /\ full(y) = <<"STIR", 1>>, 2, <<gen1("STZERO")>>),
        On(is(x, {"TRUE"}) /\ full(y) = <<"STIR", 1>>, 2, <<gen1("STONE")>>),
        On(int /\ x.a = 0 /\ is(y, {"STUR"}), 2, <<PUSHINT(y.a), gen1("STZEROES")>>),
        On(is(x, {"ABS"}) /\ full(y) = <<"UFITS", IntBits>>, 2, <<gen1("ABS")>>),
        On(int /\ x.a = 1 /\ is(y, {"STZEROES"}), 2, <<gen1("STZERO")>>),
        On(rev # NoPair /\ swap # NoPair /\ rev[2] = 1 /\ swap = <<rev[1], 1>>, 2, <<St(REVERSE(rev[1] + 1, 0))>>),
        On(rev # NoPair /\ Drop(y) # 0 /\ rev = <<Drop(y) + 1, 0>>, 2, <<St(makeBLKDROP2(Drop(y), 1))>>),
        On(is(x, {"ENDC"}) /\ is(y, {"STREFR"}), 2, <<gen1("STBREFR")>>),
        On(isPureGen01(x) /\ y.st = XCHG(1, 2), 2, <<St(BLKSWAP(1, 1)), x>>)>>)

At2Rest(x, y) ==
  LET p1 == isBLKPUSH(x)
      p2 == isBLKPUSH(y)
  IN  First(<<
        On(/\ isPUSH(x) = 0 /\ y.c = "Log" /\ y.op = "AND" /\ Len(y.t) = 2
           /\ Drop(y.t[1]) = 1 /\ is(y.t[2], {"TRUE"}), 2, <<>>),
        On(is(x, {"TRUE"}) /\ is(y, {"AND"}), 2, <<>>),
        On(is(x, {"NULL"}) /\ is(y, {"ISNULL"}), 2, <<gen1("TRUE")>>),
        On((is(x, {"TRUE"}) /\ isExc(y, {"THROWIFNOT"})) \/ (is(x, {"FALSE"}) /\ isExc(y, {"THROWIF"})), 2, <<>>),
        On(is(x, {"PUSHINT"}) /\ is(y, {"ISNULL"}), 2, <<gen1("FALSE")>>),
        On((is(x, {"TRUE"}) /\ isExc(y, {"THROWIF"})) \/ (is(x, {"FALSE"}) /\ isExc(y, {"THROWIFNOT"})), 2,
           <<Exc("THROW", y.a)>>),
        On(x.c = "Gen" /\ isPure(x) /\ takeRet(x) = <<1, 1>> /\ Drop(y) # 0, 2, <<y>>),
        On(p1 # NoPair /\ p2 # NoPair /\ p1[2] = 0 /\ p2[2] = 0 /\ p1[1] + p2[1] <= 15, 2,
           <<St(makeBLKPUSH(p1[1] + p2[1], 0))>>),
        On(is(x, {"LDU", "LDI", "LDREF", "LDDICT", "LDUX", "LDIX"}) /\ Drop(y) # 0, 2,
           <<[x EXCEPT !.op = CASE x.op = "LDU" -> "PLDU" [] x.op = "LDI" -> "PLDI" [] x.op = "LDREF" -> "PLDREF"
                                [] x.op = "LDDICT" -> "PLDDICT" [] x.op = "LDUX" -> "PLDUX" [] OTHER -> "PLDIX"]>>
             \o DropRest(Drop(y) - 1))>>)

optimizeAt2(x, y) == First(<<At2SwapAndInt(x, y), At2Drops(x, y), At2Blocks(x, y), At2Values(x, y),
                             At2Merges(x, y), At2Rest(x, y)>>)

-----------------------------------------------------------------------------
(* optimizeAt3 .. optimizeAt6.                                             *)

optimizeAt3(x, y, z) ==
  LET v == x.a
      compare == isPUSHINT(x) /\ (isPUSH(y) > 0 \/ isPureGen01(y))
      y1 == IF isPUSH(y) # None THEN St(PUSH_S(isPUSH(y) - 1)) ELSE y
      swap1 == isBLKSWAP(x)
      dup == isBLKPUSH(y)
  IN  First(<<
        On(is(x, {"NEWC"}) /\ isSimpleCommand(y) /\ z.c = "Gen" /\ Direct(z.op) # "", 3,
           <<y, gen1("NEWC"), genN(Direct(z.op), z.a)>>),
        On(isPUSH(x) = 0 /\ isExc(y, {"THROWIFNOT", "THROWIF"}) /\ Drop(z) # 0, 3, <<y>> \o DropRest(Drop(z) - 1)),
        On(is(x, {"NEWC"}) /\ is(y, {"STSLICECONST"}) /\ y.s.tag # "bit" /\ is(z, {"ENDC"}), 3, <<makePUSHREF(y.s)>>),
        On(compare /\ Short(v) /\ is(z, {"NEQ"}), 3, <<y1, genN("NEQINT", v)>>),
        On(compare /\ Short(v) /\ is(z, {"EQUAL"}), 3, <<y1, genN("EQINT", v)>>),
        On(compare /\ Short(v) /\ is(z, {"GREATER"}), 3, <<y1, genN("LESSINT", v)>>),
        On(compare /\ Short(v) /\ is(z, {"LESS"}), 3, <<y1, genN("GTINT", v)>>),
        On(compare /\ Short(v + 1) /\ is(z, {"GEQ"}), 3, <<y1, genN("LESSINT", v + 1)>>),
        On(compare /\ Short(v - 1) /\ is(z, {"LEQ"}), 3, <<y1, genN("GTINT", v - 1)>>),
        On(isPUSHINT(x) /\ isPUSHINT(y) /\ is(z, {"MUL"}), 3, <<PUSHINT(x.a * y.a)>>),
        On(isPUSHINT(x) /\ isPUSHINT(y) /\ is(z, {"DIV"}) /\ x.a >= 0 /\ y.a > 0, 3, <<PUSHINT(x.a \div y.a)>>),
        On(is(x, {"TRUE", "FALSE"}) /\ is(y, {"NEWC"}) /\ full(z) = <<"STI", 1>>, 3,
           <<y, gen1(IF x.op = "TRUE" THEN "STONE" ELSE "STZERO")>>),
        On(swap1 # NoPair /\ swap1[1] = 1 /\ isPureGen01(y) /\ isBLKSWAP(z) = <<1, 1>>, 3,
           <<y, St(BLKSWAP(1, swap1[2] + 1))>>),
        On(is(x, {"NULL"}) /\ isPUSH(y) = 0 /\ is(z, {"ISNULL"}), 3, <<x, gen1("TRUE")>>),
        On(/\ isPureGen01(x) /\ dup # NoPair /\ isPureGen01(z) /\ Same(x, z)
           /\ dup[2] = 0 /\ dup[1] + 1 <= 15, 3, <<x, St(makeBLKPUSH(dup[1] + 1, 0))>>)>>)

\* A slice put into a new builder
Stored(bits) == <<genPushSlice(bits), gen1("NEWC"), gen1("STSLICE")>>
Plus(op, v) == IF op = "ADD" THEN v ELSE -v

optimizeAt4(w, x, y, z) ==
  LET sum == getAddNum(w) + getAddNum(y)
      newc == is(x, {"NEWC"})
      slices == toBitString(y.s) \o toBitString(w.s)
      stu == toBitString(y.s) \o toBits(w.a, z.a)
      plain == isPlainPushSlice(w) /\ newc /\ is(y, {"STSLICE"})
  IN  First(<<
        On(isPUSHINT(w) /\ isPUSHINT(y) /\ is(x, {"ADD", "SUB"}) /\ is(z, {"ADD", "SUB"}), 4,
           <<PUSHINT(Plus(x.op, w.a) + Plus(z.op, y.a)), gen1("ADD")>>),
        On(isPlainPushSlice(w) /\ newc /\ is(y, {"STSLICECONST"}) /\ is(z, {"STSLICE"}) /\ fitsCell(slices), 4,
           Stored(slices)),
        On(isConstAdd(w) /\ isConstAdd(y) /\ is(x, {"UFITS", "FITS"}) /\ full(z) = full(x) /\ Short(sum), 4,
           <<genN("ADDCONST", sum), z>>),
        On(isPUSHINT(w) /\ newc /\ is(y, {"STSLICECONST"}) /\ is(z, {"STU"}) /\ fitsCell(stu), 4, Stored(stu)),
        On(plain /\ is(z, {"ENDC"}), 4, <<makePUSHREF(w.s)>>),
        On(/\ isPUSHINT(w) /\ w.a = 0 /\ is(x, {"STUR"}) /\ isPUSHINT(y) /\ y.a = 0 /\ is(z, {"STUR"})
           /\ x.a + z.a <= IntBits, 4, <<PUSHINT(0), genN("STUR", x.a + z.a)>>),
        On(plain /\ is(z, {"STBREFR"}), 4, <<makePUSHREF(w.s), gen1("STREFR")>>),
        On(isPUSH(w) = 0 /\ is(x, {"ISNULL"}) /\ y = Exc("THROWIF", 63) /\ full(z) = <<"UNTUPLE", 1>>, 4, <<z>>)>>)

optimizeAt5(v, w, x, y, z) ==
  LET build == isPlainPushSlice(w) /\ is(x, {"NEWC"}) /\ is(y, {"STSLICE"})
      slices == toBitString(w.s) \o toBitString(v.s)
      stu == toBitString(w.s) \o toBits(v.a, z.a)
  IN  First(<<
        On(isPlainPushSlice(v) /\ build /\ is(z, {"STSLICE"}) /\ fitsCell(slices), 5, Stored(slices)),
        On(isPUSHINT(v) /\ build /\ is(z, {"STU"}) /\ fitsCell(stu), 5, Stored(stu))>>)

optimizeAt6(u, v, w, x, y, z) ==
  LET bits == toBitString(y.s) \o toBitString(u.s)
  IN  On(/\ isPlainPushSlice(u) /\ is(v, {"NEWC"}) /\ is(w, {"STSLICE"}) /\ is(x, {"NEWC"})
         /\ is(y, {"STSLICECONST"}) /\ is(z, {"STB"}) /\ fitsCell(bits), 6, Stored(bits))

-----------------------------------------------------------------------------
(* optimizeAtInf: as many instructions as match.                           *)

AtInfLast(q) ==
  LET n == q[1]
  IN  First(<<
        On(n = Ret("RET") /\ Len(q) = 1, 1, <<>>),
        On(/\ Condition(n) /\ n.jmp /\ n.no /\ Len(q) = 1 /\ Len(n.t) = 2
           /\ is(n.t[1], {"NULL"}) /\ Swaps(n.t[2]), 1, <<Asym("NULLROTRIFNOT"), DropN(1)>>)>>)

\* Stores of constants: the bits, the number of instructions and the number of stores.
NoStore == [bits |-> <<>>, ops |-> 0, iters |-> 0]
storeOf(q) ==
  LET x == At(q, 1)
      y == At(q, 2)
      Is(bits, n) == [bits |-> bits, ops |-> n, iters |-> 1]
  IN  IF is(x, {"STZERO"}) THEN Is(<<0>>, 1)
      ELSE IF is(x, {"STONE"}) THEN Is(<<1>>, 1)
      ELSE IF is(x, {"STSLICECONST"}) THEN Is(toBitString(x.s), 1)
      ELSE IF isPUSHINT(x) /\ is(y, {"STUR", "STIR"}) THEN Is(toBits(x.a, y.a), 2)
      ELSE IF is(x, {"PUSHINT"}) /\ is(y, {"STZEROES"}) THEN Is([i \in 1 .. x.a |-> 0], 2)
      ELSE IF isPlainPushSlice(x) /\ is(y, {"STSLICER"}) THEN Is(toBitString(x.s), 2)
      ELSE NoStore
Joined(a, b) == [bits |-> a.bits \o b.bits, ops |-> a.ops + b.ops, iters |-> a.iters + b.iters]
RECURSIVE stores(_)
RECURSIVE storesFrom(_, _)
stores(q) == storesFrom(storeOf(q), q)
storesFrom(s, q) == IF s = NoStore THEN s ELSE Joined(s, stores(SubSeq(q, s.ops + 1, Len(q))))
\* The store that opens a builder
opening(q) ==
  IF isPlainPushSlice(q[1]) /\ is(At(q, 2), {"NEWC"}) /\ is(At(q, 3), {"STSLICE"})
  THEN [bits |-> toBitString(q[1].s), ops |-> 3, iters |-> 1]
  ELSE IF isPUSHINT(q[1]) /\ is(At(q, 2), {"NEWC"}) /\ is(At(q, 3), {"STU"})
  THEN [bits |-> toBits(q[1].a, q[3].a), ops |-> 3, iters |-> 1]
  ELSE NoStore

storeAll(bits) == IF Len(bits) <= MaxSTSLICECONST
                  THEN <<genS("STSLICECONST", binaryStringToSlice(bits))>>
                  ELSE <<genPushSlice(bits), gen1("STSLICER")>>
storesBy(all, cmds) == On(/\ fitsCell(all.bits)
                          /\ all.ops > Len(cmds) \/ (all.ops = Len(cmds) /\ all.iters >= 2), all.ops, cmds)
storesAfter(o, all) == storesBy(all, (IF o = NoStore THEN <<>> ELSE <<gen1("NEWC")>>) \o storeAll(all.bits))
opened(o, q) == storesAfter(o, Joined(o, stores(SubSeq(q, o.ops + 1, Len(q)))))
AtInfStores(q) == opened(opening(q), q)

\* The first instructions that satisfy P
Prefix(q, P(_)) == IF \E i \in DOMAIN q : ~P(q[i])
                   THEN SubSeq(q, 1, Min({i \in DOMAIN q : ~P(q[i])}) - 1) ELSE q

ReversedAnyPops(q, n) ==
  LET pops == [i \in 1 .. n |-> Pops(q[n + 2 - i])]
      to == [i \in 1 .. n |-> pops[i] + n + 1 - 2 * i]
  IN  On(Cardinality({to[i] + i : i \in 1 .. n}) = n, n + 1, [i \in 1 .. n |-> St(POP_S(to[i]))])
\* REVERSE n, 0 before n POPs: the POPs in the opposite order, each from where its value now is.
Reversed(q, n) ==
  LET pops == [i \in 1 .. n |-> Pops(q[n + 2 - i])]
      to == [i \in 1 .. n |-> pops[i] + n + 1 - 2 * i]
  IN  On(/\ \A i \in 1 .. n : to[i] >= n + 1 - i
         /\ Cardinality({to[i] + i : i \in 1 .. n}) = n, n + 1, [i \in 1 .. n |-> St(POP_S(to[i]))])

\* The number of instructions BLKSWAP 1, up; BLKSWAP 1, up+1; ... at the start of q
Rolls(q) == LET up == isBLKSWAP(q[1])[2]
            IN  Max({n \in 1 .. Len(q) : \A i \in 1 .. n : isBLKSWAP(q[i]) = <<1, up + i - 1>>})

\* raw: with the .loc lines, which one of the rules does not skip
AtInfStack(q, raw) ==
  LET n == q[1]
      drops == Prefix(q, LAMBDA x : Drop(x) # 0)
      swap == isBLKSWAP(n)
      pop == Pops(n)
      rev == isREVERSE(n)
  IN  First(<<
        On(Len(drops) >= 2, Len(drops), <<DropN(FoldLeft(LAMBDA s, x : s + Drop(x), 0, drops))>>),
        On(/\ swap # NoPair /\ swap[2] = 1 /\ Len(raw) >= swap[1] + 1
           /\ \A i \in 1 .. (swap[1] + 1) : isBLKSWAP(raw[i]) = swap, swap[1] + 1, <<>>),
        On(pop >= 2 /\ Len(q) >= pop /\ \A i \in 1 .. pop : i \in DOMAIN q => Pops(q[i]) = pop, pop,
           <<St(makeBLKDROP2(pop, pop))>>),
        IF rev # NoPair /\ rev[2] = 0 /\ Len(q) > rev[1] /\ \A i \in 2 .. (rev[1] + 1) : Pops(q[i]) # 0
        THEN Reversed(q, rev[1]) ELSE Nothing,
        IF swap # NoPair /\ swap[1] = 1 /\ Rolls(q) >= 2
        THEN <<Rolls(q), <<St(BLKSWAP(Rolls(q), swap[2])), St(REVERSE(Rolls(q), 0))>>>> ELSE Nothing>>)

-----------------------------------------------------------------------------
(* StackOpcodeSquasher: the permutations of the stack that at most three   *)
(* instructions make, found breadth first.                                 *)

\* std::reverse of n elements from index `from` on
reverseAt(d, from, n) ==
  SubSeq(d, 1, from) \o Reverse(SubSeq(d, from + 1, from + n)) \o SubSeq(d, from + n + 1, Len(d))
swapAt(d, i, j) == [d EXCEPT ![i + 1] = d[j + 1], ![j + 1] = d[i + 1]]

canApply(op, depth) ==
  \/ op.opcode \in {"BLKSWAP", "REVERSE"} /\ op.i + op.j <= depth
  \/ op.opcode = "XCHG" /\ op.i < depth /\ op.j < depth
apply(op, d) ==
  IF op.opcode = "BLKSWAP"
  THEN reverseAt(reverseAt(reverseAt(d, 0, op.j), op.j, op.i), 0, op.i + op.j)
  ELSE IF op.opcode = "REVERSE" THEN reverseAt(d, op.j, op.i)
  ELSE swapAt(d, op.i, op.j)

edges ==
  LET n == maxStackDepth
  IN  {BLKSWAP(p[1], p[2]) : p \in {q \in (1 .. n) \X (1 .. n) : q[1] + q[2] < n}}
        \cup {XCHG(p[1], p[2]) : p \in {q \in (0 .. n - 1) \X (0 .. n - 1) : q[1] < q[2]}}
        \cup {REVERSE(p[1], p[2]) : p \in {q \in (2 .. n) \X (0 .. n) : q[1] + q[2] <= n}}
\* The place of an edge in the list of edges, and of a path in the order of the search
rank(op) == CASE op.opcode = "BLKSWAP" -> 10 * op.i + op.j
              [] op.opcode = "XCHG" -> 100 + 10 * op.i + op.j
              [] OTHER -> 200 + 10 * op.j + op.i
order(path) == LET r(i) == IF i \in DOMAIN path THEN rank(path[i]) ELSE 0
               IN  1000 * (1000 * r(1) + r(2)) + r(3)

\* m_dp and m_prev: pairs of a permutation and the instructions that make it; level gives those
\* first met one instruction after prev.
level(prev, seen) ==
  LET all == {<<apply(e, p[1]), Append(p[2], e)>> : e \in edges, p \in prev}
      new == {p \in all : p[1] \notin {q[1] : q \in seen}}
  IN  {p \in new : \A q \in new : q[1] = p[1] => order(p[2]) <= order(q[2])}
start == <<>> \o [i \in 1 .. maxStackDepth |-> i]
Found(seen, new) == [seen |-> seen \cup new, new |-> new]
m_dp == FoldLeft(LAMBDA s, i : Found(s.seen, level(s.new, s.seen)), Found({}, {<<start, <<>>>>}), <<1, 2, 3>>).seen
\* steps and recover: the instructions that make a permutation, if three are enough
steps(d) == {p[2] : p \in {q \in m_dp : q[1] = d}}

\* The longest run of stack instructions that a shorter one replaces
state(run, n) == FoldLeft(LAMBDA d, x : apply(x.st, d), start, SubSeq(run, 1, n))
paths(run) == UNION {{<<n, p>> : p \in steps(state(run, n))} : n \in DOMAIN run}
longest(shorter) ==
  IF shorter = {} THEN Nothing
  ELSE LET best == CHOOSE c \in shorter : \A d \in shorter : d[1] <= c[1]
       IN  <<best[1], [i \in DOMAIN best[2] |-> St(best[2][i])]>>
AtInfSquash(q) ==
  longest({c \in paths(Prefix(q, LAMBDA x : x.c = "Stack" /\ canApply(x.st, maxStackDepth))) : Len(c[2]) < c[1]})

\* Pure pushes and permutations of them: the pushes in the order of the result.  The values
\* are listed from the top, each with the number of those below it when it was pushed.
RECURSIVE pushes(_, _, _, _)
pushes(q, d, removed, cnt) ==
  LET x == At(q, 1)
      push == <<<<x, Len(d)>>>> \o d
      rest == Tail(q)
  IN  IF isPureGen01(x) \/ (x.st.opcode = "PUSH_S" /\ x.st.i >= Len(d))
      THEN pushes(rest, push, removed, cnt + 1)
      ELSE IF x.c = "Stack" /\ canApply(x.st, Len(d)) THEN pushes(rest, apply(x.st, d), TRUE, cnt + 1)
      ELSE [d |-> d, removed |-> removed, cnt |-> cnt]

AtInfPermutation(q) ==
  LET p == pushes(q, <<>>, FALSE, 0)
      d == Reverse(p.d)
  IN  On(p.removed, p.cnt, [i \in DOMAIN d |->
           IF isPUSH(d[i][1]) # None THEN St(PUSH_S(isPUSH(d[i][1]) - d[i][2] + i - 1)) ELSE d[i][1]])

optimizeAtInf(q, raw) == First(<<AtInfLast(q), AtInfStores(q), AtInfStack(q, raw), AtInfSquash(q), AtInfPermutation(q)>>)

-----------------------------------------------------------------------------
(* The three passes over a block, each given the rest of the block.        *)

\* optimizeSlice, the last pass
optimizeSlice(q) ==
  LET bits == toBitString(q[1].s)
      num == toBigint(bits)
      const == isPlainPushSlice(q[1]) /\ is(At(q, 2), {"STSLICER"})
      zeros == \A i \in DOMAIN bits : bits[i] = 0
  IN  IF ~const THEN Nothing
      ELSE First(<<On(zeros, 2, <<PUSHINT(Len(bits)), gen1("STZEROES")>>),
                   On(toBinLength(num) < IntBits /\ Len(bits) > toBinLength(num), 2,
                      <<PUSHINT(num), genN("STUR", Len(bits))>>)>>)

optimizeAt(raw, withUnpackOpaque, slicePass) ==
  LET q == Live(raw)
      n == Len(q)
  IN  IF slicePass THEN optimizeSlice(q)
      ELSE First(<<optimizeAt1(q[1], withUnpackOpaque), optimizeAtInf(q, raw),
                   IF n >= 2 THEN optimizeAt2(q[1], q[2]) ELSE Nothing,
                   IF n >= 3 THEN optimizeAt3(q[1], q[2], q[3]) ELSE Nothing,
                   IF n >= 4 THEN optimizeAt4(q[1], q[2], q[3], q[4]) ELSE Nothing,
                   IF n >= 5 THEN optimizeAt5(q[1], q[2], q[3], q[4], q[5]) ELSE Nothing,
                   IF n >= 6 THEN optimizeAt6(q[1], q[2], q[3], q[4], q[5], q[6]) ELSE Nothing>>)

unsquash(raw, withUnpackOpaque) ==
  LET x == raw[1]
  IN  First(<<On(x.st.opcode = "PUSH2_S", 1, <<St(PUSH_S(x.st.i)), St(PUSH_S(x.st.j + 1))>>),
              On(withUnpackOpaque /\ x.c \in {"RBC", "Opaque"}, 1, x.t)>>)

\* The index that a later PUSH of the group has before the group
Before(push, k, si, sj) == IF push >= k THEN push - k ELSE IF push = k - 1 THEN si ELSE sj

squashPush(raw) ==
  LET q == Live(raw)
      x == q[1]
      y == At(q, 2)
      si == isPUSH(x)
      sj == Before(isPUSH(y), 1, si, si)
      sk == Before(isPUSH(At(q, 3)), 2, si, sj)
      two == si # None /\ isPUSH(y) # None
      equal == Prefix(q, LAMBDA z : isPUSH(z) = si)
      same == Prefix(q, LAMBDA z : Same(x, z))
      n == Len(same)
  IN  First(<<
        On(two /\ Len(equal) >= 2 /\ si <= 15, Len(equal), <<St(makeBLKPUSH(Len(equal), si))>>),
        On(two /\ isPUSH(At(q, 3)) # None /\ \A i \in {si, sj, sk} : i <= 15, 3, <<St(PUSH3_S(si, sj, sk))>>),
        On(two /\ si <= 15 /\ sj <= 15, 2, <<St(PUSH2_S(si, sj))>>),
        On((isPureGen01(x) \/ x.c = "Slice") /\ n >= 2, n, <<x, St(makeBLKPUSH(n - 1, 0))>>),
        On(isXCHG_S0(x) = 1 /\ isPUSH(y) = 1, 2, <<St(TUCK)>>),
        On(si # None /\ isXCHG_S0(y) = 1 /\ si <= 15, 2, <<St(PUXC(si))>>)>>)
=============================================================================
