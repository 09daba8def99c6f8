----------------------------- MODULE CodePasses -----------------------------
(***************************************************************************)
(* The small passes over the code of a function that come before and after *)
(* the peephole optimizer (TvmAstVisitor.cpp, SizeOptimizer.cpp), and      *)
(* Printer, which writes the code as TVM assembler.                        *)
(***************************************************************************)
EXTENDS TvmNodes

CONSTANT MinOldSize  \* 500: the size at which SizeOptimizer starts to act

-----------------------------------------------------------------------------
(* Nothing is executed after a return, a throw or an IFELSE that jumps.    *)

Leaves(n) == n.c = "RBC" \/ isExc(n, {"THROW", "THROWANY"}) \/ (n.c = "If" /\ n.fy # "" /\ n.jmp)
RECURSIVE DeleterAfterRet(_)
DeleterAfterRet(code) ==
  LET inner == [i \in DOMAIN code |-> [code[i] EXCEPT !.t = DeleterAfterRet(@), !.f = DeleterAfterRet(@)]]
      left == {i \in DOMAIN code : Leaves(code[i])}
      end == IF left = {} THEN Len(code) ELSE Min(left)
  IN  SubSeq(inner, 1, end) \o SelectSeq(SubSeq(inner, end + 1, Len(inner)), LAMBDA n : n.c = "Loc")

\* A function whose only instruction calls a block
DeleterCallX(code) ==
  IF Len(Live(code)) = 1 /\ Live(code)[1].c = "Sub"
  THEN FlattenSeq([i \in DOMAIN code |-> IF code[i].c = "Loc" THEN <<code[i]>> ELSE code[i].t])
  ELSE code

\* Of adjacent .loc lines the last one is left, and of equal ones in a block the first.
RECURSIVE LocSquasher(_)
LocSquasher(code) ==
  LET isLoc(i) == code[i].c = "Loc"
      last == SelectSeq([i \in DOMAIN code |-> i], LAMBDA i : ~(isLoc(i) /\ i < Len(code) /\ isLoc(i + 1)))
      before(i) == {j \in 1 .. (i - 1) : isLoc(last[j])}
      repeated(i) == isLoc(last[i]) /\ before(i) # {} /\ code[last[Max(before(i))]] = code[last[i]]
      kept == SelectSeq([i \in DOMAIN last |-> i], LAMBDA i : ~repeated(i))
  IN  [i \in DOMAIN kept |-> [code[last[kept[i]]] EXCEPT !.t = LocSquasher(@), !.f = LocSquasher(@)]]

-----------------------------------------------------------------------------
(* LogCircuitExpander: a second operand of && or || that is pure is        *)
(* computed without a jump.                                                *)

\* size: the depth of the stack above the first operand's place; inst: the code with the
\* first operand left on the stack
isPureOperation(acc, op, lastOne) ==
  LET grow(d, n) == [acc EXCEPT !.size = @ + d, !.inst = Append(@, n)]
      moved == IF op.st.i + 1 < acc.size THEN op.st.i ELSE op.st.i + 1
  IN  IF isPure(op) THEN grow(takeRet(op)[2] - takeRet(op)[1], op)
      ELSE IF op.c = "Log" THEN [grow(-1, op) EXCEPT !.pure = @ /\ lastOne]
      ELSE IF op.st.opcode = "PUSH_S" THEN grow(1, St(PUSH_S(moved)))
      ELSE [acc EXCEPT !.pure = FALSE]

\* What replaces DUP and the node of a circuit; nothing when it stays
expanded(lc) ==
  LET n == Len(lc.t)
      acc == FoldLeft(LAMBDA a, i : isPureOperation(a, lc.t[i], i = n),
                      [pure |-> TRUE, size |-> 1, inst |-> <<>>], [i \in 1 .. (n - 1) |-> i + 1])
      tail == Last(acc.inst)
      chained == tail.c = "Log"
      inst == IF chained THEN SubSeq(acc.inst, 1, Len(acc.inst) - 2) ELSE acc.inst
  IN  IF ~acc.pure \/ (chained /\ tail.op # lc.op) THEN <<>>
      ELSE Append(inst, gen1(lc.op)) \o (IF chained THEN <<St(PUSH_S(0)), tail>> ELSE <<>>)

RECURSIVE LogCircuitExpander(_)
LogCircuitExpander(code) ==
  LET inner == [i \in DOMAIN code |-> [code[i] EXCEPT !.t = LogCircuitExpander(@), !.f = LogCircuitExpander(@)]]
      Expand(block, n) == IF n.c = "Log" /\ expanded(n) # <<>> THEN Front(block) \o expanded(n) ELSE Append(block, n)
  IN  FoldLeft(Expand, <<>>, inner)

-----------------------------------------------------------------------------
(* SizeOptimizer: a slice pushed often enough goes to a cell of its own.   *)

RECURSIVE pushSlices(_)
pushSlices(code) == FlattenSeq([i \in DOMAIN code |->
  IF code[i].c = "Slice" THEN (IF code[i].op = "PUSHSLICE" THEN <<code[i]>> ELSE <<>>)
  ELSE pushSlices(code[i].t) \o pushSlices(code[i].f)])

getRootBitSize(n) == Len(toBitString(n.s))
updToRef(slice, all) ==
  LET qty == Len(SelectSeq(all, LAMBDA n : n = slice))
      oldSize == (12 + getRootBitSize(slice)) * qty
      newSize == 8 * qty + getRootBitSize(slice)
  IN  oldSize >= MinOldSize /\ 10 * oldSize >= 17 * newSize

RECURSIVE SizeOptimized(_, _)
SizeOptimized(code, all) == [i \in DOMAIN code |->
  IF code[i].c = "Slice"
  THEN (IF code[i].op = "PUSHSLICE" /\ updToRef(code[i], all) THEN [code[i] EXCEPT !.op = "PUSHREFSLICE"] ELSE code[i])
  ELSE [code[i] EXCEPT !.t = SizeOptimized(@, all), !.f = SizeOptimized(@, all)]]
SizeOptimizer(code) == SizeOptimized(code, pushSlices(code))

-----------------------------------------------------------------------------
(* Printer.  A line of assembler is a node of class Asm.                   *)

Asm(op) == [Node0 EXCEPT !.c = "Asm", !.op = op]
Asm1(op, a) == [Asm(op) EXCEPT !.a = a]
Asm2(op, a, b) == [Asm1(op, a) EXCEPT !.b = b]
Asm3(op, a, b, k) == [Asm2(op, a, b) EXCEPT !.k = k]
AsmBlock(op, t) == [Asm(op) EXCEPT !.t = t]

printPushInt(n) ==
  IF \E p \in 7 .. IntBits : n = 2 ^ p THEN Asm1("PUSHPOW2", CHOOSE p \in 7 .. IntBits : n = 2 ^ p)
  ELSE IF \E p \in 8 .. IntBits : n = 2 ^ p - 1 THEN Asm1("PUSHPOW2DEC", CHOOSE p \in 8 .. IntBits : n = 2 ^ p - 1)
  ELSE IF \E p \in 8 .. IntBits : n = - 2 ^ p THEN Asm1("PUSHNEGPOW2", CHOOSE p \in 8 .. IntBits : n = - 2 ^ p)
  ELSE Asm1("PUSHINT", n)

printGen(n) ==
  LET tuples == <<"SINGLE", "PAIR", "TRIPLE">>
      untuples == <<"UNSINGLE", "UNPAIR", "UNTRIPLE">>
      indexes == <<"FIRST", "SECOND", "THIRD">>
  IN  IF n.op = "TUPLE" /\ n.a \in 1 .. 3 THEN <<Asm(tuples[n.a])>>
      ELSE IF n.op = "UNTUPLE" /\ n.a \in 1 .. 3 THEN <<Asm(untuples[n.a])>>
      ELSE IF n.op \in {"INDEX_EXCEP", "INDEX_NOEXCEP"}
      THEN IF n.a <= 2 THEN <<Asm(indexes[n.a + 1])>>
           ELSE IF n.a <= 15 THEN <<Asm1("INDEX", n.a)>> ELSE <<printPushInt(n.a), Asm("INDEXVAR")>>
      ELSE IF isPUSHINT(n) THEN <<printPushInt(n.a)>> ELSE <<[n EXCEPT !.c = "Asm"]>>

printGlob(n) == LET op == IF n.op = "GET" THEN "GETGLOB" ELSE "SETGLOB"
                    opVar == IF n.op = "GET" THEN "GETGLOBVAR" ELSE "SETGLOBVAR"
                IN  IF n.a \in 1 .. 31 THEN <<Asm1(op, n.a)>> ELSE <<printPushInt(n.a), Asm(opVar)>>

\* drop(n) inside visit(Stack): BLKDROP is followed by all the indices of the node.
printDrop(n, j) == IF n = 1 THEN <<Asm("DROP")>>
                   ELSE IF n = 2 THEN <<Asm("DROP2")>>
                   ELSE IF n <= 15 THEN <<IF j = -1 THEN Asm1("BLKDROP", n) ELSE Asm2("BLKDROP", n, j)>>
                   ELSE <<printPushInt(n), Asm("DROPX")>>
printSwap(bottom, top) ==
  LET short == bottom \in 1 .. 16 /\ top \in 1 .. 16
  IN  IF <<bottom, top>> = <<1, 1>> THEN <<Asm("SWAP")>>
      ELSE IF <<bottom, top>> = <<1, 2>> THEN <<Asm("ROT")>>
      ELSE IF <<bottom, top>> = <<2, 1>> THEN <<Asm("ROTREV")>>
      ELSE IF <<bottom, top>> = <<2, 2>> THEN <<Asm("SWAP2")>>
      ELSE IF bottom = 1 THEN IF short THEN <<Asm1("ROLL", top)>> ELSE <<printPushInt(top), Asm("ROLLX")>>
      ELSE IF top = 1 THEN IF short THEN <<Asm1("ROLLREV", bottom)>> ELSE <<printPushInt(bottom), Asm("ROLLREVX")>>
      ELSE IF short THEN <<Asm2("BLKSWAP", bottom, top)>>
      ELSE <<printPushInt(bottom), printPushInt(top), Asm("BLKSWX")>>
printReverse(i, j) ==
  IF <<i, j>> = <<2, 0>> THEN <<Asm("SWAP")>>
  ELSE IF <<i, j>> = <<3, 0>> THEN <<Asm1("XCHG", 2)>>
  ELSE IF i <= 17 /\ j <= 15 THEN <<Asm2("REVERSE", i, j)>>
  ELSE <<printPushInt(i), printPushInt(j), Asm("REVX")>>
printBlkPush(i, j) ==
  IF <<i, j>> = <<2, 1>> THEN <<Asm("DUP2")>>
  ELSE IF <<i, j>> = <<2, 3>> THEN <<Asm("OVER2")>>
  ELSE [p \in 1 .. ((i + 14) \div 15) |-> Asm2("BLKPUSH", Min({15, i - 15 * (p - 1)}), j)]

printStack(op) ==
  CASE op.opcode = "DROP" -> printDrop(op.i, -1)
    [] op.opcode = "PUSH_S" -> <<IF op.i = 0 THEN Asm("DUP") ELSE IF op.i = 1 THEN Asm("OVER") ELSE Asm1("PUSH", op.i)>>
    [] op.opcode = "XCHG" -> <<IF op.i # 0 THEN Asm2("XCHG", op.i, op.j)
                              ELSE IF op.j = 1 THEN Asm("SWAP") ELSE Asm1("XCHG", op.j)>>
    [] op.opcode = "BLKDROP2" ->
         IF op.i > 15 \/ op.j > 15 THEN <<printPushInt(op.i), printPushInt(op.j), Asm("BLKSWX")>> \o printDrop(op.i, op.j)
         ELSE <<Asm2("BLKDROP2", op.i, op.j)>>
    [] op.opcode = "PUSH2_S" -> <<IF <<op.i, op.j>> = <<1, 0>> THEN Asm("DUP2")
                                 ELSE IF <<op.i, op.j>> = <<3, 2>> THEN Asm("OVER2") ELSE Asm2("PUSH2", op.i, op.j)>>
    [] op.opcode = "POP_S" -> <<IF op.i = 1 THEN Asm("NIP") ELSE Asm1("POP", op.i)>>
    [] op.opcode = "BLKSWAP" -> printSwap(op.i, op.j)
    [] op.opcode = "REVERSE" -> printReverse(op.i, op.j)
    [] op.opcode = "BLKPUSH" -> printBlkPush(op.i, op.j)
    [] op.opcode = "PUSH3_S" -> <<Asm3("PUSH3", op.i, op.j, op.k)>>
    [] op.opcode = "TUCK" -> <<Asm("TUCK")>>
    [] OTHER -> <<Asm1("PUXC", op.i)>>

\* The assertions of visit(Stack), in every block
RECURSIVE printable(_)
printable(code) == \A i \in DOMAIN code :
  LET op == code[i].st
  IN  /\ op.opcode = "BLKDROP2" => (op.i > 15 \/ op.j > 15 \/ op.i + op.j > 2)
      /\ op.opcode = "REVERSE" => op.i >= 2
      /\ op.opcode = "BLKPUSH" => (op.i <= 15 \/ op.j = 0)
      /\ code[i].c # "Slice" => printable(code[i].t) /\ printable(code[i].f)

\* visit(CodeBlock): PUSHCONT or PUSHREFCONT, both push a continuation
printBlock(t, ty) == IF ty = "None" THEN t ELSE <<AsmBlock(ty, t)>>
printIf(n, t, f) ==
  LET ref == n.ty = "PUSHREFCONT"
      refF == n.fy = "PUSHREFCONT"
      op == CASE n.no /\ n.jmp -> "IFNOTJMP" [] n.no /\ ~n.jmp -> "IFNOT" [] ~n.no /\ n.jmp -> "IFJMP" [] OTHER -> "IF"
      opRef == CASE n.no /\ n.jmp -> "IFNOTJMPREF" [] n.no /\ ~n.jmp -> "IFNOTREF"
                 [] ~n.no /\ n.jmp -> "IFJMPREF" [] OTHER -> "IFREF"
  IN  IF n.fy = "" THEN IF ref THEN <<AsmBlock(opRef, t)>> ELSE printBlock(t, n.ty) \o <<Asm(op)>>
      ELSE IF ref /\ refF THEN <<[AsmBlock("IFREFELSEREF", t) EXCEPT !.f = f]>>
      ELSE IF ref THEN printBlock(f, n.fy) \o <<AsmBlock("IFREFELSE", t)>>
      ELSE IF refF THEN printBlock(t, n.ty) \o <<AsmBlock("IFELSEREF", f)>>
      ELSE printBlock(t, n.ty) \o printBlock(f, n.fy) \o <<Asm("IFELSE")>>
printSub(n, t) == IF n.ty = "PUSHCONT" THEN printBlock(t, n.ty) \o <<Asm(IF n.jmp THEN "JMPX" ELSE "CALLX")>>
                  ELSE <<AsmBlock(IF n.jmp THEN "JMPREF" ELSE "CALLREF", t)>>
printWhile(n, t, f) ==
  (IF n.no THEN <<>> ELSE printBlock(t, n.ty)) \o printBlock(f, n.fy)
    \o <<Asm(CASE n.no /\ n.jmp -> "AGAINBRK" [] n.no /\ ~n.jmp -> "AGAIN" [] ~n.no /\ n.jmp -> "WHILEBRK" [] OTHER -> "WHILE")>>

RECURSIVE Printer(_)
printNode(n, t, f) ==
  CASE n.c = "Gen" -> printGen(n)
    [] n.c = "Glob" -> printGlob(n)
    [] n.c = "Stack" -> printStack(n.st)
    [] n.c = "If" -> printIf(n, t, f)
    [] n.c = "Sub" -> printSub(n, t)
    [] n.c = "While" -> printWhile(n, t, f)
    [] n.c = "Log" -> <<AsmBlock("PUSHCONT", t), Asm(IF n.op = "AND" THEN "IF" ELSE "IFNOT")>>
    [] n.c \in {"Opaque", "RBC"} -> t
    [] OTHER -> <<n>>
Printer(code) == FlattenSeq([i \in DOMAIN code |->
                   printNode(code[i], IF code[i].c = "Slice" THEN <<>> ELSE Printer(code[i].t), Printer(code[i].f))])
=============================================================================
