----------------------------- MODULE MCPeephole -----------------------------
(***************************************************************************)
(* The functions that the optimizers are run on.  Every rule of the        *)
(* peephole optimizer rewrites some of them.  Numbers have 10 bits and a   *)
(* sign, cells 24 bits, and StackOpcodeSquasher permutes 5 values.         *)
(***************************************************************************)
EXTENDS Peephole

Prog(c, stacks) == [code |-> c, in |-> stacks, straight |-> TRUE]
Branching(c, stacks) == [code |-> c, in |-> stacks, straight |-> FALSE]
Seqs(S, n) == [1 .. n -> S]

-----------------------------------------------------------------------------
(* Stack instructions.                                                     *)

ThingsOf(n) == {[i \in 1 .. n |-> Thing(i)]}
Few == {St(DROP(1)), St(PUSH_S(0)), St(PUSH_S(1)), St(XCHG(0, 1)), St(XCHG(0, 2)), St(XCHG(1, 2)), St(BLKSWAP(1, 2)),
        St(BLKSWAP(2, 1)), St(POP_S(1)), St(POP_S(2)), St(BLKDROP2(1, 2)), St(REVERSE(3, 0)), gen1("NULL")}
More == Few \cup
  {St(DROP(2)), St(DROP(3)), St(PUSH_S(2)), St(PUSH_S(3)), St(POP_S(3)), St(POP_S(4)), St(BLKDROP2(2, 1)), St(BLKDROP2(2, 2)),
   St(BLKDROP2(3, 1)), St(BLKDROP2(3, 2)), St(BLKDROP2(1, 3)), St(BLKDROP2(8, 3)), St(REVERSE(2, 1)), St(REVERSE(3, 1)), St(REVERSE(4, 0)),
   St(BLKPUSH(2, 0)), St(BLKPUSH(2, 1)), St(BLKPUSH(3, 2)), St(BLKPUSH(2, 3)), St(BLKPUSH(8, 0)), St(BLKSWAP(2, 2)),
   St(BLKSWAP(1, 3)), St(BLKSWAP(3, 1)), St(BLKSWAP(1, 1)), St(PUSH2_S(1, 2)), St(TUCK), St(PUXC(1)), PUSHINT(7)}
Stacks2 == {Prog(<<x, y>>, ThingsOf(14)) : x \in More, y \in Few} \cup {Prog(<<x, y>>, ThingsOf(14)) : x \in Few, y \in More}
             \cup {Prog(<<x, x>>, ThingsOf(16)) : x \in More}
Stacks3 == {Prog(c, ThingsOf(8)) : c \in Seqs(Few \ {St(XCHG(1, 2)), St(PUSH_S(0)), St(DROP(1)), St(POP_S(1)), gen1("NULL")}, 3)}
ReversedPops == {Prog(<<St(REVERSE(3, 0)), St(POP_S(a)), St(POP_S(b)), St(POP_S(c))>>, ThingsOf(10)) :
                   a \in 1 .. 5, b \in 1 .. 5, c \in 1 .. 4}
Repeated == {Prog([i \in 1 .. n |-> St(POP_S(n))], ThingsOf(10)) : n \in 2 .. 4}
  \cup {Prog([i \in 1 .. (n + 1) |-> St(BLKSWAP(n, 1))], ThingsOf(10)) : n \in 1 .. 3}
  \cup {Prog([i \in 1 .. n |-> St(BLKSWAP(1, i + k))], ThingsOf(12)) : n \in 2 .. 5, k \in 0 .. 2}
  \cup {Prog([i \in 1 .. n |-> St(PUSH_S(k))], ThingsOf(12)) : n \in 2 .. 5, k \in 0 .. 3}
  \cup {Prog([i \in 1 .. n |-> St(PUSH_S(k))], ThingsOf(16)) : n \in 15 .. 17, k \in {0, 1, 15}}
  \cup {Prog(<<St(BLKSWAP(1, n)), gen1("NULL"), St(XCHG(0, 1))>>, ThingsOf(6)) : n \in 1 .. 3}
  \cup {Prog([i \in 1 .. n |-> gen1("NULL")], ThingsOf(1)) : n \in 2 .. 17}
\* Operands that the short instructions have no room for
Large == {Prog(<<St(op)>>, ThingsOf(40)) : op \in
            {DROP(15), DROP(16), BLKSWAP(1, 16), BLKSWAP(1, 17), BLKSWAP(16, 1), BLKSWAP(17, 1), BLKSWAP(16, 16),
             BLKSWAP(17, 2), BLKSWAP(2, 17), BLKDROP2(15, 15), BLKDROP2(16, 2), BLKDROP2(2, 16), BLKDROP2(1, 16), BLKDROP2(3, 16),
             REVERSE(17, 15), REVERSE(18, 0), REVERSE(3, 16), BLKPUSH(15, 0), BLKPUSH(31, 0), BLKPUSH(2, 15),
             PUSH_S(16), POP_S(17), XCHG(0, 16)}}
  \cup {Prog(<<St(DROP(10)), St(DROP(10))>>, ThingsOf(40)), Prog(<<St(BLKDROP2(8, 3)), St(BLKDROP2(7, 3))>>, ThingsOf(40)),
        Prog(<<St(BLKPUSH(9, 0)), St(BLKPUSH(6, 0))>>, ThingsOf(2)), Prog(<<St(BLKPUSH(9, 0)), St(BLKPUSH(9, 0))>>, ThingsOf(2))}

-----------------------------------------------------------------------------
(* Numbers.                                                                *)

IntStacks == {<<Num(p[1]), Num(p[2]), Num(3), Num(4)>> : p \in {<<-5, -1>>, <<0, 2>>, <<6, 7>>, <<300, 2>>, <<6, -1>>}}
\* The result of a comparison on top
Flags == {<<Truth(a), Truth(b), Num(2), Num(4)>> : a \in BOOLEAN, b \in BOOLEAN}
Constants == {-129, -128, -2, -1, 0, 1, 2, 4, 5, 10, 126, 127, 128, 129, 256, 511, 512, 1000}
Operations == {gen1(op) : op \in BinaryOps \cup {"LSHIFT", "RSHIFT"}}
Steps == {gen1("INC"), gen1("DEC"), genN("ADDCONST", 5), genN("ADDCONST", 1), genN("ADDCONST", -1), genN("ADDCONST", 0),
          genN("ADDCONST", 127), genN("MULCONST", 1), genN("MULCONST", -1)}
Checks == {genN(op, n) : op \in {"UFITS", "FITS"}, n \in {4, 10}}

Constant1 == {Prog(<<PUSHINT(v), op>>, IntStacks) : v \in Constants, op \in Operations}
Compared == {Prog(<<PUSHINT(v), y, op>>, IntStacks) : v \in {-129, -1, 0, 127, 200}, y \in {St(PUSH_S(1)), St(PUSH_S(2)), PUSHINT(-1), PUSHINT(3)}, op \in Operations}
Swapped == {Prog(<<St(XCHG(0, 1)), op>>, IntStacks) : op \in Operations}
Shifted == {Prog(<<gen1("MUL"), genN("RSHIFT", n)>>, IntStacks) : n \in {1, 3, 10, NoArg}}
Unary1 == {genN(op, 3) : op \in {"LSHIFT", "RSHIFT", "MODPOW2", "EQINT", "NEQINT", "GTINT", "LESSINT"}}
            \cup {gen1("NOT"), gen1("NEGATE"), gen1("ABS"), gen1("ISNULL")}
Unaries == Unary1 \cup Steps \cup Checks
Chained == {Prog(<<x, y>>, IntStacks) : x \in Unaries, y \in Unaries \cup {St(DROP(1)), St(DROP(2))}}
Sums == {Prog(<<PUSHINT(a), gen1(x), PUSHINT(b), gen1(y)>>, IntStacks) : a \in {0, 5, 200}, b \in {1, 300}, x \in {"ADD", "SUB"}, y \in {"ADD", "SUB"}}
  \cup {Prog(<<x, c, y, c>>, IntStacks) : x \in {gen1("INC"), genN("ADDCONST", 127)}, y \in Steps, c \in Checks}
\* Truth values and the exceptions that depend on them
Push1 == {gen1("TRUE"), gen1("FALSE"), gen1("NULL"), PUSHSYM, PUSHINT(0)}
Throwing == {Exc(op, 100) : op \in {"THROWIF", "THROWIFNOT"}}
Thrown == {Prog(<<x, y>>, Flags) : x \in {gen1("NOT"), genN("EQINT", 0), genN("NEQINT", 0), gen1("TRUE"), gen1("FALSE"), gen1("AND")}, y \in Throwing}
  \cup {Prog(<<St(PUSH_S(0)), y, St(DROP(n))>>, Flags) : y \in Throwing, n \in 1 .. 2}
  \cup {Prog(<<Exc("THROW", 100), y>>, Flags) : y \in Throwing \cup {St(DROP(1)), Loc(5)}}
  \cup {Prog(<<PUSHINT(150), Exc("THROWANY", NoArg), y>>, Flags) : y \in Throwing}
  \cup {Prog(<<x, y>>, Flags) : x \in Push1, y \in {gen1("ISNULL"), gen1("AND"), gen1("EQUAL")}}
  \cup {Prog(<<x, St(PUSH_S(0)), y>>, Flags) : x \in Push1, y \in Push1 \cup {gen1("ISNULL")}}
  \cup {Prog(<<St(PUSH_S(0)), LogCircuit("AND", <<St(DROP(1)), gen1("TRUE")>>)>>, Flags)}

(* Tuples and global variables.                                            *)

Deep == TupleVal(<<TupleVal(<<Num(1), TupleVal(<<Num(2), Num(3), Num(4), Num(5)>>)>>), Num(6)>>)
Long == TupleVal([i \in 1 .. 20 |-> Num(i)])
Index1(i) == genN("INDEX_NOEXCEP", i)
Tuples == {Prog(<<genN("TUPLE", n), genN("UNTUPLE", k)>>, IntStacks) : n \in 1 .. 4, k \in 1 .. 4}
  \cup {Prog(<<genN("UNTUPLE", 1), genN("TUPLE", 1)>>, {<<TupleVal(<<Num(1)>>)>>})}
  \cup {Prog(<<Index1(0), Index1(1), Index1(i)>>, {<<Deep>>}) : i \in 0 .. 3} \cup {Prog(<<Index1(0), Index1(0)>>, {<<Deep>>})}
  \cup {Prog(<<genN("INDEX_EXCEP", i)>>, {<<Long>>}) : i \in {2, 3, 15, 16, 19, 20}}
  \cup {Prog(<<St(PUSH_S(0)), gen1("ISNULL"), Exc("THROWIF", 63), genN("UNTUPLE", 1)>>, {<<TupleVal(<<NullValue>>)>>, <<NullValue>>})}
  \cup {Prog(<<Glob("SET", i), Glob("GET", j), x>>, IntStacks) : i \in {1, 40}, j \in {0, 1, 40}, x \in {gen1("ADD"), St(DROP(1))}}

-----------------------------------------------------------------------------
(* Builders and slices.                                                    *)

Bits(n, v) == binaryStringToSlice(toBits(v, n))
Const(bits) == genS("STSLICECONST", bits)
Pushed(bits) == PushSlice("PUSHSLICE", bits)
Digits(s) == [n |-> s, tag |-> "bit"]
Stores == {<<gen1("STZERO")>>, <<gen1("STONE")>>, <<Const(Bits(3, 5))>>, <<Const(Digits(<<1, 0>>))>>, <<PUSHINT(2), genN("STUR", 2)>>,
           <<PUSHINT(-1), genN("STIR", 3)>>, <<PUSHINT(0), genN("STUR", 3)>>, <<PUSHINT(1), gen1("STZEROES")>>, <<Pushed(Bits(3, 4)), gen1("STSLICER")>>}
Opening == {<<gen1("NEWC")>>, <<Pushed(Bits(2, 3)), gen1("NEWC"), gen1("STSLICE")>>, <<PUSHINT(2), gen1("NEWC"), genN("STU", 2)>>,
            <<gen1("TRUE"), gen1("NEWC"), genN("STI", 1)>>}
Closing == {<<>>, <<gen1("ENDC")>>}
Built == {Prog(o \o a \o b \o c, {<<>>}) : o \in Opening, a \in Stores, b \in {<<>>, <<gen1("STONE")>>, <<PUSHINT(2), genN("STUR", 2)>>}, c \in Closing}
  \cup {Prog(a \o b \o c, {<<BuilderOf(<<>>, <<>>), Num(1)>>, <<BuilderOf([i \in 1 .. 20 |-> 1], <<>>), Num(1)>>}) :
          a \in Stores, b \in Stores, c \in {<<gen1("STONE")>>, <<PUSHINT(2), genN("STUR", 2)>>, <<gen1("ENDC")>>}}
\* Constants of which some do not fit a cell, PUSHSLICE, STSLICECONST or STU
Lengths == {<<1, 6>>, <<1, 7>>, <<5, 15>>, <<6, 15>>, <<6, 18>>, <<6, 19>>}
Long2 == {Prog(<<gen1("NEWC"), Pushed(Bits(p[1], 2 ^ (p[1] - 1))), gen1("STSLICER"), Pushed(Bits(p[2], v * 2 ^ (p[2] - 2))), gen1("STSLICER")>> \o c, {<<>>}) :
            p \in Lengths, v \in {0, 2, 3}, c \in Closing}
  \cup {Prog(<<Pushed(Bits(p[2], 2 ^ (p[2] - 1) + 5)), gen1("NEWC"), Const(Bits(p[1], 2 ^ (p[1] - 1))), gen1("STSLICE")>>, {<<>>}) : p \in Lengths}
  \cup {Prog(<<PUSHINT(5), gen1("NEWC"), Const(Bits(p[1], 2 ^ (p[1] - 1))), genN("STU", Min({p[2], 10}))>>, {<<>>}) : p \in Lengths}
  \cup {Prog(<<Pushed(Bits(p[2], 2 ^ (p[2] - 1) + 5)), Pushed(Bits(p[1], 2 ^ (p[1] - 1))), gen1("NEWC"), gen1("STSLICE"), gen1("STSLICE")>>, {<<>>}) : p \in Lengths}
  \cup {Prog(<<PUSHINT(5), Pushed(Bits(p[1], 2 ^ (p[1] - 1))), gen1("NEWC"), gen1("STSLICE"), genN("STU", Min({p[2], 10}))>>, {<<>>}) : p \in Lengths}
  \cup {Prog(<<Pushed(Bits(p[2], 2 ^ (p[2] - 1) + 5)), gen1("NEWC"), gen1("STSLICE"), gen1("NEWC"), Const(Bits(p[1], 2 ^ (p[1] - 1))), gen1("STB")>>, {<<>>}) : p \in Lengths}
  \cup {Prog(<<PUSHINT(0), genN("STUR", n), PUSHINT(v), genN("STUR", 4)>>, {<<BuilderOf(<<1>>, <<>>)>>}) : n \in {3, 6, 7, 10}, v \in {0, 5}}
BuilderStacks == {<<BuilderOf(<<1, 0>>, <<>>), BuilderOf(<<1>>, <<>>)>>}
AnyStore == {genN("STU", 3), genN("STI", 3), gen1("STSLICE"), gen1("STREF"), gen1("STB"), genN("STUR", 3), genN("STIR", 3),
             gen1("STSLICER"), gen1("STREFR"), gen1("STBR"), gen1("STBREFR"), gen1("STBREF")}
StoredValue(op) == CASE op \in {"STU", "STI", "STUR", "STIR"} -> Num(3) [] op \in {"STSLICE", "STSLICER"} -> SliceOf(<<1, 1>>, <<>>)
                     [] op \in {"STREF", "STREFR"} -> CellOf(<<1>>, <<>>) [] OTHER -> BuilderOf(<<1>>, <<>>)
OneStore == {Prog(<<St(XCHG(0, 1)), op>>, {<<StoredValue(op.op), BuilderOf(<<0>>, <<>>)>>, <<BuilderOf(<<0>>, <<>>), StoredValue(op.op)>>}) : op \in AnyStore}
  \cup {Prog(<<gen1("NEWC"), Glob("GET", 3), op>>, {<<>>}) : op \in {genN("STUR", 3), genN("STIR", 3)}}
  \cup {Prog(<<gen1("NEWC"), gen1("ENDC"), gen1("STREFR")>>, BuilderStacks)}
  \cup {Prog(<<gen1("ENDC"), gen1("STREFR")>>, BuilderStacks)}
  \cup {Prog(<<Pushed(Bits(3, 5)), gen1("NEWC"), gen1("STSLICE"), gen1("STBREFR")>>, BuilderStacks)}
  \cup {Prog(<<gen1("NEWC"), Const(Bits(3, 5)), gen1("ENDC")>>, {<<>>})}
  \cup {Prog(<<gen1(x), genN("STIR", 1)>>, BuilderStacks) : x \in {"TRUE", "FALSE"}}
Loads == {Prog(<<op, St(DROP(n))>>, {<<SliceOf(<<1, 0, 1, 1>>, <<CellOf(<<1>>, <<>>)>>), Num(1)>>, <<SliceOf(<<1>>, <<>>), Num(1)>>}) :
            op \in {genN("LDU", 3), genN("LDI", 3), gen1("LDREF")}, n \in 1 .. 2}
  \cup {Prog(<<PUSHINT(2), gen1(op), St(DROP(1))>>, {<<SliceOf(<<1, 0, 1>>, <<>>)>>}) : op \in {"LDUX", "LDIX"}}
\* The same constant many times: SizeOptimizer
Often == {Prog(FlattenSeq([i \in 1 .. n |-> <<Pushed(Bits(16, 40000)), gen1("NULL")>>]), {<<>>}) : n \in 1 .. 4}

-----------------------------------------------------------------------------
(* Blocks.                                                                 *)

Blocks == {<<>>, <<gen1("NULL")>>, <<PUSHINT(0)>>, <<PUSHINT(0), St(XCHG(0, 1))>>, <<gen1("NULL"), St(XCHG(0, 1))>>, <<PUSHINT(5), St(XCHG(0, 1))>>,
           <<Exc("THROW", 100)>>, <<Ret("RETALT")>>, <<Ret("RET")>>, <<Loc(3), gen1("TRUE")>>,
           <<SubProgram(FALSE, <<PUSHINT(6)>>, "PUSHREFCONT")>>, <<ReturnOrBreakOrCont(0, <<St(DROP(1)), Ret("RET")>>), gen1("NULL")>>}
FewBlocks == {<<>>, <<PUSHINT(5), St(XCHG(0, 1))>>, <<Ret("RET")>>}
Conts == {"PUSHCONT", "PUSHREFCONT"}
After == {<<>>, <<PUSHINT(9)>>}
Conditionals2 == {Branching(<<If1(no, jmp, t, ty)>> \o z, Flags) : no \in BOOLEAN, jmp \in BOOLEAN, t \in Blocks, ty \in Conts, z \in After}
Choices2 == {Branching(<<IfElse(jmp, t, "PUSHCONT", f, "PUSHCONT", 0)>> \o z, Flags) : jmp \in BOOLEAN, t \in Blocks, f \in Blocks, z \in After}
  \cup {Branching(<<IfElse(jmp, t, ty, f, fy, 0), PUSHINT(9)>>, Flags) : jmp \in BOOLEAN, t \in FewBlocks, f \in FewBlocks, ty \in Conts, fy \in Conts}
Negated == {Branching(<<x, If1(no, FALSE, <<PUSHINT(5)>>, "PUSHCONT")>>, Flags) : x \in {gen1("NOT"), genN("EQINT", 0), genN("NEQINT", 0), gen1("TRUE")}, no \in BOOLEAN}
  \cup {Branching(<<x, IfElse(FALSE, <<PUSHINT(5)>>, "PUSHCONT", <<PUSHINT(6), gen1("INC")>>, "PUSHCONT", 0)>>, Flags) :
           x \in {gen1("NOT"), genN("EQINT", 0), genN("NEQINT", 0), gen1("TRUE")}}
\* Blocks that are called or jumped to
Subs == {Branching(<<SubProgram(jmp, t, ty)>> \o z, Flags) : jmp \in BOOLEAN, t \in Blocks, ty \in Conts, z \in After}
  \cup {Branching(<<SubProgram(FALSE, <<Loc(1), SubProgram(FALSE, t, ty)>>, "PUSHCONT")>> \o z, Flags) : t \in Blocks, ty \in Conts, z \in After}
\* Loops over a counter, left in the middle or at the end; one that never ends
Counted == <<St(PUSH_S(0)), genN("GTINT", 0)>>
LoopBodies == {<<gen1("DEC")>>, <<gen1("DEC"), St(PUSH_S(0)), genN("EQINT", 1), Ret("IFRETALT")>>, <<Ret("RETALT")>>, <<gen1("DEC"), Ret("RET"), gen1("NULL")>>,
               <<gen1("DEC"), If1(FALSE, TRUE, <<Exc("THROW", 100)>>, "PUSHCONT")>>}
Loops == {Branching(<<While(FALSE, brk, c, b)>> \o z, {<<Num(2), Num(0)>>, <<Num(0), Num(7)>>}) :
            brk \in {TRUE}, c \in {Counted, <<gen1("TRUE")>>}, b \in LoopBodies, z \in After}
\* && and ||, and their expansion when the right side is pure
Circuits == {Branching(<<St(PUSH_S(0)), LogCircuit(op, b)>> \o z, Flags) : op \in {"AND", "OR"}, z \in After,
               b \in {<<St(DROP(1)), gen1("TRUE")>>, <<St(DROP(1)), Glob("GET", 0)>>, <<St(DROP(1)), Glob("GET", 2)>>,
                      <<St(DROP(1)), Loc(4), Exc("THROW", 100)>>, <<St(DROP(1)), St(PUSH_S(0)), genN("EQINT", 0)>>,
                      <<St(DROP(1)), PUSHINT(0), PUSHINT(0), gen1("DIV")>>}}
Opaques == {Branching(<<x, Opaque(0, 1, pure, b), y>>, Flags) : pure \in {TRUE}, b \in {<<PUSHINT(3), gen1("INC")>>, <<gen1("NULL"), Loc(2), gen1("ISNULL")>>},
              x \in {gen1("TRUE"), St(PUSH_S(0))}, y \in {St(DROP(1)), St(XCHG(0, 1)), gen1("AND")}}

-----------------------------------------------------------------------------
(* .loc lines between the instructions.                                    *)

Bodies == {<<St(PUSH_S(0)), St(DROP(1)), PUSHINT(1)>>, <<gen1("TRUE"), St(PUSH_S(1)), St(POP_S(1))>>, <<St(DROP(1)), St(DROP(1)), St(DROP(1))>>,
           <<PUSHINT(1), gen1("ADD"), genN("ADDCONST", 3)>>, <<St(XCHG(0, 1)), St(XCHG(0, 1)), Ret("RET")>>,
           <<St(BLKSWAP(1, 1)), St(BLKSWAP(1, 1)), gen1("NULL")>>, <<Exc("THROW", 100), gen1("NULL"), gen1("ADD")>>}
\* Where the lines are: before the first, second, third instruction and after the last one
Lined(b, at) == FlattenSeq([i \in 1 .. 4 |-> (IF i \in at THEN <<Loc(i)>> ELSE <<>>) \o (IF i \in DOMAIN b THEN <<b[i]>> ELSE <<>>)])
Lineds == {Prog(Lined(b, at), IntStacks) : b \in Bodies, at \in SUBSET (1 .. 4)}

\* LET keeps the cost statistics of TLC away from the programs.
MCPrograms ==
  LET families ==
    Stacks2 \cup Stacks3 \cup ReversedPops \cup Repeated \cup Large
      \cup Constant1 \cup Compared \cup Swapped \cup Shifted \cup Chained \cup Sums \cup Thrown \cup Tuples
      \cup Built \cup Long2 \cup OneStore \cup Loads \cup Often
      \cup Conditionals2 \cup Choices2 \cup Negated \cup Subs \cup Loops \cup Circuits \cup Opaques \cup Lineds
  IN  families
MCGlobals == [i \in 0 .. 40 |-> Num(i)]
=============================================================================
