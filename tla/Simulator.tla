----------------------------- MODULE Simulator -----------------------------
(***************************************************************************)
(* The decisions of TVMSimulator.cpp.  A Simulator walks over the code     *)
(* that follows a point where a SEGMENT of the stack is to be removed and  *)
(* rewrites every instruction for a stack without that segment, until the  *)
(* code drops the segment or an instruction cannot be rewritten.           *)
(*                                                                         *)
(* m is m_stackSize, the number of slots down to the bottom of the         *)
(* segment, and g is m_segment: the segment is the slots m-g .. m-1.       *)
(*                                                                         *)
(* Visiting an instruction yields an outcome: the instruction put into     *)
(* m_commands (NOP if none), the new m_stackSize, and a verdict            *)
(*    "go"       converted, continue,                                      *)
(*    "unable"   m_unableToConvertOpcode,                                  *)
(*    "dropped"  m_isDropped: the instruction removed the segment,         *)
(*    "set"      m_wasSet: the instruction overwrote the segment,          *)
(*    "moved"    m_wasMoved (with m_unableToConvertOpcode): the segment    *)
(*               was rolled to the top.                                    *)
(***************************************************************************)
EXTENDS TvmStack

Outcome(emit, m, verdict) == [emit |-> emit, size |-> m, verdict |-> verdict]
Go(emit, m)      == Outcome(emit, m, "go")
Dropped(emit, m) == Outcome(emit, m, "dropped")
Unable(m)        == Outcome(NOP, m, "unable")

(* Simulator::rest(): the slots above the segment. *)
rest(m, g) == m - g

(* minUpIndex <= x && x <= maxDownIndex *)
InSegment(x, m, g) == m - g <= x /\ x <= m - 1

(* A slot of the stack without the segment, in the stack with it. *)
With(x, m, g) == IF x < m - g THEN x ELSE x + g

(* Mutant: off by one at the bottom of the segment. *)
NewIndexOffByOne(x, m, g) == IF x <= m THEN x ELSE x - g

(* newi, newj, newk: an index in the stack without the segment. *)
NewIndex(x, m, g) == IF x < m - 1 THEN x ELSE x - g

-----------------------------------------------------------------------------
(* visit(Stack), one definition per opcode. *)

VisitPUSH_S(i, m, g) ==
    IF InSegment(i, m, g) THEN Unable(m)
    ELSE IF i < m - 1 THEN Go(PUSH_S(i), m + 1)
    ELSE Go(PUSH_S(NewIndex(i, m, g)), m + 1)

(* Mutant: the test rest() == 0 is missing. *)
VisitPOP_SOnSegment(i, m, g) ==
    IF g = 1 /\ i = 1 /\ m = 2 THEN Dropped(NOP, m)
    ELSE IF i = m - 1 /\ g = 1 THEN Outcome(NOP, m - 1, "set")
    ELSE IF i < m - g THEN Go(POP_S(i), m - 1)
    ELSE IF i > m - 1 THEN Go(POP_S(NewIndex(i, m, g)), m - 1)
    ELSE Unable(m)

VisitPOP_S(i, m, g) ==
    IF g = 1 /\ i = 1 /\ m = 2 THEN Dropped(NOP, m)
    ELSE IF rest(m, g) = 0 THEN Unable(m)
    ELSE IF i = m - 1 /\ g = 1 THEN Outcome(NOP, m - 1, "set")
    ELSE IF i < m - g THEN Go(POP_S(i), m - 1)
    ELSE IF i > m - 1 THEN Go(POP_S(NewIndex(i, m, g)), m - 1)
    ELSE Unable(m)

(* Mutant: the segment is not subtracted. *)
VisitDROPWhole(n, m, g) ==
    IF m <= n THEN Dropped(DROP(n), m)
    ELSE IF rest(m, g) >= n THEN Go(DROP(n), m - n)
    ELSE Unable(m)

VisitDROP(n, m, g) ==
    IF m <= n THEN Dropped(IF n - g > 0 THEN DROP(n - g) ELSE NOP, m)
    ELSE IF rest(m, g) >= n THEN Go(DROP(n), m - n)
    ELSE Unable(m)

VisitBLKDROP2(drop, left, m, g) ==
    IF left >= m THEN Go(makeBLKDROP2(drop, left - g), m)
    ELSE IF left <= rest(m, g) /\ left + drop >= m
         THEN Dropped(IF drop - g > 0 THEN makeBLKDROP2(drop - g, left)
                                      ELSE NOP, m)
    ELSE IF left + drop <= rest(m, g)
         THEN Go(makeBLKDROP2(drop, left), m - drop)
    ELSE Unable(m)

(* The pushed slots j-n+1 .. j and the segment must not meet. *)
VisitBLKPUSH(n, j, m, g) ==
    IF j < m - g \/ m - 1 < j - n + 1
    THEN Go(makeBLKPUSH(n, NewIndex(j, m, g)), m + n)
    ELSE Unable(m)

VisitREVERSE(n, j, m, g) ==
    IF j + n - 1 < m - g THEN Go(REVERSE(n, j), m)
    ELSE IF m - 1 < j THEN Go(REVERSE(n, j - g), m)
    ELSE Unable(m)

(* Mutants: BLKSWAP i, 0 is emitted; a longer BLKSWAP is taken for the one *)
(* that rolls the segment to the top.                                      *)
VisitBLKSWAPZero(i, j, m, g) ==
    IF i = 1 /\ j + i = m
    THEN IF g = 1 THEN Outcome(NOP, m, "moved") ELSE Unable(m)
    ELSE IF i + j <= rest(m, g) THEN Go(BLKSWAP(i, j), m)
    ELSE IF j >= m THEN Go(BLKSWAP(i, j - g), m + i)
    ELSE Unable(m)

VisitBLKSWAPLonger(i, j, m, g) ==
    IF i = 1 /\ j + i >= m
    THEN IF g = 1 THEN Outcome(NOP, m, "moved") ELSE Unable(m)
    ELSE IF i + j <= rest(m, g) THEN Go(BLKSWAP(i, j), m)
    ELSE Unable(m)

VisitBLKSWAP(i, j, m, g) ==
    IF i = 1 /\ j + i = m
    THEN IF g = 1 THEN Outcome(NOP, m, "moved") ELSE Unable(m)
    ELSE IF i + j <= rest(m, g) THEN Go(BLKSWAP(i, j), m)
    ELSE IF j >= m THEN Go(IF j - g >= 1 THEN BLKSWAP(i, j - g) ELSE NOP, m + i)
    ELSE Unable(m)

VisitXCHG(i, j, m, g) ==
    IF InSegment(i, m, g) \/ InSegment(j, m, g) THEN Unable(m)
    ELSE Go(XCHG(NewIndex(i, m, g), NewIndex(j, m, g)), m)

VisitPUSH2_S(i, j, m, g) ==
    IF InSegment(i, m, g) \/ InSegment(j, m, g) THEN Unable(m + 2)
    ELSE Go(PUSH2_S(NewIndex(i, m, g), NewIndex(j, m, g)), m + 2)

VisitPUSH3_S(i, j, k, m, g) ==
    IF InSegment(i, m, g) \/ InSegment(j, m, g) \/ InSegment(k, m, g)
    THEN Unable(m + 3)
    ELSE Go(PUSH3_S(NewIndex(i, m, g), NewIndex(j, m, g), NewIndex(k, m, g)),
            m + 3)

VisitTUCK(m, g) == IF rest(m, g) >= 2 THEN Go(TUCK, m + 1) ELSE Unable(m)

(* The second index is -1: it is never in the segment nor shifted. *)
VisitPUXC(i, m, g) ==
    IF InSegment(i, m, g) \/ rest(m, g) = 0 THEN Unable(m)
    ELSE Go(PUXC(NewIndex(i, m, g)), m + 1)

VisitStack(op, m, g) ==
    CASE op.opcode = "PUSH_S"   -> VisitPUSH_S(op.i, m, g)
      [] op.opcode = "POP_S"    -> VisitPOP_S(op.i, m, g)
      [] op.opcode = "DROP"     -> VisitDROP(op.i, m, g)
      [] op.opcode = "BLKDROP2" -> VisitBLKDROP2(op.i, op.j, m, g)
      [] op.opcode = "BLKPUSH"  -> VisitBLKPUSH(op.i, op.j, m, g)
      [] op.opcode = "REVERSE"  -> VisitREVERSE(op.i, op.j, m, g)
      [] op.opcode = "BLKSWAP"  -> VisitBLKSWAP(op.i, op.j, m, g)
      [] op.opcode = "XCHG"     -> VisitXCHG(op.i, op.j, m, g)
      [] op.opcode = "PUSH2_S"  -> VisitPUSH2_S(op.i, op.j, m, g)
      [] op.opcode = "PUSH3_S"  -> VisitPUSH3_S(op.i, op.j, op.k, m, g)
      [] op.opcode = "TUCK"     -> VisitTUCK(m, g)
      [] op.opcode = "PUXC"     -> VisitPUXC(op.i, m, g)

-----------------------------------------------------------------------------
(* isPopAndDrop: POP n; DROP n-1 with the segment in slot n.  The pair     *)
(* replaces the segment by the top and drops what is between them.         *)
isPopAndDrop(pop, drop, m, g) == g = 1 /\ pop = m - 1 /\ pop = drop + 1

(* Mutant: the instruction may take values of the segment. *)
VisitGenAnywhere(t, r, m, g) ==
    IF t > m THEN Unable(m) ELSE Go(NOP, m + r - t)

(* visit(GenOpcode), visit(Opaque), visit(HardCode), visit(Glob): the      *)
(* instruction takes t values and returns r; it is copied as it is.        *)
VisitGen(t, r, m, g) ==
    IF t > rest(m, g) THEN Unable(m) ELSE Go(NOP, m + r - t)

(* TvmIfElse: m_isDropped is set only when there are two bodies and both   *)
(* of them leave the enclosing code.                                       *)
IfElseDropped(hasElse, trueLeaves, falseLeaves) ==
    hasElse /\ trueLeaves /\ falseLeaves
=============================================================================
