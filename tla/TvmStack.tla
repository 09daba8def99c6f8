------------------------------ MODULE TvmStack ------------------------------
(***************************************************************************)
(* The stack-manipulation instructions of the TVM as the code generator    *)
(* represents them: class Stack of TvmAst.hpp, the make* constructors and  *)
(* the is* recognisers of TvmAst.cpp, and, as an external component, what  *)
(* each instruction does when the TVM executes it.                         *)
(*                                                                         *)
(* A stack of depth d is a function on 0 .. d-1; slot 0 is the top (s0).   *)
(* A stack instruction computes nothing, it only copies and drops slots,   *)
(* so its meaning is a renaming: Src(op, x) is the slot of the old stack   *)
(* whose value slot x of the new stack holds.                              *)
(***************************************************************************)
EXTENDS Integers

-----------------------------------------------------------------------------
(* Class Stack: an opcode with up to three indices; an absent index is -1. *)

StackOp(opcode, i, j, k) == [opcode |-> opcode, i |-> i, j |-> j, k |-> k]

DROP(n)         == StackOp("DROP", n, -1, -1)
BLKDROP2(n, l)  == StackOp("BLKDROP2", n, l, -1)
POP_S(i)        == StackOp("POP_S", i, -1, -1)
BLKPUSH(n, j)   == StackOp("BLKPUSH", n, j, -1)
PUSH2_S(i, j)   == StackOp("PUSH2_S", i, j, -1)
PUSH3_S(i, j, k) == StackOp("PUSH3_S", i, j, k)
PUSH_S(i)       == StackOp("PUSH_S", i, -1, -1)
BLKSWAP(i, j)   == StackOp("BLKSWAP", i, j, -1)
REVERSE(n, j)   == StackOp("REVERSE", n, j, -1)
XCHG(i, j)      == StackOp("XCHG", i, j, -1)
TUCK            == StackOp("TUCK", -1, -1, -1)
PUXC(i)         == StackOp("PUXC", i, -1, -1)

(* Nothing: stands for an instruction that is left out of the output. *)
NOP == StackOp("NOP", -1, -1, -1)

(***************************************************************************)
(* The solAsserts of the make* constructors on the indices.  PUXC is only  *)
(* ever built as PUXC Si, S(-1).                                           *)
(***************************************************************************)
LowerBounds(op) ==
    CASE op.opcode = "DROP"     -> op.i >= 1
      [] op.opcode = "BLKDROP2" -> op.i >= 1 /\ op.j >= 0
      [] op.opcode = "POP_S"    -> op.i >= 1
      [] op.opcode = "BLKPUSH"  -> op.i >= 1 /\ op.j >= 0
      [] op.opcode = "PUSH_S"   -> op.i >= 0
      [] op.opcode = "PUSH2_S"  -> op.i >= 0 /\ op.j >= 0
      [] op.opcode = "PUSH3_S"  -> op.i >= 0 /\ op.j >= 0 /\ op.k >= 0
      [] op.opcode = "BLKSWAP"  -> op.i >= 1 /\ op.j >= 1
      [] op.opcode = "REVERSE"  -> op.i >= 2 /\ op.j >= 0
      [] op.opcode = "XCHG"     -> 0 <= op.i /\ op.i <= op.j
      [] op.opcode = "PUXC"     -> op.i >= 0
      [] OTHER                  -> TRUE

UpperBounds(op) ==
    CASE op.opcode \in {"POP_S", "PUSH_S"} -> op.i <= 255
      [] op.opcode = "BLKPUSH" -> op.j <= 15
      [] op.opcode = "PUSH2_S" -> op.i <= 15 /\ op.j <= 15
      [] op.opcode = "PUSH3_S" -> op.i <= 15 /\ op.j <= 15 /\ op.k <= 15
      [] op.opcode = "PUXC"    -> op.i <= 15
      [] OTHER                 -> TRUE

WellFormed(op) == LowerBounds(op) /\ UpperBounds(op)

(* The instructions the compiler builds, with indices up to n. *)
Indexed(n) ==
    {DROP(i) : i \in 1..n}
      \cup {BLKDROP2(i, j) : i \in 1..n, j \in 1..n}
      \cup {POP_S(i) : i \in 1..n}
      \cup {BLKPUSH(i, j) : i \in 2..n, j \in 0..n}
      \cup {PUSH_S(i) : i \in 0..n}
      \cup {PUSH2_S(i, j) : i \in 0..n, j \in 0..n}
      \cup {PUSH3_S(i, j, k) : i \in 0..n, j \in 0..n, k \in 0..n}
      \cup {BLKSWAP(i, j) : i \in 1..n, j \in 1..n}
      \cup {REVERSE(i, j) : i \in 2..n, j \in 0..n}
      \cup {op \in {XCHG(i, j) : i \in 0..n, j \in 1..n} : op.i < op.j}
      \cup {TUCK}
      \cup {PUXC(i) : i \in 0..n}
StackOps(n) == {op \in Indexed(n) : UpperBounds(op)}

-----------------------------------------------------------------------------
(* The constructors that choose between two opcodes. *)

makeBLKDROP2(droppedCount, leftCount) ==
    IF leftCount = 1 /\ droppedCount = 1 THEN POP_S(1)
    ELSE IF leftCount = 0 THEN DROP(droppedCount)
    ELSE BLKDROP2(droppedCount, leftCount)

makeBLKPUSH(qty, index) ==
    IF qty = 1 THEN PUSH_S(index) ELSE BLKPUSH(qty, index)

-----------------------------------------------------------------------------
(* The recognisers.  Where the code returns an empty optional the result   *)
(* is 0, a value none of them returns otherwise.                           *)

isDrop(op) == IF op.opcode = "DROP" THEN op.i ELSE 0

isPOP(op) ==
    IF op.opcode = "POP_S" THEN op.i
    ELSE IF op = BLKDROP2(1, 1) THEN 1
    ELSE 0

isSWAP(op) == op \in {BLKSWAP(1, 1), XCHG(0, 1), REVERSE(2, 0)}

(* Length of the block that a REVERSE, BLKSWAP or XCHG S0 rearranges. *)
RearrangedLen(op) ==
    IF op.opcode = "REVERSE" THEN op.i + op.j
    ELSE IF op.opcode = "BLKSWAP" THEN op.i + op.j
    ELSE IF op.opcode = "XCHG" /\ op.i = 0 THEN op.j + 1
    ELSE 0

-----------------------------------------------------------------------------
(* Execution by the TVM (external). *)

(* How many slots the depth changes by. *)
Delta(op) ==
    CASE op.opcode = "DROP"     -> -op.i
      [] op.opcode = "BLKDROP2" -> -op.i
      [] op.opcode = "POP_S"    -> -1
      [] op.opcode = "BLKPUSH"  -> op.i
      [] op.opcode = "PUSH2_S"  -> 2
      [] op.opcode = "PUSH3_S"  -> 3
      [] op.opcode \in {"PUSH_S", "TUCK", "PUXC"} -> 1
      [] OTHER -> 0

LargerOf(a, b) == IF a >= b THEN a ELSE b

(* How many slots must exist for the instruction not to underflow. *)
Need(op) ==
    CASE op.opcode = "DROP"     -> op.i
      [] op.opcode = "BLKDROP2" -> op.i + op.j
      [] op.opcode = "POP_S"    -> op.i + 1
      [] op.opcode = "BLKPUSH"  -> op.j + 1
      [] op.opcode = "PUSH_S"   -> op.i + 1
      [] op.opcode = "PUSH2_S"  -> LargerOf(op.i, op.j) + 1
      [] op.opcode = "PUSH3_S"  -> LargerOf(op.i, LargerOf(op.j, op.k)) + 1
      [] op.opcode = "BLKSWAP"  -> op.i + op.j
      [] op.opcode = "REVERSE"  -> op.i + op.j
      [] op.opcode = "XCHG"     -> LargerOf(op.i, op.j) + 1
      [] op.opcode = "TUCK"     -> 2
      [] op.opcode = "PUXC"     -> op.i + 1
      [] OTHER -> 0

(***************************************************************************)
(* The old slot that new slot x holds.  BLKPUSH n, j executes PUSH Sj n    *)
(* times: every push shifts the stack under it, so it copies s(j), s(j-1), *)
(* ... and starts again after s0.  TUCK is SWAP; OVER and PUXC Si, S(-1)   *)
(* is PUSH Si; SWAP.                                                       *)
(***************************************************************************)
Src(op, x) ==
    CASE op.opcode = "DROP"     -> x + op.i
      [] op.opcode = "BLKDROP2" -> IF x < op.j THEN x ELSE x + op.i
      [] op.opcode = "POP_S"    -> IF x = op.i - 1 THEN 0 ELSE x + 1
      [] op.opcode = "BLKPUSH"  -> IF x < op.i
                                   THEN op.j - ((op.i - 1 - x) % (op.j + 1))
                                   ELSE x - op.i
      [] op.opcode = "PUSH_S"   -> IF x = 0 THEN op.i ELSE x - 1
      [] op.opcode = "PUSH2_S"  -> IF x = 0 THEN op.j
                                   ELSE IF x = 1 THEN op.i ELSE x - 2
      [] op.opcode = "PUSH3_S"  -> IF x = 0 THEN op.k
                                   ELSE IF x = 1 THEN op.j
                                   ELSE IF x = 2 THEN op.i ELSE x - 3
      [] op.opcode = "BLKSWAP"  -> IF x < op.i THEN x + op.j
                                   ELSE IF x < op.i + op.j THEN x - op.i
                                   ELSE x
      [] op.opcode = "REVERSE"  -> IF op.j <= x /\ x < op.j + op.i
                                   THEN 2 * op.j + op.i - 1 - x ELSE x
      [] op.opcode = "XCHG"     -> IF x = op.i THEN op.j
                                   ELSE IF x = op.j THEN op.i ELSE x
      [] op.opcode = "TUCK"     -> IF x = 0 THEN 0
                                   ELSE IF x = 1 THEN 1
                                   ELSE IF x = 2 THEN 0 ELSE x - 1
      [] op.opcode = "PUXC"     -> IF x = 0 THEN 0
                                   ELSE IF x = 1 THEN op.i ELSE x - 1
      [] OTHER -> x

(***************************************************************************)
(* The old slot whose place new slot x is, or -1 for a slot the            *)
(* instruction creates.  It differs from Src where a value is copied into  *)
(* a slot: POP_S i assigns to the variable in slot i, the variable stays.  *)
(***************************************************************************)
Place(op, x) ==
    CASE op.opcode = "POP_S"   -> x + 1
      [] op.opcode = "BLKPUSH" -> IF x < op.i THEN -1 ELSE x - op.i
      [] op.opcode = "PUSH_S"  -> x - 1
      [] op.opcode = "PUSH2_S" -> IF x < 2 THEN -1 ELSE x - 2
      [] op.opcode = "PUSH3_S" -> IF x < 3 THEN -1 ELSE x - 3
      [] op.opcode = "TUCK"    -> IF x = 0 THEN -1
                                  ELSE IF x = 1 THEN 1
                                  ELSE IF x = 2 THEN 0 ELSE x - 1
      [] op.opcode = "PUXC"    -> IF x = 0 THEN 0
                                  ELSE IF x = 1 THEN -1 ELSE x - 1
      [] OTHER -> Src(op, x)

(* The stack after op, from stack s of depth d. *)
Exec(op, s, d) == [x \in 0..(d + Delta(op) - 1) |-> s[Src(op, x)]]

(* An instruction that pops t values and pushes new[0], ..., new[r-1]. *)
Replace(s, d, t, new, r) ==
    [x \in 0..(d - t + r - 1) |-> IF x < r THEN new[x] ELSE s[x - r + t]]
=============================================================================
