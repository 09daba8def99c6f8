------------------------ MODULE StackOptimizerLemmas ------------------------
(***************************************************************************)
(* What both programs of a trial do to their stacks, for every depth and   *)
(* set of values: the lemmas on which StackOptimizerProofs rests.  They    *)
(* are about stacks and bodies given as parameters, not about the          *)
(* variables.                                                              *)
(*                                                                         *)
(* The first part is what the Simulator does to one stack instruction.     *)
(* It is arithmetic on slot numbers: an instruction is a renaming of slots *)
(* (Src), removing the segment is another one (With), and the instruction  *)
(* the Simulator emits is right when the two commute.                      *)
(***************************************************************************)
EXTENDS StackOptimizer, TLAPS

(* The instruction op, which takes the segment from m - g .. m - 1 to      *)
(* m1 - g .. m1 - 1, neither overwrites nor copies a slot of it.           *)
Spares(op, d, m1, m, g) ==
    /\ m1 \in Int /\ g <= m1 /\ m1 <= d + Delta(op)
    /\ \A x \in (m1 - g)..(m1 - 1) :
         Src(op, x) = x - m1 + m /\ Place(op, x) = x - m1 + m
    /\ \A x \in 0..(d + Delta(op) - 1) :
         ~InSegment(x, m1, g) => ~InSegment(Src(op, x), m, g)

(* On the stack without the segment, e does what op does on the other. *)
Commutes(op, d, e, m1, m, g) ==
    /\ LowerBounds(e) /\ Need(e) <= d - g /\ Delta(e) = Delta(op)
    /\ \A x \in 0..(d + Delta(op) - g - 1) :
         /\ Src(e, x) \in 0..(d - g - 1)
         /\ With(Src(e, x), m, g) = Src(op, With(x, m1, g))

(* After op the stack no longer depends on the segment, and e builds the   *)
(* same stack from the one without the segment.                            *)
Drops(op, d, e, m, g) ==
    /\ LowerBounds(e) /\ Need(e) <= d - g /\ Delta(e) = Delta(op) + g
    /\ \A x \in 0..(d + Delta(op) - 1) :
         /\ ~InSegment(Src(op, x), m, g)
         /\ Src(e, x) \in 0..(d - g - 1)
         /\ With(Src(e, x), m, g) = Src(op, x)

(* The outcome o of visiting op is right. *)
IsRight(op, d, o, m, g) ==
    /\ o.verdict = "go" =>
         Spares(op, d, o.size, m, g) /\ Commutes(op, d, o.emit, o.size, m, g)
    /\ o.verdict = "dropped" => Drops(op, d, o.emit, m, g)

-----------------------------------------------------------------------------
(* One lemma for each opcode of Simulator::visit(Stack). *)

(* Simulator::visit(Stack), case PUSH_S. *)
LEMMA VisitPUSH_SIsRight ==
    ASSUME NEW i \in Nat, NEW d \in Nat, NEW m \in Nat, NEW g \in Nat,
           1 <= g, g <= m, m <= d, i + 1 <= d
    PROVE  IsRight(PUSH_S(i), d, VisitPUSH_S(i, m, g), m, g)
<1>1. ASSUME ~InSegment(i, m, g)
      PROVE  /\ Spares(PUSH_S(i), d, m + 1, m, g)
             /\ Commutes(PUSH_S(i), d, PUSH_S(NewIndex(i, m, g)), m + 1, m, g)
  BY <1>1, SMTT(40) DEF Spares, Commutes, With, InSegment, NewIndex, PUSH_S,
     StackOp, Src, Place, Delta, Need, LowerBounds
<1>2. QED
  BY ZenonT(40), <1>1 DEF IsRight, VisitPUSH_S, Go, Dropped, Unable, Outcome, InSegment, NewIndex

(* The slot numbers of the instructions that drop slots. *)
IsPOP_S(op, i) ==
    /\ Delta(op) = -1 /\ Need(op) = i + 1 /\ (LowerBounds(op) <=> i >= 1)
    /\ \A x \in Int : Src(op, x) = (IF x = i - 1 THEN 0 ELSE x + 1) /\ Place(op, x) = x + 1

IsDROP(op, n) ==
    /\ Delta(op) = -n /\ Need(op) = n /\ (LowerBounds(op) <=> n >= 1)
    /\ \A x \in Int : Src(op, x) = x + n /\ Place(op, x) = x + n

IsBLKDROP2(op, n, l) ==
    /\ Delta(op) = -n /\ Need(op) = n + l /\ (n >= 1 /\ l >= 0 => LowerBounds(op))
    /\ \A x \in Nat : Src(op, x) = IF x < l THEN x ELSE x + n

LEMMA POP_SIs == ASSUME NEW i \in Int PROVE IsPOP_S(POP_S(i), i)
BY ZenonT(40) DEF IsPOP_S, POP_S, StackOp, Delta, Need, LowerBounds, Src, Place

LEMMA DROPIs == ASSUME NEW n \in Int PROVE IsDROP(DROP(n), n)
BY ZenonT(40) DEF IsDROP, DROP, StackOp, Delta, Need, LowerBounds, Src, Place

LEMMA BLKDROP2Is == ASSUME NEW n \in Int, NEW l \in Int PROVE IsBLKDROP2(BLKDROP2(n, l), n, l)
BY ZenonT(40) DEF IsBLKDROP2, BLKDROP2, StackOp, Delta, Need, LowerBounds, Src

LEMMA NOPIs == Delta(NOP) = 0 /\ Need(NOP) = 0 /\ LowerBounds(NOP) /\ \A x \in Int : Src(NOP, x) = x
BY ZenonT(40) DEF NOP, StackOp, Delta, Need, LowerBounds, Src

(* makeBLKDROP2 may choose another instruction, with the same slots. *)
LEMMA makeBLKDROP2Is == ASSUME NEW n \in Nat, NEW l \in Nat, n >= 1 PROVE IsBLKDROP2(makeBLKDROP2(n, l), n, l)
<1>1. CASE l = 1 /\ n = 1
  BY <1>1 DEF IsBLKDROP2, makeBLKDROP2, POP_S, StackOp, Delta, Need, LowerBounds, Src
<1>2. CASE l = 0
  BY <1>2 DEF IsBLKDROP2, makeBLKDROP2, DROP, StackOp, Delta, Need, LowerBounds, Src
<1>3. CASE ~(l = 1 /\ n = 1) /\ l # 0
  BY <1>3, BLKDROP2Is DEF makeBLKDROP2
<1> QED
  BY ZenonT(40), <1>1, <1>2, <1>3

(* Simulator::visit(Stack), case POP_S. *)
LEMMA VisitPOP_SIsRight ==
    ASSUME NEW i \in Nat, NEW d \in Nat, NEW m \in Nat, NEW g \in Nat,
           1 <= g, g <= m, m <= d, 1 <= i, i + 1 <= d
    PROVE  IsRight(POP_S(i), d, VisitPOP_S(i, m, g), m, g)
<1> DEFINE op == POP_S(i)
           e == POP_S(i - g)
<1>0. IsPOP_S(op, i) /\ IsPOP_S(e, i - g)
  BY POP_SIs
<1> HIDE DEF op, e
<1>1. ASSUME g = 1 /\ i = 1 /\ m = 2
      PROVE  Drops(op, d, NOP, m, g)
  BY SMTT(40), <1>0, <1>1, NOPIs DEF IsPOP_S, Drops, With, InSegment
<1>2. ASSUME rest(m, g) # 0 /\ (i < m - g \/ i > m - 1)
      PROVE  Spares(op, d, m - 1, m, g)
  BY SMTT(40), <1>0, <1>2 DEF IsPOP_S, Spares, InSegment, rest
<1>3. ASSUME rest(m, g) # 0 /\ i < m - g
      PROVE  Commutes(op, d, op, m - 1, m, g)
  BY SMTT(40), <1>0, <1>3 DEF IsPOP_S, Commutes, With, rest
<1>4. ASSUME rest(m, g) # 0 /\ i > m - 1
      PROVE  Commutes(op, d, e, m - 1, m, g)
  BY SMTT(40), <1>0, <1>4 DEF IsPOP_S, Commutes, With, rest
<1>5. QED
  BY <1>1, <1>2, <1>3, <1>4 DEF op, e, IsRight, VisitPOP_S, Go, Dropped, Unable, Outcome, rest, NewIndex

(* Simulator::visit(Stack), case DROP. *)
LEMMA VisitDROPIsRight ==
    ASSUME NEW n \in Nat, NEW d \in Nat, NEW m \in Nat, NEW g \in Nat,
           1 <= g, g <= m, m <= d, 1 <= n, n <= d
    PROVE  IsRight(DROP(n), d, VisitDROP(n, m, g), m, g)
<1> DEFINE op == DROP(n)
           e == DROP(n - g)
<1>0. IsDROP(op, n) /\ IsDROP(e, n - g)
  BY DROPIs
<1> HIDE DEF op, e
<1>1. ASSUME m <= n /\ n - g > 0
      PROVE  Drops(op, d, e, m, g)
  BY SMTT(40), <1>0, <1>1 DEF IsDROP, Drops, With, InSegment
<1>2. ASSUME m <= n /\ ~(n - g > 0)
      PROVE  Drops(op, d, NOP, m, g)
  BY SMTT(40), <1>0, <1>2, NOPIs DEF IsDROP, Drops, With, InSegment
<1>3. ASSUME m > n /\ rest(m, g) >= n
      PROVE  Spares(op, d, m - n, m, g)
  BY SMTT(40), <1>0, <1>3 DEF IsDROP, Spares, InSegment, rest
<1>4. ASSUME m > n /\ rest(m, g) >= n
      PROVE  Commutes(op, d, op, m - n, m, g)
  BY SMTT(40), <1>0, <1>4 DEF IsDROP, Commutes, With, rest
<1>5. QED
  BY <1>1, <1>2, <1>3, <1>4 DEF op, e, IsRight, VisitDROP, Go, Dropped, Unable, Outcome, rest

(* Simulator::visit(Stack), case BLKDROP2. *)
LEMMA VisitBLKDROP2IsRight ==
    ASSUME NEW n \in Nat, NEW l \in Nat, NEW d \in Nat, NEW m \in Nat, NEW g \in Nat,
           1 <= g, g <= m, m <= d, 1 <= n, 1 <= l, n + l <= d
    PROVE  IsRight(BLKDROP2(n, l), d, VisitBLKDROP2(n, l, m, g), m, g)
<1> DEFINE op == BLKDROP2(n, l)
<1>0. IsBLKDROP2(op, n, l)
  BY BLKDROP2Is
<1>1. \A x \in Nat : Place(op, x) = Src(op, x)
  BY ZenonT(40) DEF BLKDROP2, StackOp, Place
<1> HIDE DEF op
<1>2. ASSUME l >= m
      PROVE  Spares(op, d, m, m, g) /\ Commutes(op, d, makeBLKDROP2(n, l - g), m, m, g)
  <2> DEFINE e == makeBLKDROP2(n, l - g)
  <2>1. l - g \in Nat /\ IsBLKDROP2(e, n, l - g)
    BY <1>2, makeBLKDROP2Is
  <2> HIDE DEF e
  <2>2. Spares(op, d, m, m, g)
    BY SMTT(40), <1>0, <1>1, <1>2 DEF IsBLKDROP2, Spares, InSegment
  <2>3. Commutes(op, d, e, m, m, g)
    BY SMTT(40), <1>0, <1>2, <2>1 DEF IsBLKDROP2, Commutes, With
  <2> QED
    BY ZenonT(40), <2>2, <2>3 DEF e
<1>3. ASSUME l <= rest(m, g) /\ l + n >= m /\ n - g > 0
      PROVE  Drops(op, d, makeBLKDROP2(n - g, l), m, g)
  <2> DEFINE e == makeBLKDROP2(n - g, l)
  <2>1. n - g \in Nat /\ IsBLKDROP2(e, n - g, l)
    BY <1>3, makeBLKDROP2Is
  <2> HIDE DEF e
  <2>2. Drops(op, d, e, m, g)
    BY SMTT(40), <1>0, <1>3, <2>1 DEF IsBLKDROP2, Drops, With, InSegment, rest
  <2> QED
    BY ZenonT(40), <2>2 DEF e
<1>4. ASSUME l <= rest(m, g) /\ l + n >= m /\ ~(n - g > 0)
      PROVE  Drops(op, d, NOP, m, g)
  BY SMTT(40), <1>0, <1>4, NOPIs DEF IsBLKDROP2, Drops, With, InSegment, rest
<1>5. ASSUME l + n <= rest(m, g)
      PROVE  Spares(op, d, m - n, m, g) /\ Commutes(op, d, makeBLKDROP2(n, l), m - n, m, g)
  <2> DEFINE e == makeBLKDROP2(n, l)
  <2>1. IsBLKDROP2(e, n, l)
    BY ZenonT(40), makeBLKDROP2Is
  <2> HIDE DEF e
  <2>2. Spares(op, d, m - n, m, g)
    BY SMTT(40), <1>0, <1>1, <1>5 DEF IsBLKDROP2, Spares, InSegment, rest
  <2>3. Commutes(op, d, e, m - n, m, g)
    BY SMTT(40), <1>0, <1>5, <2>1 DEF IsBLKDROP2, Commutes, With, rest
  <2> QED
    BY ZenonT(40), <2>2, <2>3 DEF e
<1>6. QED
  BY ZenonT(40), <1>2, <1>3, <1>4, <1>5 DEF op, IsRight, VisitBLKDROP2, Go, Dropped, Unable, Outcome, rest

(* The slot that BLKPUSH n, j copies to slot x < n: one of s0 .. sj, and   *)
(* s(j-n+1+x) when j + 1 >= n.                                             *)
LEMMA BLKPUSHSource ==
    ASSUME NEW n \in Nat, NEW j \in Nat, NEW x \in Nat, x < n
    PROVE  /\ Src(BLKPUSH(n, j), x) \in 0..j
           /\ n <= j + 1 => Src(BLKPUSH(n, j), x) = j - (n - 1 - x)
<1>1. /\ (n - 1 - x) % (j + 1) \in 0..j
      /\ n <= j + 1 => (n - 1 - x) % (j + 1) = n - 1 - x
  OBVIOUS
<1>2. Src(BLKPUSH(n, j), x) = j - ((n - 1 - x) % (j + 1))
  BY ZenonT(40) DEF BLKPUSH, StackOp, Src
<1>3. QED
  BY <1>1, <1>2

(* Simulator::visit(Stack), case BLKPUSH. *)
LEMMA VisitBLKPUSHIsRight ==
    ASSUME NEW n \in Nat, NEW j \in Nat, NEW d \in Nat, NEW m \in Nat, NEW g \in Nat,
           1 <= g, g <= m, m <= d, 2 <= n, j + 1 <= d
    PROVE  IsRight(BLKPUSH(n, j), d, VisitBLKPUSH(n, j, m, g), m, g)
<1> DEFINE op == BLKPUSH(n, j)
           e  == BLKPUSH(n, NewIndex(j, m, g))
<1>1. /\ Delta(op) = n /\ Delta(e) = n
      /\ Need(e) = NewIndex(j, m, g) + 1
      /\ \A x \in Int : x >= n => Src(op, x) = x - n /\ Src(e, x) = x - n
                                  /\ Place(op, x) = x - n
  BY DEF BLKPUSH, StackOp, Delta, Need, Src, Place
<1>2. ASSUME j < m - g
      PROVE  Spares(op, d, m + n, m, g) /\ Commutes(op, d, e, m + n, m, g)
  <2>1. e = op /\ LowerBounds(e)
    BY <1>2 DEF NewIndex, BLKPUSH, StackOp, LowerBounds
  <2>2. \A x \in 0..(n - 1) : Src(op, x) \in 0..j
    BY BLKPUSHSource
  <2>3. QED
    BY <1>1, <1>2, <2>1, <2>2 DEF Spares, Commutes, With, InSegment, NewIndex
<1>3. ASSUME m - 1 < j - n + 1
      PROVE  Spares(op, d, m + n, m, g) /\ Commutes(op, d, e, m + n, m, g)
  <2>1. NewIndex(j, m, g) = j - g /\ j - g \in Nat /\ n <= j - g + 1 /\ LowerBounds(e)
    BY <1>3 DEF NewIndex, BLKPUSH, StackOp, LowerBounds
  <2>2. \A x \in 0..(n - 1) : Src(op, x) = j - (n - 1 - x)
    BY <2>1, BLKPUSHSource
  <2>3. \A x \in 0..(n - 1) : Src(e, x) = j - g - (n - 1 - x)
    BY <2>1, BLKPUSHSource
  <2>4. QED
    BY <1>1, <1>3, <2>1, <2>2, <2>3 DEF Spares, Commutes, With, InSegment
<1>4. QED
  BY <1>2, <1>3 DEF IsRight, VisitBLKPUSH, makeBLKPUSH, Go, Unable, Outcome

(* Simulator::visit(Stack), case REVERSE. *)
LEMMA VisitREVERSEIsRight ==
    ASSUME NEW n \in Nat, NEW j \in Nat, NEW d \in Nat, NEW m \in Nat, NEW g \in Nat,
           1 <= g, g <= m, m <= d, 2 <= n, n + j <= d
    PROVE  IsRight(REVERSE(n, j), d, VisitREVERSE(n, j, m, g), m, g)
<1>1. ASSUME j + n - 1 < m - g
      PROVE  /\ Spares(REVERSE(n, j), d, m, m, g)
             /\ Commutes(REVERSE(n, j), d, REVERSE(n, j), m, m, g)
  BY <1>1, SMTT(40) DEF Spares, Commutes, With, InSegment, REVERSE,
     StackOp, Src, Place, Delta, Need, LowerBounds
<1>2. ASSUME m - 1 < j
      PROVE  /\ Spares(REVERSE(n, j), d, m, m, g)
             /\ Commutes(REVERSE(n, j), d, REVERSE(n, j - g), m, m, g)
  BY <1>2, SMTT(40) DEF Spares, Commutes, With, InSegment, REVERSE,
     StackOp, Src, Place, Delta, Need, LowerBounds
<1>3. QED
  BY ZenonT(40), <1>1, <1>2 DEF IsRight, VisitREVERSE, Go, Dropped, Unable, Outcome

(* Simulator::visit(Stack), case BLKSWAP. *)
LEMMA VisitBLKSWAPIsRight ==
    ASSUME NEW i \in Nat, NEW j \in Nat, NEW d \in Nat, NEW m \in Nat, NEW g \in Nat,
           1 <= g, g <= m, m <= d, 1 <= i, 1 <= j, i + j <= d
    PROVE  IsRight(BLKSWAP(i, j), d, VisitBLKSWAP(i, j, m, g), m, g)
<1>1. ASSUME i + j <= rest(m, g)
      PROVE  /\ Spares(BLKSWAP(i, j), d, m, m, g)
             /\ Commutes(BLKSWAP(i, j), d, BLKSWAP(i, j), m, m, g)
  BY <1>1, SMTT(40) DEF Spares, Commutes, With, InSegment, BLKSWAP, rest,
     StackOp, Src, Place, Delta, Need, LowerBounds
<1>2. ASSUME j >= m /\ j - g >= 1
      PROVE  /\ Spares(BLKSWAP(i, j), d, m + i, m, g)
             /\ Commutes(BLKSWAP(i, j), d, BLKSWAP(i, j - g), m + i, m, g)
  BY <1>2, SMTT(40) DEF Spares, Commutes, With, InSegment, BLKSWAP,
     StackOp, Src, Place, Delta, Need, LowerBounds
<1>3. ASSUME j >= m /\ ~(j - g >= 1)
      PROVE  /\ Spares(BLKSWAP(i, j), d, m + i, m, g)
             /\ Commutes(BLKSWAP(i, j), d, NOP, m + i, m, g)
  BY <1>3, SMTT(40) DEF Spares, Commutes, With, InSegment, BLKSWAP, NOP,
     StackOp, Src, Place, Delta, Need, LowerBounds
<1>4. QED
  BY ZenonT(40), <1>1, <1>2, <1>3 DEF IsRight, VisitBLKSWAP, Go, Dropped, Unable, Outcome, rest

(* Simulator::visit(Stack), case XCHG. *)
LEMMA VisitXCHGIsRight ==
    ASSUME NEW i \in Nat, NEW j \in Nat, NEW d \in Nat, NEW m \in Nat, NEW g \in Nat,
           1 <= g, g <= m, m <= d, i < j, j + 1 <= d
    PROVE  IsRight(XCHG(i, j), d, VisitXCHG(i, j, m, g), m, g)
<1>1. ASSUME ~InSegment(i, m, g) /\ ~InSegment(j, m, g)
      PROVE  /\ Spares(XCHG(i, j), d, m, m, g)
             /\ Commutes(XCHG(i, j), d, XCHG(NewIndex(i, m, g), NewIndex(j, m, g)), m, m, g)
  <2>1. Spares(XCHG(i, j), d, m, m, g)
    <3> DEFINE op == XCHG(i, j)
    <3>1. op.opcode = "XCHG" /\ op.i = i /\ op.j = j
      BY ZenonT(40) DEF XCHG, StackOp
    <3> HIDE DEF op
    <3>2. Delta(op) = 0
      BY ZenonT(40), <3>1 DEF Delta
    <3>3. \A x \in Int : Src(op, x) = IF x = i THEN j ELSE IF x = j THEN i ELSE x
      BY ZenonT(40), <3>1 DEF Src
    <3>4. \A x \in Int : Place(op, x) = IF x = i THEN j ELSE IF x = j THEN i ELSE x
      BY ZenonT(40), <3>1, <3>3 DEF Place
    <3>5. ASSUME NEW x \in (m - g)..(m - 1)
          PROVE  Src(op, x) = x - (m) + m /\ Place(op, x) = x - (m) + m
      BY <1>1, <3>3, <3>4 DEF InSegment
    <3>6. ASSUME NEW x \in 0..(d + Delta(op) - 1), ~InSegment(x, m, g)
          PROVE  ~InSegment(Src(op, x), m, g)
      BY SMTT(40), <1>1, <3>2, <3>3, <3>6 DEF InSegment
    <3>7. QED
      BY <3>2, <3>5, <3>6 DEF Spares, op
  <2>2. Commutes(XCHG(i, j), d, XCHG(NewIndex(i, m, g), NewIndex(j, m, g)), m, m, g)
    BY <1>1, SMTT(40) DEF Commutes, With, InSegment, LargerOf, NewIndex, XCHG,
       StackOp, Src, Place, Delta, Need, LowerBounds
  <2>3. QED
    BY ZenonT(40), <2>1, <2>2
<1>2. QED
  BY ZenonT(40), <1>1 DEF IsRight, VisitXCHG, Go, Dropped, Unable, Outcome, NewIndex, InSegment

(* Simulator::visit(Stack), case PUSH2_S. *)
LEMMA VisitPUSH2_SIsRight ==
    ASSUME NEW i \in Nat, NEW j \in Nat, NEW d \in Nat, NEW m \in Nat, NEW g \in Nat,
           1 <= g, g <= m, m <= d, i + 1 <= d, j + 1 <= d
    PROVE  IsRight(PUSH2_S(i, j), d, VisitPUSH2_S(i, j, m, g), m, g)
<1>1. ASSUME ~InSegment(i, m, g) /\ ~InSegment(j, m, g)
      PROVE  /\ Spares(PUSH2_S(i, j), d, m + 2, m, g)
             /\ Commutes(PUSH2_S(i, j), d, PUSH2_S(NewIndex(i, m, g), NewIndex(j, m, g)), m + 2, m, g)
  <2>1. Spares(PUSH2_S(i, j), d, m + 2, m, g)
    <3> DEFINE op == PUSH2_S(i, j)
    <3>1. op.opcode = "PUSH2_S" /\ op.i = i /\ op.j = j
      BY ZenonT(40) DEF PUSH2_S, StackOp
    <3> HIDE DEF op
    <3>2. Delta(op) = 2
      BY ZenonT(40), <3>1 DEF Delta
    <3>3. \A x \in Int : Src(op, x) = IF x = 0 THEN j ELSE IF x = 1 THEN i ELSE x - 2
      BY ZenonT(40), <3>1 DEF Src
    <3>4. \A x \in Int : Place(op, x) = IF x < 2 THEN -1 ELSE x - 2
      BY ZenonT(40), <3>1 DEF Place
    <3>5. ASSUME NEW x \in (m + 2 - g)..(m + 2 - 1)
          PROVE  Src(op, x) = x - (m + 2) + m /\ Place(op, x) = x - (m + 2) + m
      BY <1>1, <3>3, <3>4 DEF InSegment
    <3>6. ASSUME NEW x \in 0..(d + Delta(op) - 1), ~InSegment(x, m + 2, g)
          PROVE  ~InSegment(Src(op, x), m, g)
      BY SMTT(40), <1>1, <3>2, <3>3, <3>6 DEF InSegment
    <3>7. QED
      BY <3>2, <3>5, <3>6 DEF Spares, op
  <2>2. Commutes(PUSH2_S(i, j), d, PUSH2_S(NewIndex(i, m, g), NewIndex(j, m, g)), m + 2, m, g)
    BY <1>1, SMTT(40) DEF Commutes, With, InSegment, LargerOf, NewIndex, PUSH2_S,
       StackOp, Src, Place, Delta, Need, LowerBounds
  <2>3. QED
    BY ZenonT(40), <2>1, <2>2
<1>2. QED
  BY ZenonT(40), <1>1 DEF IsRight, VisitPUSH2_S, Go, Dropped, Unable, Outcome, NewIndex, InSegment

(* PUSH3 Sa, Sb, Sc: what it does to the stack. *)
LEMMA PUSH3_SIs ==
    ASSUME NEW a \in Nat, NEW b \in Nat, NEW c \in Nat
    PROVE  /\ LowerBounds(PUSH3_S(a, b, c))
           /\ Delta(PUSH3_S(a, b, c)) = 3
           /\ Need(PUSH3_S(a, b, c)) = LargerOf(a, LargerOf(b, c)) + 1
           /\ \A x \in Int : Src(PUSH3_S(a, b, c), x) = IF x = 0 THEN c ELSE IF x = 1 THEN b ELSE IF x = 2 THEN a ELSE x - 3
           /\ \A x \in Int : Place(PUSH3_S(a, b, c), x) = IF x < 3 THEN -1 ELSE x - 3
<1> DEFINE op == PUSH3_S(a, b, c)
<1>1. op.opcode = "PUSH3_S" /\ op.i = a /\ op.j = b /\ op.k = c
  BY ZenonT(40) DEF PUSH3_S, StackOp
<1> HIDE DEF op
<1>2. LowerBounds(op)
  BY <1>1 DEF LowerBounds
<1>3. Delta(op) = 3
  BY ZenonT(40), <1>1 DEF Delta
<1>4. Need(op) = LargerOf(a, LargerOf(b, c)) + 1
  BY ZenonT(40), <1>1 DEF Need
<1>5. \A x \in Int : Src(op, x) = IF x = 0 THEN c ELSE IF x = 1 THEN b ELSE IF x = 2 THEN a ELSE x - 3
  BY ZenonT(40), <1>1 DEF Src
<1>6. \A x \in Int : Place(op, x) = IF x < 3 THEN -1 ELSE x - 3
  BY ZenonT(40), <1>1 DEF Place
<1>7. QED
  BY ZenonT(40), <1>2, <1>3, <1>4, <1>5, <1>6 DEF op

(* Simulator::visit(Stack), case PUSH3_S. *)
LEMMA VisitPUSH3_SIsRight ==
    ASSUME NEW i \in Nat, NEW j \in Nat, NEW k \in Nat, NEW d \in Nat, NEW m \in Nat, NEW g \in Nat,
           1 <= g, g <= m, m <= d, i + 1 <= d, j + 1 <= d, k + 1 <= d
    PROVE  IsRight(PUSH3_S(i, j, k), d, VisitPUSH3_S(i, j, k, m, g), m, g)
<1>1. ASSUME ~InSegment(i, m, g) /\ ~InSegment(j, m, g) /\ ~InSegment(k, m, g)
      PROVE  /\ Spares(PUSH3_S(i, j, k), d, m + 3, m, g)
             /\ Commutes(PUSH3_S(i, j, k), d, PUSH3_S(NewIndex(i, m, g), NewIndex(j, m, g), NewIndex(k, m, g)), m + 3, m, g)
  <2> DEFINE op == PUSH3_S(i, j, k)
             i1 == NewIndex(i, m, g)
             j1 == NewIndex(j, m, g)
             k1 == NewIndex(k, m, g)
             e == PUSH3_S(i1, j1, k1)
  <2>1. /\ i1 \in Nat /\ i1 < d - g /\ With(i1, m, g) = i
        /\ j1 \in Nat /\ j1 < d - g /\ With(j1, m, g) = j
        /\ k1 \in Nat /\ k1 < d - g /\ With(k1, m, g) = k
    BY <1>1 DEF NewIndex, InSegment, With
  <2> HIDE DEF i1, j1, k1
  <2>2. /\ Delta(op) = 3
        /\ \A x \in Int : Src(op, x) = IF x = 0 THEN k ELSE IF x = 1 THEN j ELSE IF x = 2 THEN i ELSE x - 3
        /\ \A x \in Int : Place(op, x) = IF x < 3 THEN -1 ELSE x - 3
    BY PUSH3_SIs
  <2>3. /\ LowerBounds(e) /\ Delta(e) = 3 /\ Need(e) = LargerOf(i1, LargerOf(j1, k1)) + 1
        /\ \A x \in Int : Src(e, x) = IF x = 0 THEN k1 ELSE IF x = 1 THEN j1 ELSE IF x = 2 THEN i1 ELSE x - 3
    BY SMTT(40), <2>1, PUSH3_SIs
  <2> HIDE DEF op, e
  <2>4. Spares(op, d, m + 3, m, g)
    BY SMTT(40), <1>1, <2>2 DEF Spares, InSegment
  <2>5. Need(e) <= d - g
    BY <2>1, <2>3 DEF LargerOf
  <2>6. ASSUME NEW x \in 0..(d + 3 - g - 1)
        PROVE  Src(e, x) \in 0..(d - g - 1) /\ With(Src(e, x), m, g) = Src(op, With(x, m + 3, g))
    <3>1. CASE x < 3
      BY <2>1, <2>2, <2>3, <3>1 DEF With
    <3>2. CASE x >= 3
      BY <2>1, <2>2, <2>3, <3>2 DEF With
    <3>3. QED
      BY <3>1, <3>2
  <2>7. Commutes(op, d, e, m + 3, m, g)
    BY ZenonT(40), <2>2, <2>3, <2>5, <2>6 DEF Commutes
  <2>8. QED
    BY ZenonT(40), <2>4, <2>7 DEF op, e, i1, j1, k1
<1>2. QED
  BY ZenonT(40), <1>1 DEF IsRight, VisitPUSH3_S, Go, Dropped, Unable, Outcome, NewIndex, InSegment

(* Simulator::visit(Stack), case TUCK. *)
LEMMA VisitTUCKIsRight ==
    ASSUME NEW d \in Nat, NEW m \in Nat, NEW g \in Nat,
           1 <= g, g <= m, m <= d, 2 <= d
    PROVE  IsRight(TUCK, d, VisitTUCK(m, g), m, g)
<1>1. ASSUME rest(m, g) >= 2
      PROVE  /\ Spares(TUCK, d, m + 1, m, g)
             /\ Commutes(TUCK, d, TUCK, m + 1, m, g)
  BY <1>1, SMTT(40) DEF Spares, Commutes, With, InSegment, TUCK, rest,
     StackOp, Src, Place, Delta, Need, LowerBounds
<1>2. QED
  BY ZenonT(40), <1>1 DEF IsRight, VisitTUCK, Go, Dropped, Unable, Outcome, rest

(* Simulator::visit(Stack), case PUXC. *)
LEMMA VisitPUXCIsRight ==
    ASSUME NEW i \in Nat, NEW d \in Nat, NEW m \in Nat, NEW g \in Nat,
           1 <= g, g <= m, m <= d, i + 1 <= d
    PROVE  IsRight(PUXC(i), d, VisitPUXC(i, m, g), m, g)
<1>1. ASSUME ~InSegment(i, m, g) /\ rest(m, g) # 0
      PROVE  /\ Spares(PUXC(i), d, m + 1, m, g)
             /\ Commutes(PUXC(i), d, PUXC(NewIndex(i, m, g)), m + 1, m, g)
  BY <1>1, SMTT(40) DEF Spares, Commutes, With, InSegment, NewIndex, PUXC, rest,
     StackOp, Src, Place, Delta, Need, LowerBounds
<1>2. QED
  BY ZenonT(40), <1>1 DEF IsRight, VisitPUXC, Go, Dropped, Unable, Outcome, rest, NewIndex, InSegment

-----------------------------------------------------------------------------
(* The instructions the compiler builds, with what their constructors      *)
(* assert about the indices.                                               *)
LEMMA OpCases ==
    ASSUME NEW n \in Nat, NEW op \in Indexed(n)
    PROVE  \/ \E i \in Nat : op = DROP(i) /\ 1 <= i
           \/ \E i \in Nat, j \in Nat : op = BLKDROP2(i, j) /\ 1 <= i /\ 1 <= j
           \/ \E i \in Nat : op = POP_S(i) /\ 1 <= i
           \/ \E i \in Nat, j \in Nat : op = BLKPUSH(i, j) /\ 2 <= i
           \/ \E i \in Nat : op = PUSH_S(i)
           \/ \E i \in Nat, j \in Nat : op = PUSH2_S(i, j)
           \/ \E i \in Nat, j \in Nat, k \in Nat : op = PUSH3_S(i, j, k)
           \/ \E i \in Nat, j \in Nat : op = BLKSWAP(i, j) /\ 1 <= i /\ 1 <= j
           \/ \E i \in Nat, j \in Nat : op = REVERSE(i, j) /\ 2 <= i
           \/ \E i \in Nat, j \in Nat : op = XCHG(i, j) /\ i < j
           \/ op = TUCK
           \/ \E i \in Nat : op = PUXC(i)
BY SMTT(40) DEF Indexed, XCHG, StackOp

(* No stack instruction reads below the slots it needs. *)
LEMMA OpFacts ==
    ASSUME NEW n \in Nat, NEW op \in Indexed(n), NEW d \in Nat, Need(op) <= d
    PROVE  /\ LowerBounds(op) /\ Delta(op) \in Int /\ d + Delta(op) >= 0
           /\ \A x \in 0..(d + Delta(op) - 1) :
                Src(op, x) \in 0..(d - 1) /\ Place(op, x) \in -1..(d - 1)
<1>1. CASE \E i \in Nat : op = DROP(i) /\ 1 <= i
  BY SMTT(40), <1>1 DEF DROP, StackOp, LowerBounds, Delta, Need, Src, Place
<1>2. CASE \E i \in Nat, j \in Nat : op = BLKDROP2(i, j) /\ 1 <= i /\ 1 <= j
  BY SMTT(40), <1>2 DEF BLKDROP2, StackOp, LowerBounds, Delta, Need, Src, Place
<1>3. CASE \E i \in Nat : op = POP_S(i) /\ 1 <= i
  BY <1>3 DEF POP_S, StackOp, LowerBounds, Delta, Need, Src, Place
<1>4. CASE \E i \in Nat, j \in Nat : op = BLKPUSH(i, j) /\ 2 <= i
  <2>1. PICK i \in Nat, j \in Nat : op = BLKPUSH(i, j) /\ 2 <= i
    BY ZenonT(40), <1>4
  <2>2. /\ LowerBounds(op) /\ Delta(op) = i /\ j + 1 <= d
        /\ \A x \in Nat : /\ x >= i => Src(op, x) = x - i
                          /\ Place(op, x) = IF x < i THEN -1 ELSE x - i
    BY <2>1 DEF BLKPUSH, StackOp, LowerBounds, Delta, Need, Src, Place
  <2>3. \A x \in Nat : x < i => Src(op, x) \in 0..j
    BY ZenonT(40), <2>1, BLKPUSHSource
  <2>4. QED
    BY <2>1, <2>2, <2>3
<1>5. CASE \E i \in Nat : op = PUSH_S(i)
  BY SMTT(40), <1>5 DEF PUSH_S, StackOp, LowerBounds, Delta, Need, Src, Place
<1>6. CASE \E i \in Nat, j \in Nat : op = PUSH2_S(i, j)
  BY SMTT(40), <1>6 DEF PUSH2_S, StackOp, LowerBounds, Delta, Need, Src, Place, LargerOf
<1>7. CASE \E i \in Nat, j \in Nat, k \in Nat : op = PUSH3_S(i, j, k)
  BY SMTT(40), <1>7 DEF PUSH3_S, StackOp, LowerBounds, Delta, Need, Src, Place, LargerOf
<1>8. CASE \E i \in Nat, j \in Nat : op = BLKSWAP(i, j) /\ 1 <= i /\ 1 <= j
  BY SMTT(40), <1>8 DEF BLKSWAP, StackOp, LowerBounds, Delta, Need, Src, Place
<1>9. CASE \E i \in Nat, j \in Nat : op = REVERSE(i, j) /\ 2 <= i
  BY SMTT(40), <1>9 DEF REVERSE, StackOp, LowerBounds, Delta, Need, Src, Place
<1>10. CASE \E i \in Nat, j \in Nat : op = XCHG(i, j) /\ i < j
  BY SMTT(40), <1>10 DEF XCHG, StackOp, LowerBounds, Delta, Need, Src, Place, LargerOf
<1>11. CASE op = TUCK
  BY SMTT(40), <1>11 DEF TUCK, StackOp, LowerBounds, Delta, Need, Src, Place
<1>12. CASE \E i \in Nat : op = PUXC(i)
  BY SMTT(40), <1>12 DEF PUXC, StackOp, LowerBounds, Delta, Need, Src, Place
<1>13. QED
  BY ZenonT(40), OpCases, <1>1, <1>2, <1>3, <1>4, <1>5, <1>6, <1>7, <1>8, <1>9, <1>10, <1>11, <1>12

(* The Simulator is right about every stack instruction. *)
THEOREM VisitStackIsRight ==
    ASSUME NEW n \in Nat, NEW op \in Indexed(n),
           NEW d \in Nat, NEW m \in Nat, NEW g \in Nat,
           1 <= g, g <= m, m <= d, Need(op) <= d
    PROVE  IsRight(op, d, VisitStack(op, m, g), m, g)
<1>1. CASE \E i \in Nat : op = DROP(i) /\ 1 <= i
  <2>1. PICK i \in Nat : op = DROP(i) /\ 1 <= i
    BY ZenonT(40), <1>1
  <2>2. VisitStack(op, m, g) = VisitDROP(i, m, g)
    BY ZenonT(40), <2>1 DEF VisitStack, DROP, StackOp
  <2>3. IsRight(op, d, VisitDROP(i, m, g), m, g)
    BY ZenonT(40), <2>1, VisitDROPIsRight DEF Need, DROP, StackOp
  <2>4. QED
    BY ZenonT(40), <2>2, <2>3
<1>2. CASE \E i \in Nat, j \in Nat : op = BLKDROP2(i, j) /\ 1 <= i /\ 1 <= j
  <2>1. PICK i \in Nat, j \in Nat : op = BLKDROP2(i, j) /\ 1 <= i /\ 1 <= j
    BY ZenonT(40), <1>2
  <2>2. VisitStack(op, m, g) = VisitBLKDROP2(i, j, m, g)
    BY ZenonT(40), <2>1 DEF VisitStack, BLKDROP2, StackOp
  <2>3. IsRight(op, d, VisitBLKDROP2(i, j, m, g), m, g)
    BY ZenonT(40), <2>1, VisitBLKDROP2IsRight DEF Need, BLKDROP2, StackOp
  <2>4. QED
    BY ZenonT(40), <2>2, <2>3
<1>3. CASE \E i \in Nat : op = POP_S(i) /\ 1 <= i
  <2>1. PICK i \in Nat : op = POP_S(i) /\ 1 <= i
    BY ZenonT(40), <1>3
  <2>2. VisitStack(op, m, g) = VisitPOP_S(i, m, g)
    BY ZenonT(40), <2>1 DEF VisitStack, POP_S, StackOp
  <2>3. IsRight(op, d, VisitPOP_S(i, m, g), m, g)
    BY ZenonT(40), <2>1, VisitPOP_SIsRight DEF Need, POP_S, StackOp
  <2>4. QED
    BY ZenonT(40), <2>2, <2>3
<1>4. CASE \E i \in Nat, j \in Nat : op = BLKPUSH(i, j) /\ 2 <= i
  <2>1. PICK i \in Nat, j \in Nat : op = BLKPUSH(i, j) /\ 2 <= i
    BY ZenonT(40), <1>4
  <2>2. VisitStack(op, m, g) = VisitBLKPUSH(i, j, m, g)
    BY ZenonT(40), <2>1 DEF VisitStack, BLKPUSH, StackOp
  <2>3. IsRight(op, d, VisitBLKPUSH(i, j, m, g), m, g)
    BY ZenonT(40), <2>1, VisitBLKPUSHIsRight DEF Need, BLKPUSH, StackOp
  <2>4. QED
    BY ZenonT(40), <2>2, <2>3
<1>5. CASE \E i \in Nat : op = PUSH_S(i)
  <2>1. PICK i \in Nat : op = PUSH_S(i)
    BY ZenonT(40), <1>5
  <2>2. VisitStack(op, m, g) = VisitPUSH_S(i, m, g)
    BY ZenonT(40), <2>1 DEF VisitStack, PUSH_S, StackOp
  <2>3. IsRight(op, d, VisitPUSH_S(i, m, g), m, g)
    BY ZenonT(40), <2>1, VisitPUSH_SIsRight DEF Need, PUSH_S, StackOp
  <2>4. QED
    BY ZenonT(40), <2>2, <2>3
<1>6. CASE \E i \in Nat, j \in Nat : op = PUSH2_S(i, j)
  <2>1. PICK i \in Nat, j \in Nat : op = PUSH2_S(i, j)
    BY ZenonT(40), <1>6
  <2>2. VisitStack(op, m, g) = VisitPUSH2_S(i, j, m, g)
    BY ZenonT(40), <2>1 DEF VisitStack, PUSH2_S, StackOp
  <2>3. IsRight(op, d, VisitPUSH2_S(i, j, m, g), m, g)
    BY <2>1, VisitPUSH2_SIsRight DEF Need, PUSH2_S, StackOp, LargerOf
  <2>4. QED
    BY ZenonT(40), <2>2, <2>3
<1>7. CASE \E i \in Nat, j \in Nat, k \in Nat : op = PUSH3_S(i, j, k)
  <2>1. PICK i \in Nat, j \in Nat, k \in Nat : op = PUSH3_S(i, j, k)
    BY ZenonT(40), <1>7
  <2>2. VisitStack(op, m, g) = VisitPUSH3_S(i, j, k, m, g)
    BY ZenonT(40), <2>1 DEF VisitStack, PUSH3_S, StackOp
  <2>3. IsRight(op, d, VisitPUSH3_S(i, j, k, m, g), m, g)
    BY <2>1, VisitPUSH3_SIsRight DEF Need, PUSH3_S, StackOp, LargerOf
  <2>4. QED
    BY ZenonT(40), <2>2, <2>3
<1>8. CASE \E i \in Nat, j \in Nat : op = BLKSWAP(i, j) /\ 1 <= i /\ 1 <= j
  <2>1. PICK i \in Nat, j \in Nat : op = BLKSWAP(i, j) /\ 1 <= i /\ 1 <= j
    BY ZenonT(40), <1>8
  <2>2. VisitStack(op, m, g) = VisitBLKSWAP(i, j, m, g)
    BY ZenonT(40), <2>1 DEF VisitStack, BLKSWAP, StackOp
  <2>3. IsRight(op, d, VisitBLKSWAP(i, j, m, g), m, g)
    BY ZenonT(40), <2>1, VisitBLKSWAPIsRight DEF Need, BLKSWAP, StackOp
  <2>4. QED
    BY ZenonT(40), <2>2, <2>3
<1>9. CASE \E i \in Nat, j \in Nat : op = REVERSE(i, j) /\ 2 <= i
  <2>1. PICK i \in Nat, j \in Nat : op = REVERSE(i, j) /\ 2 <= i
    BY ZenonT(40), <1>9
  <2>2. VisitStack(op, m, g) = VisitREVERSE(i, j, m, g)
    BY ZenonT(40), <2>1 DEF VisitStack, REVERSE, StackOp
  <2>3. IsRight(op, d, VisitREVERSE(i, j, m, g), m, g)
    BY ZenonT(40), <2>1, VisitREVERSEIsRight DEF Need, REVERSE, StackOp
  <2>4. QED
    BY ZenonT(40), <2>2, <2>3
<1>10. CASE \E i \in Nat, j \in Nat : op = XCHG(i, j) /\ i < j
  <2>1. PICK i \in Nat, j \in Nat : op = XCHG(i, j) /\ i < j
    BY ZenonT(40), <1>10
  <2>2. VisitStack(op, m, g) = VisitXCHG(i, j, m, g)
    BY ZenonT(40), <2>1 DEF VisitStack, XCHG, StackOp
  <2>3. IsRight(op, d, VisitXCHG(i, j, m, g), m, g)
    BY <2>1, VisitXCHGIsRight DEF Need, XCHG, StackOp, LargerOf
  <2>4. QED
    BY ZenonT(40), <2>2, <2>3
<1>11. CASE op = TUCK
  <2>1. VisitStack(op, m, g) = VisitTUCK(m, g)
    BY ZenonT(40), <1>11 DEF VisitStack, TUCK, StackOp
  <2>2. IsRight(op, d, VisitTUCK(m, g), m, g)
    BY ZenonT(40), <1>11, VisitTUCKIsRight DEF Need, TUCK, StackOp
  <2>3. QED
    BY ZenonT(40), <2>1, <2>2
<1>12. CASE \E i \in Nat : op = PUXC(i)
  <2>1. PICK i \in Nat : op = PUXC(i)
    BY ZenonT(40), <1>12
  <2>2. VisitStack(op, m, g) = VisitPUXC(i, m, g)
    BY ZenonT(40), <2>1 DEF VisitStack, PUXC, StackOp
  <2>3. IsRight(op, d, VisitPUXC(i, m, g), m, g)
    BY ZenonT(40), <2>1, VisitPUXCIsRight DEF Need, PUXC, StackOp
  <2>4. QED
    BY ZenonT(40), <2>2, <2>3
<1>13. QED
  BY ZenonT(40), OpCases, <1>1, <1>2, <1>3, <1>4, <1>5, <1>6, <1>7, <1>8, <1>9, <1>10, <1>11, <1>12

(* Which instructions overwrite the segment, and which roll it to the top. *)
LEMMA OutcomeFacts ==
    ASSUME NEW n \in Nat, NEW op \in Indexed(n), NEW m \in Nat, NEW g \in Nat,
           1 <= g, g <= m
    PROVE  LET o == VisitStack(op, m, g) IN
           /\ o.size \in Int
           /\ o.verdict \in {"go", "unable", "dropped", "set", "moved"}
           /\ o.verdict = "set" => g = 1 /\ m >= 2 /\ op = POP_S(m - 1)
           /\ o.verdict = "moved" => g = 1 /\ m >= 2 /\ op = BLKSWAP(1, m - 1)
<1> USE DEF VisitStack, Go, Dropped, Unable, Outcome, StackOp
<1>1. CASE \E i \in Nat : op = DROP(i) /\ 1 <= i
  BY <1>1 DEF DROP, VisitDROP, rest
<1>2. CASE \E i \in Nat, j \in Nat : op = BLKDROP2(i, j) /\ 1 <= i /\ 1 <= j
  BY <1>2 DEF BLKDROP2, VisitBLKDROP2, rest
<1>3. CASE \E i \in Nat : op = POP_S(i) /\ 1 <= i
  BY <1>3 DEF POP_S, VisitPOP_S, rest
<1>4. CASE \E i \in Nat, j \in Nat : op = BLKPUSH(i, j) /\ 2 <= i
  BY <1>4 DEF BLKPUSH, VisitBLKPUSH
<1>5. CASE \E i \in Nat : op = PUSH_S(i)
  BY <1>5 DEF PUSH_S, VisitPUSH_S
<1>6. CASE \E i \in Nat, j \in Nat : op = PUSH2_S(i, j)
  BY <1>6 DEF PUSH2_S, VisitPUSH2_S
<1>7. CASE \E i \in Nat, j \in Nat, k \in Nat : op = PUSH3_S(i, j, k)
  BY <1>7 DEF PUSH3_S, VisitPUSH3_S
<1>8. CASE \E i \in Nat, j \in Nat : op = BLKSWAP(i, j) /\ 1 <= i /\ 1 <= j
  BY <1>8 DEF BLKSWAP, VisitBLKSWAP, rest
<1>9. CASE \E i \in Nat, j \in Nat : op = REVERSE(i, j) /\ 2 <= i
  BY <1>9 DEF REVERSE, VisitREVERSE
<1>10. CASE \E i \in Nat, j \in Nat : op = XCHG(i, j) /\ i < j
  BY SMTT(40), <1>10 DEF XCHG, VisitXCHG
<1>11. CASE op = TUCK
  BY <1>11 DEF TUCK, VisitTUCK, rest
<1>12. CASE \E i \in Nat : op = PUXC(i)
  BY <1>12 DEF PUXC, VisitPUXC, rest
<1>13. QED
  BY ZenonT(40), OpCases, <1>1, <1>2, <1>3, <1>4, <1>5, <1>6, <1>7, <1>8, <1>9, <1>10, <1>11, <1>12

(* An index is never larger in the stack without the segment: what the   *)
(* Simulator emits respects the upper bounds of the constructors, too.     *)
LEMMA EmitUpperBounds ==
    ASSUME NEW n \in Nat, NEW op \in Indexed(n), UpperBounds(op), NEW m \in Nat, NEW g \in Nat
    PROVE  UpperBounds(VisitStack(op, m, g).emit)
<1> USE DEF VisitStack, Go, Dropped, Unable, Outcome, StackOp, NOP, UpperBounds
<1>1. CASE \E i \in Nat : op = DROP(i) /\ 1 <= i
  BY SMTT(40), <1>1 DEF DROP, VisitDROP
<1>2. CASE \E i \in Nat, j \in Nat : op = BLKDROP2(i, j) /\ 1 <= i /\ 1 <= j
  BY SMTT(40), <1>2 DEF BLKDROP2, VisitBLKDROP2, makeBLKDROP2, DROP, POP_S
<1>3. CASE \E i \in Nat : op = POP_S(i) /\ 1 <= i
  BY SMTT(40), <1>3 DEF POP_S, VisitPOP_S, NewIndex
<1>4. CASE \E i \in Nat, j \in Nat : op = BLKPUSH(i, j) /\ 2 <= i
  BY SMTT(40), <1>4 DEF BLKPUSH, VisitBLKPUSH, makeBLKPUSH, PUSH_S, NewIndex
<1>5. CASE \E i \in Nat : op = PUSH_S(i)
  BY SMTT(40), <1>5 DEF PUSH_S, VisitPUSH_S, NewIndex
<1>6. CASE \E i \in Nat, j \in Nat : op = PUSH2_S(i, j)
  BY SMTT(40), <1>6 DEF PUSH2_S, VisitPUSH2_S, NewIndex
<1>7. CASE \E i \in Nat, j \in Nat, k \in Nat : op = PUSH3_S(i, j, k)
  BY SMTT(40), <1>7 DEF PUSH3_S, VisitPUSH3_S, NewIndex
<1>8. CASE \E i \in Nat, j \in Nat : op = BLKSWAP(i, j) /\ 1 <= i /\ 1 <= j
  BY SMTT(40), <1>8 DEF BLKSWAP, VisitBLKSWAP
<1>9. CASE \E i \in Nat, j \in Nat : op = REVERSE(i, j) /\ 2 <= i
  BY SMTT(40), <1>9 DEF REVERSE, VisitREVERSE
<1>10. CASE \E i \in Nat, j \in Nat : op = XCHG(i, j) /\ i < j
  BY SMTT(40), <1>10 DEF XCHG, VisitXCHG
<1>11. CASE op = TUCK
  BY SMTT(40), <1>11 DEF TUCK, VisitTUCK
<1>12. CASE \E i \in Nat : op = PUXC(i)
  BY SMTT(40), <1>12 DEF PUXC, VisitPUXC, NewIndex
<1>13. QED
  BY ZenonT(40), OpCases, <1>1, <1>2, <1>3, <1>4, <1>5, <1>6, <1>7, <1>8, <1>9, <1>10, <1>11, <1>12

-----------------------------------------------------------------------------
(* The segment moved from m - g .. m - 1 in f to m1 - g .. m1 - 1 in f1. *)
Kept(f, m, f1, m1, g) == \A x \in (m1 - g)..(m1 - 1) : f1[x] = f[x - m1 + m]

(* home after op. *)
Relabel(op, h, d) ==
    [x \in 0..(d + Delta(op) - 1) |->
       IF Place(op, x) = -1 THEN 0 ELSE h[Place(op, x)]]

-----------------------------------------------------------------------------
(* Executing a stack instruction yields a stack. *)
LEMMA ExecType ==
    ASSUME NEW n \in Nat, NEW op \in Indexed(n), NEW d \in Nat, Need(op) <= d,
           NEW s \in [0..(d - 1) -> Val]
    PROVE  /\ Exec(op, s, d) \in [0..(d + Delta(op) - 1) -> Val]
           /\ \A x \in 0..(d + Delta(op) - 1) : Exec(op, s, d)[x] = s[Src(op, x)]
BY ZenonT(40), OpFacts DEF Exec

(* The original program executes an instruction that spares the segment. *)
LEMMA SparesReal ==
    ASSUME NEW r, NEW d, NEW s, NEW sd, NEW h, NEW m, NEW g, NEW m1,
           Stacks(r, d, s, sd, h), m \in Int, g \in Nat, Segment(d, m, g),
           NEW op \in Indexed(MaxDepth), Need(op) <= d, d + Delta(op) <= MaxDepth,
           Spares(op, d, m1, m, g)
    PROVE  /\ IsStack(Exec(op, r, d), d + Delta(op))
           /\ IsLabelling(Relabel(op, h, d), d + Delta(op))
           /\ Segment(d + Delta(op), m1, g)
           /\ Kept(r, m, Exec(op, r, d), m1, g)
           /\ Kept(h, m, Relabel(op, h, d), m1, g)
<1>1. MaxDepth \in Nat /\ d \in Nat /\ m \in Nat /\ g \in Nat /\ 1 <= g /\ g <= m /\ m <= d
  BY BoundsAssumption DEF Stacks, IsStack, IsLabelling, Segment
<1>2. /\ Delta(op) \in Int /\ d + Delta(op) >= 0
      /\ \A x \in 0..(d + Delta(op) - 1) :
           Src(op, x) \in 0..(d - 1) /\ Place(op, x) \in -1..(d - 1)
  BY ZenonT(40), <1>1, OpFacts
<1>3. d + Delta(op) \in 0..MaxDepth /\ Segment(d + Delta(op), m1, g)
  BY <1>1, <1>2 DEF Spares, Segment
<1>4. /\ Exec(op, r, d) \in [0..(d + Delta(op) - 1) -> Val]
      /\ \A x \in 0..(d + Delta(op) - 1) : Exec(op, r, d)[x] = r[Src(op, x)]
  BY ZenonT(40), <1>1, ExecType DEF Stacks, IsStack, IsLabelling
<1>5. Relabel(op, h, d) \in [0..(d + Delta(op) - 1) -> 0..MaxDepth]
  BY SMTT(40), <1>1, <1>2 DEF Relabel, Stacks, IsStack, IsLabelling
<1>6. \A x \in (m1 - g)..(m1 - 1) :
        /\ x \in 0..(d + Delta(op) - 1) /\ x - m1 + m # -1
        /\ Src(op, x) = x - m1 + m /\ Place(op, x) = x - m1 + m
  BY <1>1, <1>2 DEF Spares
<1>7. Kept(r, m, Exec(op, r, d), m1, g)
  BY ZenonT(40), <1>4, <1>6 DEF Kept
<1>8. Kept(h, m, Relabel(op, h, d), m1, g)
  BY ZenonT(40), <1>6 DEF Kept, Relabel
<1>9. QED
  BY SMTT(40), <1>1, <1>2, <1>3, <1>4, <1>5, <1>7, <1>8 DEF IsStack, IsLabelling

(* The rewritten program executes the same instruction, for the rewrites   *)
(* that keep the code.                                                     *)
LEMMA SparesShadow ==
    ASSUME NEW r, NEW d, NEW s, NEW sd, NEW h, NEW m, NEW g, NEW m1,
           Stacks(r, d, s, sd, h), m \in Int, g \in Nat, Segment(d, m, g), KeepInSync(r, d, s, sd, m, g),
           NEW op \in Indexed(MaxDepth), Need(op) <= d, d + Delta(op) <= MaxDepth,
           Spares(op, d, m1, m, g)
    PROVE  /\ LowerBounds(op) /\ Need(op) <= sd
           /\ IsStack(Exec(op, s, sd), sd + Delta(op))
           /\ KeepInSync(Exec(op, r, d), d + Delta(op), Exec(op, s, sd), sd + Delta(op), m1, g)
<1>1. MaxDepth \in Nat /\ d \in Nat /\ sd = d
  BY BoundsAssumption DEF Stacks, IsStack, IsLabelling, KeepInSync
<1>2. /\ LowerBounds(op) /\ Delta(op) \in Int /\ d + Delta(op) >= 0
      /\ \A x \in 0..(d + Delta(op) - 1) : Src(op, x) \in 0..(d - 1)
  BY ZenonT(40), <1>1, OpFacts
<1>3. /\ Exec(op, s, d) \in [0..(d + Delta(op) - 1) -> Val]
      /\ \A x \in 0..(d + Delta(op) - 1) :
           /\ Exec(op, r, d)[x] = r[Src(op, x)]
           /\ Exec(op, s, d)[x] = s[Src(op, x)]
  BY ZenonT(40), <1>1, ExecType DEF Stacks, IsStack, IsLabelling
<1>4. \A x \in 0..(d + Delta(op) - 1) :
        ~InSegment(x, m1, g) => Exec(op, s, d)[x] = Exec(op, r, d)[x]
  BY ZenonT(40), <1>1, <1>2, <1>3 DEF Spares, KeepInSync
<1>5. KeepInSync(Exec(op, r, d), d + Delta(op), Exec(op, s, d), d + Delta(op), m1, g)
  BY SMTT(40), <1>1, <1>2, <1>4 DEF KeepInSync
<1>6. QED
  BY <1>1, <1>2, <1>3, <1>5 DEF IsStack

(* The rewritten program executes what the Simulator has emitted. *)
LEMMA CommutesShadow ==
    ASSUME NEW r, NEW d, NEW s, NEW sd, NEW h, NEW m, NEW g, NEW m1,
           Stacks(r, d, s, sd, h), m \in Int, g \in Nat, Segment(d, m, g), CutInSync(r, d, s, sd, m, g),
           NEW op \in Indexed(MaxDepth), Need(op) <= d, d + Delta(op) <= MaxDepth,
           NEW e, Spares(op, d, m1, m, g), Commutes(op, d, e, m1, m, g)
    PROVE  /\ LowerBounds(e) /\ Need(e) <= sd
           /\ IsStack(Exec(e, s, sd), sd + Delta(e))
           /\ CutInSync(Exec(op, r, d), d + Delta(op), Exec(e, s, sd), sd + Delta(e), m1, g)
<1>1. /\ MaxDepth \in Nat /\ d \in Nat /\ m \in Nat /\ g \in Nat /\ 1 <= g /\ g <= m /\ m <= d
      /\ sd = d - g /\ sd \in Nat
  BY BoundsAssumption DEF Stacks, IsStack, IsLabelling, Segment, CutInSync
<1>2. /\ Delta(op) \in Int /\ d + Delta(op) >= 0
      /\ \A x \in 0..(d + Delta(op) - 1) : Src(op, x) \in 0..(d - 1)
  BY ZenonT(40), <1>1, OpFacts
<1>3. \A x \in 0..(d + Delta(op) - 1) : Exec(op, r, d)[x] = r[Src(op, x)]
  BY ZenonT(40), <1>1, ExecType DEF Stacks, IsStack, IsLabelling
<1>4. LowerBounds(e) /\ Need(e) <= sd /\ Delta(e) = Delta(op)
  BY ZenonT(40), <1>1 DEF Commutes
<1>5. \A x \in 0..(sd + Delta(e) - 1) :
        /\ Src(e, x) \in 0..(sd - 1)
        /\ With(Src(e, x), m, g) = Src(op, With(x, m1, g))
  BY <1>1, <1>2, <1>4 DEF Commutes
<1>6. /\ sd + Delta(e) = d + Delta(op) - g /\ sd + Delta(e) \in 0..MaxDepth
      /\ \A x \in 0..(sd + Delta(e) - 1) : With(x, m1, g) \in 0..(d + Delta(op) - 1)
  BY <1>1, <1>2, <1>4 DEF With, Spares
<1>7. /\ Exec(e, s, sd) \in [0..(sd + Delta(e) - 1) -> Val]
      /\ \A x \in 0..(sd + Delta(e) - 1) : Exec(e, s, sd)[x] = s[Src(e, x)]
  BY ZenonT(40), <1>5 DEF Exec, Stacks, IsStack, IsLabelling
<1>8. \A x \in 0..(sd + Delta(e) - 1) : Exec(e, s, sd)[x] = Exec(op, r, d)[With(x, m1, g)]
  BY SMTT(40), <1>3, <1>5, <1>6, <1>7 DEF CutInSync
<1>9. CutInSync(Exec(op, r, d), d + Delta(op), Exec(e, s, sd), sd + Delta(e), m1, g)
  BY <1>1, <1>2, <1>4, <1>6, <1>8 DEF CutInSync
<1>10. QED
  BY <1>1, <1>2, <1>4, <1>6, <1>7, <1>9 DEF IsStack

(* A segment of one slot. *)
LEMMA OneBelow ==
    ASSUME NEW m \in Int, NEW m1 \in Int
    PROVE  m1 - 1 \in (m1 - 1)..(m1 - 1) /\ m1 - 1 - m1 + m = m - 1
  OBVIOUS

LEMMA KeptOne ==
    ASSUME NEW f, NEW m \in Int, NEW f1, NEW m1 \in Int, Kept(f, m, f1, m1, 1)
    PROVE  f1[m1 - 1] = f[m - 1]
<1>1. m1 - 1 \in (m1 - 1)..(m1 - 1) /\ m1 - 1 - m1 + m = m - 1
  BY ZenonT(40), OneBelow
<1>2. QED
  BY ZenonT(40), <1>1 DEF Kept

(* Whatever instruction the original program executes, its stack and the   *)
(* labels keep their types.                                                *)
LEMMA RealType ==
    ASSUME NEW r, NEW d, NEW s, NEW sd, NEW h, Stacks(r, d, s, sd, h),
           NEW op \in Indexed(MaxDepth), Need(op) <= d, d + Delta(op) <= MaxDepth
    PROVE  /\ IsStack(Exec(op, r, d), d + Delta(op))
           /\ IsLabelling(Relabel(op, h, d), d + Delta(op))
<1>1. MaxDepth \in Nat /\ d \in Nat
  BY BoundsAssumption DEF Stacks, IsStack, IsLabelling
<1>2. /\ Delta(op) \in Int /\ d + Delta(op) >= 0
      /\ \A x \in 0..(d + Delta(op) - 1) : Place(op, x) \in -1..(d - 1)
  BY ZenonT(40), <1>1, OpFacts
<1>3. Exec(op, r, d) \in [0..(d + Delta(op) - 1) -> Val]
  BY ZenonT(40), <1>1, ExecType DEF Stacks, IsStack, IsLabelling
<1>4. Relabel(op, h, d) \in [0..(d + Delta(op) - 1) -> 0..MaxDepth]
  BY <1>1, <1>2 DEF Relabel, Stacks, IsStack, IsLabelling
<1>5. QED
  BY <1>1, <1>2, <1>3, <1>4 DEF IsStack, IsLabelling

(* An instruction that drops the segment makes the stacks equal, when both *)
(* programs execute it.                                                    *)
LEMMA DropsKeep ==
    ASSUME NEW r, NEW d, NEW s, NEW sd, NEW h, NEW m, NEW g, NEW e,
           Stacks(r, d, s, sd, h), m \in Int, g \in Nat, Segment(d, m, g),
           KeepInSync(r, d, s, sd, m, g),
           NEW op \in Indexed(MaxDepth), Need(op) <= d, d + Delta(op) <= MaxDepth,
           Drops(op, d, e, m, g)
    PROVE  /\ LowerBounds(op) /\ Need(op) <= sd /\ sd + Delta(op) = d + Delta(op)
           /\ Exec(op, s, sd) = Exec(op, r, d)
<1>1. d \in Nat /\ sd = d
  BY BoundsAssumption DEF Stacks, IsStack, IsLabelling, KeepInSync
<1>2. /\ LowerBounds(op) /\ Delta(op) \in Int
      /\ \A x \in 0..(d + Delta(op) - 1) : Src(op, x) \in 0..(d - 1)
  BY ZenonT(40), <1>1, BoundsAssumption, OpFacts
<1>3. \A x \in 0..(d + Delta(op) - 1) : s[Src(op, x)] = r[Src(op, x)]
  BY ZenonT(40), <1>1, <1>2 DEF Drops, KeepInSync
<1>4. Exec(op, s, d) = Exec(op, r, d)
  BY ZenonT(40), <1>3 DEF Exec
<1>5. QED
  BY ZenonT(40), <1>1, <1>2, <1>4

(* The same when the rewritten program executes what the Simulator emits. *)
LEMMA DropsCut ==
    ASSUME NEW r, NEW d, NEW s, NEW sd, NEW h, NEW m, NEW g, NEW e,
           Stacks(r, d, s, sd, h), m \in Int, g \in Nat, Segment(d, m, g),
           CutInSync(r, d, s, sd, m, g),
           NEW op \in Indexed(MaxDepth), Need(op) <= d, d + Delta(op) <= MaxDepth,
           Drops(op, d, e, m, g)
    PROVE  /\ LowerBounds(e) /\ Need(e) <= sd /\ sd + Delta(e) = d + Delta(op)
           /\ Exec(e, s, sd) = Exec(op, r, d)
<1>1. d \in Nat /\ sd = d - g /\ sd \in Nat
  BY BoundsAssumption DEF Stacks, IsStack, IsLabelling, CutInSync
<1>2. Delta(op) \in Int
  BY ZenonT(40), <1>1, BoundsAssumption, OpFacts
<1>3. /\ LowerBounds(e) /\ Need(e) <= sd /\ Delta(e) = Delta(op) + g
      /\ sd + Delta(e) = d + Delta(op)
  BY <1>1, <1>2 DEF Drops
<1>4. \A x \in 0..(d + Delta(op) - 1) :
        Src(e, x) \in 0..(sd - 1) /\ With(Src(e, x), m, g) = Src(op, x)
  BY ZenonT(40), <1>1, <1>2 DEF Drops
<1>5. \A y \in 0..(sd - 1) : s[y] = r[With(y, m, g)]
  BY ZenonT(40) DEF CutInSync
<1>6. \A x \in 0..(d + Delta(op) - 1) : s[Src(e, x)] = r[Src(op, x)]
  BY ZenonT(40), <1>4, <1>5
<1>7. Exec(e, s, sd) = Exec(op, r, d)
  <2>1. 0..(sd + Delta(e) - 1) = 0..(d + Delta(op) - 1)
    BY <1>1, <1>2, <1>3
  <2>2. QED
    BY ZenonT(40), <1>6, <2>1 DEF Exec
<1>8. QED
  BY ZenonT(40), <1>3, <1>7

(* POP_S of the one slot the stacks differ in. *)
LEMMA SetKeep ==
    ASSUME NEW r, NEW d, NEW s, NEW sd, NEW h, NEW m \in Int, 2 <= m,
           Stacks(r, d, s, sd, h), KeepInSync(r, d, s, sd, m, 1),
           Need(POP_S(m - 1)) <= d
    PROVE  /\ LowerBounds(POP_S(m - 1)) /\ sd = d
           /\ Exec(POP_S(m - 1), s, sd) = Exec(POP_S(m - 1), r, d)
<1>1. d \in Nat /\ sd = d /\ m <= d
  BY BoundsAssumption DEF Stacks, IsStack, IsLabelling, KeepInSync, Need, POP_S, StackOp
<1>2. \A x \in 0..(d - 2) : s[Src(POP_S(m - 1), x)] = r[Src(POP_S(m - 1), x)]
  BY <1>1 DEF KeepInSync, InSegment, Src, POP_S, StackOp
<1>3. QED
  BY <1>1, <1>2 DEF Exec, LowerBounds, Delta, POP_S, StackOp

-----------------------------------------------------------------------------
(* Instructions that pop t values and push n others. *)

(* Replace yields a stack. *)
LEMMA ReplaceType ==
    ASSUME NEW d \in Nat, NEW t \in Nat, NEW n \in Nat, t <= d,
           NEW s \in [0..(d - 1) -> Val], NEW new, \A x \in 0..(n - 1) : new[x] \in Val
    PROVE  /\ Replace(s, d, t, new, n) \in [0..(d - t + n - 1) -> Val]
           /\ \A x \in 0..(d - t + n - 1) :
                Replace(s, d, t, new, n)[x] = IF x < n THEN new[x] ELSE s[x - n + t]
BY DEF Replace

(* The original program, when the t values are above the segment. *)
LEMMA PopPushReal ==
    ASSUME NEW r, NEW d, NEW s, NEW sd, NEW h, NEW m, NEW g,
           Stacks(r, d, s, sd, h), m \in Int, g \in Nat, Segment(d, m, g),
           NEW t \in Nat, NEW n \in Nat, t <= m - g, d - t + n <= MaxDepth,
           NEW new, \A x \in 0..(n - 1) : new[x] \in Val,
           NEW z, \A x \in 0..(n - 1) : z[x] \in 0..MaxDepth
    PROVE  /\ IsStack(Replace(r, d, t, new, n), d - t + n)
           /\ IsLabelling(Replace(h, d, t, z, n), d - t + n)
           /\ m - t + n \in Int /\ Segment(d - t + n, m - t + n, g)
           /\ Kept(r, m, Replace(r, d, t, new, n), m - t + n, g)
           /\ Kept(h, m, Replace(h, d, t, z, n), m - t + n, g)
<1>1. MaxDepth \in Nat /\ d \in Nat /\ 1 <= g /\ g <= m /\ m <= d
  BY BoundsAssumption DEF Stacks, IsStack, IsLabelling, Segment
<1>2. /\ d - t + n \in 0..MaxDepth
      /\ m - t + n \in Int /\ Segment(d - t + n, m - t + n, g)
  BY <1>1 DEF Segment
<1>3. Replace(r, d, t, new, n) \in [0..(d - t + n - 1) -> Val]
  BY <1>1 DEF Stacks, IsStack, IsLabelling, Replace
<1>4. Replace(h, d, t, z, n) \in [0..(d - t + n - 1) -> 0..MaxDepth]
  BY SMTT(40), <1>1 DEF Stacks, IsStack, IsLabelling, Replace
<1>5. Kept(r, m, Replace(r, d, t, new, n), m - t + n, g)
  BY <1>1 DEF Kept, Replace
<1>6. Kept(h, m, Replace(h, d, t, z, n), m - t + n, g)
  BY SMTT(40), <1>1 DEF Kept, Replace
<1>7. QED
  BY SMTT(40), <1>1, <1>2, <1>3, <1>4, <1>5, <1>6 DEF IsStack, IsLabelling

(* The rewritten program pops the same values and stays in step. *)
LEMMA PopPushShadow ==
    ASSUME NEW r, NEW d, NEW s, NEW sd, NEW h, NEW m, NEW g, NEW k,
           Stacks(r, d, s, sd, h), m \in Int, g \in Nat, Segment(d, m, g),
           InSync(k, r, d, s, sd, m, g),
           NEW t \in Nat, NEW n \in Nat, t <= m - g, d - t + n <= MaxDepth,
           NEW new, \A x \in 0..(n - 1) : new[x] \in Val
    PROVE  /\ t <= sd /\ \A x \in 0..(t - 1) : r[x] = s[x]
           /\ IsStack(Replace(s, sd, t, new, n), sd - t + n)
           /\ InSync(k, Replace(r, d, t, new, n), d - t + n,
                     Replace(s, sd, t, new, n), sd - t + n, m - t + n, g)
<1>1. MaxDepth \in Nat /\ d \in Nat /\ sd \in Nat /\ 1 <= g /\ g <= m /\ m <= d
  BY SMTT(40), BoundsAssumption DEF Stacks, IsStack, IsLabelling, Segment
<1>2. CASE k \in KeepsCode
  <2>1. KeepInSync(r, d, s, sd, m, g)
    BY ZenonT(40), <1>2 DEF InSync
  <2>2. t <= sd /\ sd = d /\ sd - t + n \in 0..MaxDepth
    BY <1>1, <2>1 DEF KeepInSync
  <2>3. \A x \in 0..(t - 1) : r[x] = s[x]
    BY <1>1, <2>1, <2>2 DEF KeepInSync, InSegment
  <2>4. Replace(s, sd, t, new, n) \in [0..(sd - t + n - 1) -> Val]
    BY ZenonT(40), <1>1, <2>2, ReplaceType DEF Stacks, IsStack, IsLabelling
  <2>5. KeepInSync(Replace(r, d, t, new, n), d - t + n,
                   Replace(s, sd, t, new, n), sd - t + n, m - t + n, g)
    BY SMTT(40), <1>1, <2>1, <2>2 DEF KeepInSync, InSegment, Replace
  <2>6. QED
    BY SMTT(40), <1>1, <1>2, <2>2, <2>3, <2>4, <2>5 DEF InSync, IsStack
<1>3. CASE k \notin KeepsCode
  <2>1. CutInSync(r, d, s, sd, m, g)
    BY ZenonT(40), <1>3 DEF InSync
  <2>2. t <= sd /\ sd = d - g /\ sd - t + n \in 0..MaxDepth
    BY SMTT(40), <1>1, <2>1 DEF CutInSync
  <2>3. \A x \in 0..(t - 1) : r[x] = s[x]
    BY <1>1, <2>1, <2>2 DEF CutInSync, With
  <2>4. Replace(s, sd, t, new, n) \in [0..(sd - t + n - 1) -> Val]
    BY ZenonT(40), <1>1, <2>2, ReplaceType DEF Stacks, IsStack, IsLabelling
  <2>5. CutInSync(Replace(r, d, t, new, n), d - t + n,
                  Replace(s, sd, t, new, n), sd - t + n, m - t + n, g)
    BY SMTT(40), <1>1, <2>1, <2>2 DEF CutInSync, With, Replace
  <2>6. QED
    BY SMTT(40), <1>1, <1>3, <2>2, <2>3, <2>4, <2>5 DEF InSync, IsStack
<1>4. QED
  BY ZenonT(40), <1>2, <1>3

-----------------------------------------------------------------------------
(* The bodies the run is in. *)

(* The innermost body is a Frame. *)
LEMMA TopType ==
    ASSUME NEW fs, Bodies(fs), fs # <<>>
    PROVE  /\ Len(fs) \in Nat /\ Len(fs) >= 1
           /\ fs[Len(fs)] \in Frame
           /\ fs[Len(fs)].kind \in BodyKinds
           /\ fs[Len(fs)].base \in 0..MaxDepth /\ fs[Len(fs)].base \in Nat
           /\ fs[Len(fs)].ret \in Nat
           /\ fs[Len(fs)].size0 \in Int
           /\ fs[Len(fs)].home \in [0..(fs[Len(fs)].base - 1) -> 0..MaxDepth]
<1>1. fs \in Seq(Frame) /\ \A n \in 1..Len(fs) : DOMAIN fs[n].home = 0..(fs[n].base - 1)
  BY ZenonT(40) DEF Bodies
<1>2. Len(fs) \in Nat /\ Len(fs) >= 1 /\ Len(fs) \in 1..Len(fs)
  BY <1>1
<1>3. fs[Len(fs)] \in Frame
  BY <1>1, <1>2
<1>4. fs[Len(fs)].home \in Homes /\ DOMAIN fs[Len(fs)].home = 0..(fs[Len(fs)].base - 1)
  BY ZenonT(40), <1>1, <1>2, <1>3 DEF Frame
<1>5. fs[Len(fs)].home \in [0..(fs[Len(fs)].base - 1) -> 0..MaxDepth]
  <2>1. PICK d \in 0..MaxDepth : fs[Len(fs)].home \in [0..(d - 1) -> 0..MaxDepth]
    BY ZenonT(40), <1>4 DEF Homes
  <2>2. DOMAIN fs[Len(fs)].home = 0..(d - 1)
    BY ZenonT(40), <2>1
  <2>3. QED
    BY ZenonT(40), <1>4, <2>1, <2>2
<1>6. fs[Len(fs)].base \in 0..MaxDepth /\ fs[Len(fs)].base \in Nat
  BY SMTT(40), <1>3, BoundsAssumption DEF Frame
<1>7. QED
  BY ZenonT(40), <1>2, <1>3, <1>5, <1>6 DEF Frame

(* Moving the segment with its labels keeps it tracked. *)
LEMMA TrackedKept ==
    ASSUME NEW fs, NEW h, NEW m \in Int, NEW h1, NEW m1 \in Int, NEW g \in Nat,
           Bodies(fs), Tracked(fs, h, m, g), Kept(h, m, h1, m1, g)
    PROVE  Tracked(fs, h1, m1, g)
<1>1. ASSUME fs # <<>>
      PROVE  Labelled(h1, m1, g, fs[Len(fs)])
  <2>1. fs[Len(fs)].base \in Int /\ fs[Len(fs)].size0 \in Int
    BY SMTT(40), <1>1, TopType, BoundsAssumption
  <2>2. Labelled(h, m, g, fs[Len(fs)])
    BY ZenonT(40), <1>1 DEF Tracked
  <2>3. QED
    BY SMTT(40), <2>1, <2>2 DEF Labelled, Kept
<1>2. QED
  BY ZenonT(40), <1>1 DEF Tracked

(* The label of the bottom of the segment determines its size. *)
LEMMA SizeFromLabel ==
    ASSUME NEW b \in Nat, NEW n \in Nat, NEW s \in Int, NEW m \in Int, s <= b,
           b - s + 1 = IF m - 1 < n THEN 0 ELSE b + n - (m - 1)
    PROVE  m = s + n
OBVIOUS

(* Where a body has ended the Simulator's size is the one the enclosing    *)
(* Simulator goes on with.                                                 *)
LEMMA BodyEnd ==
    ASSUME NEW fs, NEW h, NEW d, NEW m \in Int, NEW g \in Nat,
           Bodies(fs), fs # <<>>, Tracked(fs, h, m, g), Segment(d, m, g),
           NEW f, f = fs[Len(fs)], d = f.base + f.ret,
           \A x \in 0..(d - 1) : h[x] = IF x < f.ret THEN 0 ELSE d - x
    PROVE  m = f.size0 + f.ret
<1>1. f.base \in Nat /\ f.ret \in Nat /\ f.size0 \in Int
  BY ZenonT(40), TopType
<1>2. Labelled(h, m, g, f) /\ f.size0 <= f.base
  <2>1. fs # <<>> => Labelled(h, m, g, f)
    BY ZenonT(40) DEF Tracked
  <2>2. \A n \in 1..Len(fs) : BodyOK(fs[n], g)
    BY ZenonT(40) DEF Tracked
  <2>3. Len(fs) \in 1..Len(fs)
    BY TopType
  <2>4. QED
    BY ZenonT(40), <2>1, <2>2, <2>3 DEF BodyOK
<1>3. 1 <= g /\ g <= m /\ m <= d
  BY ZenonT(40) DEF Segment
<1>4. h[m - 1] = f.base - f.size0 + m - (m - 1)
  BY SMTT(40), <1>1, <1>2, <1>3 DEF Labelled
<1>5. h[m - 1] = IF m - 1 < f.ret THEN 0 ELSE d - (m - 1)
  BY SMTT(40), <1>1, <1>3
<1>6. f.base - f.size0 + m - (m - 1) = IF m - 1 < f.ret THEN 0 ELSE f.base + f.ret - (m - 1)
  BY SMTT(40), <1>1, <1>4, <1>5
<1>7. f.base - f.size0 + 1 = IF m - 1 < f.ret THEN 0 ELSE f.base + f.ret - (m - 1)
  BY <1>1, <1>6
<1>8. f.size0 <= f.base
  BY ZenonT(40), <1>2
<1>9. QED
  BY ZenonT(40), <1>1, <1>7, <1>8, SizeFromLabel

(* A body is entered: its frame is put on top. *)
LEMMA PushBody ==
    ASSUME NEW fs, NEW h, NEW m \in Int, NEW h1, NEW m1 \in Int, NEW g \in Nat, NEW f,
           Bodies(fs), Tracked(fs, h, m, g),
           f \in Frame, DOMAIN f.home = 0..(f.base - 1), BodyOK(f, g),
           Labelled(h1, m1, g, f), Kept(h, m, f.home, f.size0, g)
    PROVE  Bodies(Append(fs, f)) /\ Tracked(Append(fs, f), h1, m1, g)
<1> DEFINE gs == Append(fs, f)
<1>0. fs \in Seq(Frame)
  BY ZenonT(40) DEF Bodies
<1>1. /\ fs \in Seq(Frame) /\ gs \in Seq(Frame) /\ Len(fs) \in Nat
      /\ Len(gs) = Len(fs) + 1 /\ gs[Len(gs)] = f /\ gs # <<>>
      /\ \A n \in 1..Len(fs) : gs[n] = fs[n]
  BY SMTT(40), <1>0
<1> HIDE DEF gs
<1>2. \A n \in 1..Len(fs) : DOMAIN fs[n].home = 0..(fs[n].base - 1)
  BY ZenonT(40) DEF Bodies
<1>3. Bodies(gs)
  <2>1. SUFFICES ASSUME NEW n \in 1..Len(gs)
                 PROVE  DOMAIN gs[n].home = 0..(gs[n].base - 1)
    BY ZenonT(40), <1>1 DEF Bodies
  <2>2. n \in 1..Len(fs) \/ n = Len(gs)
    BY SMTT(40), <1>1
  <2>3. QED
    BY ZenonT(40), <1>1, <1>2, <2>2
<1>4. \A n \in 1..Len(gs) : BodyOK(gs[n], g)
  <2>1. \A n \in 1..Len(fs) : BodyOK(fs[n], g)
    BY ZenonT(40) DEF Tracked
  <2>2. \A n \in 1..Len(gs) : n \in 1..Len(fs) \/ n = Len(gs)
    BY SMTT(40), <1>1
  <2>3. QED
    BY ZenonT(40), <1>1, <2>1, <2>2
<1>5. \A n \in 2..Len(gs) : Labelled(gs[n].home, gs[n].size0, g, gs[n - 1])
  <2>1. SUFFICES ASSUME NEW n \in 2..Len(gs)
                 PROVE  Labelled(gs[n].home, gs[n].size0, g, gs[n - 1])
    BY ZenonT(40)
  <2>2. CASE n \in 2..Len(fs)
    <3>1. gs[n] = fs[n] /\ gs[n - 1] = fs[n - 1]
      BY SMTT(40), <1>1, <2>2
    <3>2. Labelled(fs[n].home, fs[n].size0, g, fs[n - 1])
      BY ZenonT(40), <2>2 DEF Tracked
    <3>3. QED
      BY ZenonT(40), <3>1, <3>2
  <2>3. CASE n = Len(gs)
    <3>1. Len(fs) >= 1 /\ fs # <<>> /\ n - 1 = Len(fs) /\ n - 1 \in 1..Len(fs)
      BY <1>1, <2>3
    <3>2. gs[n] = f /\ gs[n - 1] = fs[Len(fs)] /\ f.size0 \in Int
      BY ZenonT(40), <1>1, <2>3, <3>1 DEF Frame
    <3>3. Tracked(fs, f.home, f.size0, g)
      BY ZenonT(40), <3>2, TrackedKept
    <3>4. QED
      BY ZenonT(40), <3>1, <3>2, <3>3 DEF Tracked
  <2>4. QED
    BY SMTT(40), <1>1, <2>2, <2>3
<1>6. Tracked(gs, h1, m1, g)
  BY ZenonT(40), <1>1, <1>4, <1>5 DEF Tracked
<1>7. QED
  BY ZenonT(40), <1>3, <1>6 DEF gs

(* An initial part of a sequence. *)
LEMMA SubSeqOfFrames ==
    ASSUME NEW fs \in Seq(Frame), NEW l \in Nat, l <= Len(fs)
    PROVE  /\ SubSeq(fs, 1, l) \in Seq(Frame) /\ Len(SubSeq(fs, 1, l)) = l
           /\ \A n \in 1..l : SubSeq(fs, 1, l)[n] = fs[n]
OBVIOUS

(* A body is left: the labels are again those of the enclosing code. *)
LEMMA PopBody ==
    ASSUME NEW fs, NEW h, NEW m \in Int, NEW g \in Nat, NEW f,
           Bodies(fs), fs # <<>>, Tracked(fs, h, m, g), f = fs[Len(fs)]
    PROVE  /\ Bodies(Front(fs)) /\ Tracked(Front(fs), f.home, f.size0, g)
           /\ BodyOK(f, g)
<1> DEFINE gs == Front(fs)
<1>0. fs \in Seq(Frame) /\ Len(fs) \in Nat /\ Len(fs) >= 1
  BY DEF Bodies
<1>1. /\ fs \in Seq(Frame) /\ gs \in Seq(Frame) /\ Len(fs) \in Nat /\ Len(fs) >= 1
      /\ Len(gs) = Len(fs) - 1
      /\ \A n \in 1..(Len(fs) - 1) : gs[n] = fs[n]
  <2> DEFINE l == Len(fs) - 1
  <2>1. l \in Nat /\ l <= Len(fs)
    BY <1>0
  <2> HIDE DEF l
  <2>2. /\ SubSeq(fs, 1, l) \in Seq(Frame) /\ Len(SubSeq(fs, 1, l)) = l
        /\ \A n \in 1..l : SubSeq(fs, 1, l)[n] = fs[n]
    BY ZenonT(40), <1>0, <2>1, SubSeqOfFrames
  <2>3. Front(fs) = SubSeq(fs, 1, l)
    BY ZenonT(40) DEF Front, l
  <2>4. /\ gs \in Seq(Frame) /\ Len(gs) = l /\ \A n \in 1..l : gs[n] = fs[n]
    BY ZenonT(40), <2>2, <2>3
  <2> HIDE DEF gs
  <2>5. QED
    BY ZenonT(40), <1>0, <2>4 DEF l
<1> HIDE DEF gs
<1>2. \A n \in 1..Len(fs) : DOMAIN fs[n].home = 0..(fs[n].base - 1)
  BY ZenonT(40) DEF Bodies
<1>3. Bodies(gs)
  BY <1>1, <1>2 DEF Bodies
<1>4. \A n \in 1..Len(fs) : BodyOK(fs[n], g)
  BY ZenonT(40) DEF Tracked
<1>5. \A n \in 2..Len(fs) : Labelled(fs[n].home, fs[n].size0, g, fs[n - 1])
  BY ZenonT(40) DEF Tracked
<1>6. \A n \in 1..Len(gs) : BodyOK(gs[n], g)
  BY <1>1, <1>4
<1>7. \A n \in 2..Len(gs) : Labelled(gs[n].home, gs[n].size0, g, gs[n - 1])
  <2>1. SUFFICES ASSUME NEW n \in 2..Len(gs)
                 PROVE  Labelled(gs[n].home, gs[n].size0, g, gs[n - 1])
    BY ZenonT(40)
  <2>2. gs[n] = fs[n] /\ gs[n - 1] = fs[n - 1] /\ n \in 2..Len(fs)
    BY <1>1
  <2>3. QED
    BY ZenonT(40), <1>5, <2>2
<1>8. gs # <<>> => Labelled(f.home, f.size0, g, gs[Len(gs)])
  <2>1. SUFFICES ASSUME gs # <<>>
                 PROVE  Labelled(f.home, f.size0, g, gs[Len(gs)])
    BY ZenonT(40)
  <2>2. Len(fs) \in 2..Len(fs) /\ gs[Len(gs)] = fs[Len(fs) - 1]
    BY SMTT(40), <1>1, <2>1
  <2>3. QED
    BY ZenonT(40), <1>5, <2>2
<1>9. Tracked(gs, f.home, f.size0, g)
  BY ZenonT(40), <1>6, <1>7, <1>8 DEF Tracked
<1>10. BodyOK(f, g)
  BY <1>1, <1>4
<1>11. QED
  BY ZenonT(40), <1>3, <1>9, <1>10 DEF gs

(* A loop goes on with its other body. *)
LEMMA NextBody ==
    ASSUME NEW fs, NEW h, NEW m \in Int, NEW g \in Nat, NEW f,
           NEW k \in BodyKinds, NEW n \in Nat,
           Bodies(fs), fs # <<>>, Tracked(fs, h, m, g), f = fs[Len(fs)],
           k \in {"until", "cond"} => n = 1, k \in {"repeat", "while"} => n = 0
    PROVE  /\ Bodies(Append(Front(fs), [f EXCEPT !.kind = k, !.ret = n]))
           /\ Tracked(Append(Front(fs), [f EXCEPT !.kind = k, !.ret = n]), h, m, g)
<1> DEFINE f1 == [f EXCEPT !.kind = k, !.ret = n]
<1>1. f \in Frame /\ DOMAIN f.home = 0..(f.base - 1) /\ f.size0 \in Int
  BY ZenonT(40), TopType
<1>2. /\ f1 \in Frame /\ f1.kind = k /\ f1.ret = n /\ f1.base = f.base
      /\ f1.size0 = f.size0 /\ f1.home = f.home
  BY ZenonT(40), <1>1 DEF Frame
<1> HIDE DEF f1
<1>3. Bodies(Front(fs)) /\ Tracked(Front(fs), f.home, f.size0, g) /\ BodyOK(f, g)
  BY ZenonT(40), PopBody
<1>4. Labelled(h, m, g, f1)
  BY ZenonT(40), <1>2 DEF Tracked, Labelled
<1>5. BodyOK(f1, g)
  BY ZenonT(40), <1>2, <1>3 DEF BodyOK
<1>6. Kept(f.home, f.size0, f1.home, f1.size0, g)
  BY <1>1, <1>2 DEF Kept
<1>7. QED
  BY ZenonT(40), <1>1, <1>2, <1>3, <1>4, <1>5, <1>6, PushBody DEF f1

-----------------------------------------------------------------------------
(* The ends of a trial that VisitStack does not decide. *)

(* Two stacks with the same values are the same. *)
LEMMA SameValues ==
    ASSUME NEW k \in Int, NEW f \in [0..k -> Val], NEW f1 \in [0..k -> Val],
           \A x \in 0..k : f[x] = f1[x]
    PROVE  f = f1
OBVIOUS

(* Two stacks of depth d that can differ in the top only. *)
SameBelow(r, s, d) == \A x \in 1..(d - 1) : s[x] = r[x]

(* A slot is the top or below it. *)
LEMMA TopOrBelow ==
    ASSUME NEW d \in Nat, NEW r, NEW s, SameBelow(r, s, d)
    PROVE  \A x \in 0..(d - 1) : x = 0 \/ s[x] = r[x]
BY SMTT(40) DEF SameBelow

(* CommitMove: BLKSWAP 1, m-1 brings the moved value to the top; pushing a *)
(* value there leaves the rest of the stack the same.                      *)
LEMMA CommitMoveStacks ==
    ASSUME NEW r, NEW d, NEW s, NEW sd, NEW h, NEW m \in Int, m >= 2, m <= d,
           Stacks(r, d, s, sd, h), CutInSync(r, d, s, sd, m, 1),
           NEW new, new[0] \in Val
    PROVE  /\ sd + 1 = d
           /\ IsStack(Exec(BLKSWAP(1, m - 1), r, d), d)
           /\ IsStack(Replace(s, sd, 0, new, 1), d)
           /\ Exec(BLKSWAP(1, m - 1), r, d)[0] = r[m - 1]
           /\ Replace(s, sd, 0, new, 1)[0] = new[0]
           /\ SameBelow(Exec(BLKSWAP(1, m - 1), r, d), Replace(s, sd, 0, new, 1), d)
<1> DEFINE op == BLKSWAP(1, m - 1)
<1>1. d \in Nat /\ sd = d - 1 /\ sd \in Nat /\ d \in 0..MaxDepth
  BY BoundsAssumption DEF Stacks, IsStack, CutInSync
<1>2. /\ Delta(op) = 0
      /\ \A x \in 0..(d - 1) :
           Src(op, x) = IF x = 0 THEN m - 1 ELSE IF x < m THEN x - 1 ELSE x
  BY SMTT(40), <1>1 DEF Src, Delta, BLKSWAP, StackOp
<1> HIDE DEF op
<1>3. Exec(op, r, d) = [x \in 0..(d - 1) |-> r[Src(op, x)]]
  BY <1>1, <1>2 DEF Exec
<1>4. IsStack(Exec(op, r, d), d)
  <2>1. \A x \in 0..(d - 1) : Src(op, x) \in 0..(d - 1)
    BY <1>1, <1>2
  <2>2. r \in [0..(d - 1) -> Val]
    BY ZenonT(40) DEF Stacks, IsStack
  <2>3. QED
    BY ZenonT(40), <1>1, <1>3, <2>1, <2>2 DEF IsStack
<1>5. Exec(op, r, d)[0] = r[m - 1]
  BY SMTT(40), <1>1, <1>2, <1>3
<1>6. /\ IsStack(Replace(s, sd, 0, new, 1), d)
      /\ Replace(s, sd, 0, new, 1)[0] = new[0]
      /\ \A x \in 1..(d - 1) : Replace(s, sd, 0, new, 1)[x] = s[x - 1]
  BY SMTT(40), <1>1 DEF Replace, Stacks, IsStack
<1>7. \A x \in 1..(d - 1) : s[x - 1] = r[With(x - 1, m, 1)] /\ With(x - 1, m, 1) = Src(op, x)
  BY <1>1, <1>2 DEF CutInSync, With
<1>8. \A x \in 1..(d - 1) : Exec(op, r, d)[x] = r[Src(op, x)]
  BY SMTT(40), <1>1, <1>3
<1>9. SameBelow(Exec(op, r, d), Replace(s, sd, 0, new, 1), d)
  BY ZenonT(40), <1>6, <1>7, <1>8 DEF SameBelow
<1>10. sd + 1 = d
  BY <1>1
<1>11. QED
  BY ZenonT(40), <1>4, <1>5, <1>6, <1>9, <1>10 DEF op

(* StepPopAndDrop: POP n; DROP n-1 in either program. *)
LEMMA PopAndDropExec ==
    ASSUME NEW d \in Nat, NEW r \in [0..(d - 1) -> Val], NEW n \in Nat, 2 <= n, n + 1 <= d
    PROVE  /\ Exec(DROP(n - 1), Exec(POP_S(n), r, d), d - 1) \in [0..(d - n - 1) -> Val]
           /\ \A x \in 0..(d - n - 1) :
                Exec(DROP(n - 1), Exec(POP_S(n), r, d), d - 1)[x] = r[IF x = 0 THEN 0 ELSE x + n]
<1> DEFINE f == Exec(POP_S(n), r, d)
<1>1. /\ f \in [0..(d - 2) -> Val]
      /\ \A x \in 0..(d - 2) : f[x] = r[IF x = n - 1 THEN 0 ELSE x + 1]
  BY SMTT(40) DEF Exec, Src, Delta, POP_S, StackOp
<1> HIDE DEF f
<1>2. /\ Delta(DROP(n - 1)) = -(n - 1)
      /\ \A x \in 0..(d - n - 1) : Src(DROP(n - 1), x) = x + n - 1
  BY ZenonT(40) DEF Src, Delta, DROP, StackOp
<1>3. /\ Exec(DROP(n - 1), f, d - 1) \in [0..(d - n - 1) -> Val]
      /\ \A x \in 0..(d - n - 1) : Exec(DROP(n - 1), f, d - 1)[x] = f[x + n - 1]
  BY <1>1, <1>2 DEF Exec
<1>4. \A x \in 0..(d - n - 1) : f[x + n - 1] = r[IF x = 0 THEN 0 ELSE x + n]
  BY <1>1
<1>5. QED
  BY ZenonT(40), <1>3, <1>4 DEF f

(* The rewritten program has the same stack after the same instructions. *)
LEMMA PopAndDropKeep ==
    ASSUME NEW r, NEW d, NEW s, NEW sd, NEW h, NEW m \in Int, NEW n \in Nat, 2 <= n,
           n = m - 1, n + 1 <= d, Stacks(r, d, s, sd, h), KeepInSync(r, d, s, sd, m, 1)
    PROVE  /\ sd = d
           /\ Exec(DROP(n - 1), Exec(POP_S(n), s, sd), sd - 1)
                = Exec(DROP(n - 1), Exec(POP_S(n), r, d), d - 1)
<1>1. d \in Nat /\ sd = d /\ r \in [0..(d - 1) -> Val] /\ s \in [0..(d - 1) -> Val]
  BY BoundsAssumption DEF Stacks, IsStack, IsLabelling, KeepInSync
<1> DEFINE f == Exec(DROP(n - 1), Exec(POP_S(n), r, d), d - 1)
           f1 == Exec(DROP(n - 1), Exec(POP_S(n), s, d), d - 1)
<1>2. /\ f \in [0..(d - n - 1) -> Val] /\ f1 \in [0..(d - n - 1) -> Val]
      /\ \A x \in 0..(d - n - 1) : f[x] = r[IF x = 0 THEN 0 ELSE x + n]
      /\ \A x \in 0..(d - n - 1) : f1[x] = s[IF x = 0 THEN 0 ELSE x + n]
  BY ZenonT(40), <1>1, PopAndDropExec
<1> HIDE DEF f, f1
<1>3. \A x \in 0..(d - n - 1) :
        r[IF x = 0 THEN 0 ELSE x + n] = s[IF x = 0 THEN 0 ELSE x + n]
  BY <1>1 DEF KeepInSync, InSegment
<1>4. f = f1
  <2>1. d - n - 1 \in Int
    BY <1>1
  <2>2. \A x \in 0..(d - n - 1) : f[x] = f1[x]
    BY ONLY ZenonT(60), <1>2, <1>3
  <2>3. QED
    BY ONLY <1>2, <2>1, <2>2, SameValues
<1>5. QED
  BY ZenonT(40), <1>1, <1>4 DEF f, f1

(* The same after BLKDROP2 n-1, 1 on the stack without the segment. *)
LEMMA PopAndDropCut ==
    ASSUME NEW r, NEW d, NEW s, NEW sd, NEW h, NEW m \in Int, NEW n \in Nat, 2 <= n,
           n = m - 1, n + 1 <= d, Stacks(r, d, s, sd, h), CutInSync(r, d, s, sd, m, 1)
    PROVE  /\ sd + Delta(makeBLKDROP2(n - 1, 1)) = d - 1 - (n - 1)
           /\ Exec(makeBLKDROP2(n - 1, 1), s, sd)
                = Exec(DROP(n - 1), Exec(POP_S(n), r, d), d - 1)
<1>1. d \in Nat /\ sd = d - 1 /\ r \in [0..(d - 1) -> Val] /\ s \in [0..(sd - 1) -> Val]
  BY BoundsAssumption DEF Stacks, IsStack, IsLabelling, CutInSync
<1> DEFINE f == Exec(DROP(n - 1), Exec(POP_S(n), r, d), d - 1)
           op == makeBLKDROP2(n - 1, 1)
           f1 == Exec(op, s, sd)
<1>2. /\ f \in [0..(d - n - 1) -> Val]
      /\ \A x \in 0..(d - n - 1) : f[x] = r[IF x = 0 THEN 0 ELSE x + n]
  BY ZenonT(40), <1>1, PopAndDropExec
<1>3. /\ Delta(op) = -(n - 1)
      /\ \A x \in 0..(d - n - 1) : Src(op, x) = IF x = 0 THEN 0 ELSE x + n - 1
  <2>1. CASE n = 2
    BY SMTT(40), <1>1, <2>1 DEF Src, Delta, makeBLKDROP2, POP_S, StackOp
  <2>2. CASE n # 2
    BY SMTT(40), <1>1, <2>2 DEF Src, Delta, makeBLKDROP2, BLKDROP2, StackOp
  <2>3. QED
    BY ZenonT(40), <2>1, <2>2
<1> HIDE DEF f, op
<1>4. /\ f1 \in [0..(d - n - 1) -> Val]
      /\ \A x \in 0..(d - n - 1) : f1[x] = s[IF x = 0 THEN 0 ELSE x + n - 1]
  BY SMTT(40), <1>1, <1>3 DEF Exec
<1> HIDE DEF f1
<1>5. \A x \in 0..(d - n - 1) :
        s[IF x = 0 THEN 0 ELSE x + n - 1] = r[IF x = 0 THEN 0 ELSE x + n]
  BY <1>1 DEF CutInSync, With
<1>6. f = f1
  <2>1. d - n - 1 \in Int
    BY <1>1
  <2>2. \A x \in 0..(d - n - 1) : f[x] = f1[x]
    BY ONLY ZenonT(60), <1>2, <1>4, <1>5
  <2>3. QED
    BY ONLY <1>2, <1>4, <2>1, <2>2, SameValues
<1>7. sd + Delta(op) = d - 1 - (n - 1)
  BY ZenonT(40), <1>1, <1>3
<1>8. QED
  BY ZenonT(40), <1>6, <1>7 DEF f, f1, op

-----------------------------------------------------------------------------
(* How a trial begins: after the instruction and the prefix that replaces  *)
(* it the stacks are in step.                                              *)

(* The labels at the start. *)
LEMMA ZerosType ==
    ASSUME NEW d \in Int
    PROVE  Zeros(d) \in [0..(d - 1) -> 0..MaxDepth]
BY SMTT(40), BoundsAssumption DEF Zeros

(* BeginMove and BeginDelGen: the pushed value is the segment. *)
LEMMA BeginPush ==
    ASSUME NEW d \in Nat, d < MaxDepth, NEW r \in [0..(d - 1) -> Val],
           NEW new, new[0] \in Val
    PROVE  LET r1 == Replace(r, d, 0, new, 1) IN
           /\ Stacks(r1, d + 1, r, d, Zeros(d + 1)) /\ Segment(d + 1, 1, 1)
           /\ CutInSync(r1, d + 1, r, d, 1, 1) /\ r1[0] = new[0]
<1> DEFINE r1 == Replace(r, d, 0, new, 1)
<1>1. /\ r1 \in [0..d -> Val] /\ r1[0] = new[0]
      /\ \A x \in 0..(d - 1) : r1[x + 1] = r[x]
  BY DEF Replace
<1> HIDE DEF r1
<1>2. Zeros(d + 1) \in [0..d -> 0..MaxDepth]
  BY SMTT(40), BoundsAssumption DEF Zeros
<1>3. Stacks(r1, d + 1, r, d, Zeros(d + 1))
  BY SMTT(40), <1>1, <1>2, BoundsAssumption DEF Stacks, IsStack, IsLabelling
<1>4. CutInSync(r1, d + 1, r, d, 1, 1)
  BY SMTT(40), <1>1 DEF CutInSync, With
<1>5. QED
  BY SMTT(40), <1>1, <1>3, <1>4 DEF Segment, r1

(* op takes a stack of depth d to one of depth d1. *)
Moves(op, d, d1) ==
    /\ d1 \in 0..MaxDepth /\ Delta(op) \in Int /\ d + Delta(op) = d1
    /\ \A x \in 0..(d1 - 1) : Src(op, x) \in 0..(d - 1)

(* The prefix e makes of a stack what op does, without or but for the      *)
(* segment.                                                                *)
Cuts(op, e, sd1, m, g) == \A x \in 0..(sd1 - 1) : Src(e, x) = Src(op, With(x, m, g))
Keeps(op, e, d1, m, g) ==
    \A x \in 0..(d1 - 1) : ~InSegment(x, m, g) => Src(e, x) = Src(op, x)

(* The stack after such an instruction. *)
LEMMA MovesExec ==
    ASSUME NEW d \in Nat, NEW r \in [0..(d - 1) -> Val], NEW op, NEW d1, Moves(op, d, d1)
    PROVE  /\ d1 \in 0..MaxDepth /\ d1 \in Nat
           /\ Exec(op, r, d) \in [0..(d1 - 1) -> Val]
           /\ \A x \in 0..(d1 - 1) : Exec(op, r, d)[x] = r[Src(op, x)]
BY SMTT(40), BoundsAssumption DEF Moves, Exec

(* The prefix yields the stack without the segment. *)
LEMMA BeginCut ==
    ASSUME NEW d \in Nat, NEW r \in [0..(d - 1) -> Val], NEW op, NEW e, NEW d1, NEW sd1,
           NEW m \in Int, NEW g \in Nat, Moves(op, d, d1), Moves(e, d, sd1),
           Segment(d1, m, g), sd1 = d1 - g, Cuts(op, e, sd1, m, g)
    PROVE  /\ Stacks(Exec(op, r, d), d1, Exec(e, r, d), sd1, Zeros(d1))
           /\ CutInSync(Exec(op, r, d), d1, Exec(e, r, d), sd1, m, g)
<1>1. /\ d1 \in 0..MaxDepth /\ d1 \in Nat
      /\ Exec(op, r, d) \in [0..(d1 - 1) -> Val]
      /\ \A x \in 0..(d1 - 1) : Exec(op, r, d)[x] = r[Src(op, x)]
  BY SMTT(40), MovesExec
<1>2. /\ sd1 \in 0..MaxDepth /\ sd1 \in Nat
      /\ Exec(e, r, d) \in [0..(sd1 - 1) -> Val]
      /\ \A x \in 0..(sd1 - 1) : Exec(e, r, d)[x] = r[Src(e, x)]
  BY SMTT(40), MovesExec
<1>3. Zeros(d1) \in [0..(d1 - 1) -> 0..MaxDepth]
  BY SMTT(40), BoundsAssumption DEF Zeros
<1>4. \A x \in 0..(sd1 - 1) : With(x, m, g) \in 0..(d1 - 1)
  BY SMTT(40), <1>1 DEF Segment, With
<1>5. \A x \in 0..(sd1 - 1) : Exec(e, r, d)[x] = Exec(op, r, d)[With(x, m, g)]
  BY ZenonT(40), <1>1, <1>2, <1>4 DEF Cuts
<1>6. CutInSync(Exec(op, r, d), d1, Exec(e, r, d), sd1, m, g)
  BY ZenonT(40), <1>1, <1>2, <1>5 DEF CutInSync
<1>7. QED
  BY ZenonT(40), <1>1, <1>2, <1>3, <1>6 DEF Stacks, IsStack, IsLabelling

(* The prefix yields the stack up to the segment. *)
LEMMA BeginKeep ==
    ASSUME NEW d \in Nat, NEW r \in [0..(d - 1) -> Val], NEW op, NEW e, NEW d1,
           NEW m \in Int, NEW g \in Nat, Moves(op, d, d1), Moves(e, d, d1),
           Keeps(op, e, d1, m, g)
    PROVE  /\ Stacks(Exec(op, r, d), d1, Exec(e, r, d), d1, Zeros(d1))
           /\ KeepInSync(Exec(op, r, d), d1, Exec(e, r, d), d1, m, g)
<1>1. /\ d1 \in 0..MaxDepth /\ d1 \in Nat
      /\ Exec(op, r, d) \in [0..(d1 - 1) -> Val]
      /\ \A x \in 0..(d1 - 1) : Exec(op, r, d)[x] = r[Src(op, x)]
  BY SMTT(40), MovesExec
<1>2. /\ Exec(e, r, d) \in [0..(d1 - 1) -> Val]
      /\ \A x \in 0..(d1 - 1) : Exec(e, r, d)[x] = r[Src(e, x)]
  BY SMTT(40), MovesExec
<1>3. Zeros(d1) \in [0..(d1 - 1) -> 0..MaxDepth]
  BY SMTT(40), BoundsAssumption DEF Zeros
<1>4. \A x \in 0..(d1 - 1) : ~InSegment(x, m, g) => Exec(e, r, d)[x] = Exec(op, r, d)[x]
  BY ZenonT(40), <1>1, <1>2 DEF Keeps
<1>5. KeepInSync(Exec(op, r, d), d1, Exec(e, r, d), d1, m, g)
  BY ZenonT(40), <1>1, <1>4 DEF KeepInSync
<1>6. QED
  BY ZenonT(40), <1>1, <1>2, <1>3, <1>5 DEF Stacks, IsStack, IsLabelling

(* The instructions that isPOP, RearrangedLen and isSWAP recognise. *)
LEMMA RecognisedOps ==
    ASSUME NEW n \in Nat, NEW op \in Indexed(n), NEW d \in Nat, Need(op) <= d
    PROVE  /\ isPOP(op) # 0 =>
                /\ isPOP(op) \in Nat /\ isPOP(op) + 1 <= d /\ Delta(op) = -1
                /\ \A x \in 0..(d - 2) : x # isPOP(op) - 1 => Src(op, x) = x + 1
           /\ RearrangedLen(op) # 0 =>
                /\ RearrangedLen(op) \in Nat /\ RearrangedLen(op) <= d /\ Delta(op) = 0
                /\ \A x \in 0..(d - 1) : x >= RearrangedLen(op) => Src(op, x) = x
           /\ isSWAP(op) =>
                /\ 2 <= d /\ Delta(op) = 0 /\ Src(op, 0) = 1
                /\ \A x \in 2..(d - 1) : Src(op, x) = x
<1> USE DEF StackOp, isPOP, RearrangedLen, isSWAP, BLKDROP2, BLKSWAP, XCHG, REVERSE
<1>1. CASE \E i \in Nat : op = DROP(i) /\ 1 <= i
  BY SMTT(40), <1>1 DEF DROP
<1>2. CASE \E i \in Nat, j \in Nat : op = BLKDROP2(i, j) /\ 1 <= i /\ 1 <= j
  BY SMTT(40), <1>2 DEF Delta, Need, Src
<1>3. CASE \E i \in Nat : op = POP_S(i) /\ 1 <= i
  BY SMTT(40), <1>3 DEF POP_S, Delta, Need, Src
<1>4. CASE \E i \in Nat, j \in Nat : op = BLKPUSH(i, j) /\ 2 <= i
  BY SMTT(40), <1>4 DEF BLKPUSH
<1>5. CASE \E i \in Nat : op = PUSH_S(i)
  BY SMTT(40), <1>5 DEF PUSH_S
<1>6. CASE \E i \in Nat, j \in Nat : op = PUSH2_S(i, j)
  BY SMTT(40), <1>6 DEF PUSH2_S
<1>7. CASE \E i \in Nat, j \in Nat, k \in Nat : op = PUSH3_S(i, j, k)
  BY SMTT(40), <1>7 DEF PUSH3_S
<1>8. CASE \E i \in Nat, j \in Nat : op = BLKSWAP(i, j) /\ 1 <= i /\ 1 <= j
  BY SMTT(40), <1>8 DEF Delta, Need, Src
<1>9. CASE \E i \in Nat, j \in Nat : op = REVERSE(i, j) /\ 2 <= i
  BY SMTT(40), <1>9 DEF Delta, Need, Src
<1>10. CASE \E i \in Nat, j \in Nat : op = XCHG(i, j) /\ i < j
  BY SMTT(40), <1>10 DEF Delta, Need, Src, LargerOf
<1>11. CASE op = TUCK
  BY ZenonT(40), <1>11 DEF TUCK
<1>12. CASE \E i \in Nat : op = PUXC(i)
  BY SMTT(40), <1>12 DEF PUXC
<1>13. QED
  BY ZenonT(40), OpCases, <1>1, <1>2, <1>3, <1>4, <1>5, <1>6, <1>7, <1>8, <1>9, <1>10, <1>11, <1>12

(* DROP in terms of slots. *)
LEMMA DropSrc ==
    ASSUME NEW n \in Nat
    PROVE  /\ Delta(DROP(n)) = -n /\ \A x \in Nat : Src(DROP(n), x) = x + n
           /\ \A d \in 0..MaxDepth : n <= d => Moves(DROP(n), d, d - n)
<1>1. Delta(DROP(n)) = -n /\ \A x \in Nat : Src(DROP(n), x) = x + n
  BY ZenonT(40) DEF Delta, Src, DROP, StackOp
<1>2. QED
  BY <1>1, BoundsAssumption DEF Moves

(* BeginPopToDrop *)
LEMMA BeginPopToDropStacks ==
    ASSUME NEW d \in Nat, d <= MaxDepth, NEW r \in [0..(d - 1) -> Val],
           NEW op \in Indexed(MaxDepth), Need(op) <= d, isPOP(op) # 0
    PROVE  /\ Delta(op) = -1 /\ Delta(DROP(1)) = -1
           /\ isPOP(op) \in Int /\ Segment(d - 1, isPOP(op), 1)
           /\ Stacks(Exec(op, r, d), d - 1, Exec(DROP(1), r, d), d - 1, Zeros(d - 1))
           /\ KeepInSync(Exec(op, r, d), d - 1, Exec(DROP(1), r, d), d - 1, isPOP(op), 1)
<1> DEFINE m == isPOP(op)
<1>1. /\ m \in Nat /\ m # 0 /\ m + 1 <= d /\ Delta(op) = -1
      /\ \A x \in 0..(d - 2) : x # m - 1 => Src(op, x) = x + 1
  BY ZenonT(40), BoundsAssumption, RecognisedOps
<1>2. \A x \in 0..(d + Delta(op) - 1) : Src(op, x) \in 0..(d - 1)
  BY ZenonT(40), BoundsAssumption, OpFacts
<1>3. Delta(DROP(1)) = -1 /\ \A x \in Nat : Src(DROP(1), x) = x + 1
  BY ZenonT(40), DropSrc
<1> HIDE DEF m
<1>4. Moves(op, d, d - 1)
  <2>1. d + Delta(op) = d - 1 /\ d - 1 \in 0..MaxDepth
    BY SMTT(40), <1>1, BoundsAssumption
  <2>2. QED
    BY SMTT(40), <1>1, <1>2, <2>1 DEF Moves
<1>5. Moves(DROP(1), d, d - 1)
  BY SMTT(40), <1>1, BoundsAssumption, DropSrc
<1>6. Keeps(op, DROP(1), d - 1, m, 1)
  BY SMTT(40), <1>1, <1>3 DEF InSegment, Keeps
<1>7. m \in Int /\ Segment(d - 1, m, 1)
  BY SMTT(40), <1>1 DEF Segment
<1>8. QED
  BY ZenonT(40), <1>1, <1>3, <1>4, <1>5, <1>6, <1>7, BeginKeep DEF m

(* PUSH Si in terms of slots. *)
LEMMA PushSrc ==
    ASSUME NEW i \in Nat, NEW d \in Nat, i < d, d < MaxDepth
    PROVE  /\ Need(PUSH_S(i)) = i + 1 /\ Delta(PUSH_S(i)) = 1 /\ Moves(PUSH_S(i), d, d + 1)
           /\ Src(PUSH_S(i), 0) = i /\ \A x \in 1..d : Src(PUSH_S(i), x) = x - 1
<1>1. /\ Need(PUSH_S(i)) = i + 1 /\ Delta(PUSH_S(i)) = 1
      /\ Src(PUSH_S(i), 0) = i /\ \A x \in 1..d : Src(PUSH_S(i), x) = x - 1
  BY DEF Need, Delta, Src, PUSH_S, StackOp
<1>2. \A x \in 0..d : Src(PUSH_S(i), x) \in 0..(d - 1)
  <2>1. \A x \in 0..d : x = 0 \/ x \in 1..d
    OBVIOUS
  <2>2. QED
    BY SMTT(40), <1>1, <2>1
<1>3. QED
  BY SMTT(40), <1>1, <1>2, BoundsAssumption DEF Moves

(* Nothing changes nothing. *)
LEMMA NopExec ==
    ASSUME NEW d \in 0..MaxDepth, NEW r \in [0..(d - 1) -> Val]
    PROVE  /\ Exec(NOP, r, d) = r /\ Moves(NOP, d, d) /\ Delta(NOP) = 0
           /\ \A x \in Nat : Src(NOP, x) = x
<1>1. d \in Nat /\ Delta(NOP) = 0 /\ \A x : Src(NOP, x) = x
  BY SMTT(40), BoundsAssumption DEF Delta, Src, NOP, StackOp
<1>2. Moves(NOP, d, d)
  BY SMTT(40), <1>1 DEF Moves
<1>3. Exec(NOP, r, d) = [x \in 0..(d - 1) |-> r[x]]
  BY SMTT(40), <1>1 DEF Exec
<1>4. QED
  BY ZenonT(40), <1>1, <1>2, <1>3

(* BeginIgnore *)
LEMMA BeginIgnoreStacks ==
    ASSUME NEW d \in 0..MaxDepth, NEW r \in [0..(d - 1) -> Val],
           NEW op \in Indexed(MaxDepth), Need(op) <= d, RearrangedLen(op) # 0
    PROVE  /\ Delta(op) = 0 /\ RearrangedLen(op) \in Nat
           /\ Segment(d, RearrangedLen(op), RearrangedLen(op))
           /\ Stacks(Exec(op, r, d), d, r, d, Zeros(d))
           /\ KeepInSync(Exec(op, r, d), d, r, d, RearrangedLen(op), RearrangedLen(op))
<1> DEFINE m == RearrangedLen(op)
<1>1. /\ d \in Nat /\ m \in Nat /\ m \in Int /\ m # 0 /\ m <= d /\ Delta(op) = 0
      /\ \A x \in 0..(d - 1) : x >= m => Src(op, x) = x
  BY SMTT(40), BoundsAssumption, RecognisedOps
<1>2. \A x \in 0..(d + Delta(op) - 1) : Src(op, x) \in 0..(d - 1)
  BY ZenonT(40), <1>1, BoundsAssumption, OpFacts
<1> HIDE DEF m
<1>3. Moves(op, d, d)
  <2>1. d + Delta(op) = d
    BY SMTT(40), <1>1
  <2>2. QED
    BY SMTT(40), <1>1, <1>2, <2>1 DEF Moves
<1>4. /\ Exec(NOP, r, d) = r /\ Moves(NOP, d, d) /\ Delta(NOP) = 0
      /\ \A x \in Nat : Src(NOP, x) = x
  BY ZenonT(40), NopExec
<1>5. Keeps(op, NOP, d, m, m)
  BY SMTT(40), <1>1, <1>4 DEF Keeps, InSegment
<1>6. Segment(d, m, m)
  BY SMTT(40), <1>1 DEF Segment
<1>7. /\ Stacks(Exec(op, r, d), d, Exec(NOP, r, d), d, Zeros(d))
      /\ KeepInSync(Exec(op, r, d), d, Exec(NOP, r, d), d, m, m)
  BY ZenonT(40), <1>1, <1>3, <1>4, <1>5, BeginKeep
<1>8. QED
  BY ZenonT(40), <1>1, <1>4, <1>6, <1>7 DEF m

(* BeginSwapToDrop *)
LEMMA BeginSwapToDropStacks ==
    ASSUME NEW d \in 0..MaxDepth, NEW r \in [0..(d - 1) -> Val],
           NEW op \in Indexed(MaxDepth), Need(op) <= d, isSWAP(op)
    PROVE  /\ Delta(op) = 0 /\ Delta(DROP(1)) = -1 /\ Segment(d, 2, 1)
           /\ Stacks(Exec(op, r, d), d, Exec(DROP(1), r, d), d - 1, Zeros(d))
           /\ CutInSync(Exec(op, r, d), d, Exec(DROP(1), r, d), d - 1, 2, 1)
<1>1. /\ d \in Nat /\ 2 <= d /\ Delta(op) = 0 /\ Src(op, 0) = 1
      /\ \A x \in 2..(d - 1) : Src(op, x) = x
  BY SMTT(40), BoundsAssumption, RecognisedOps
<1>2. \A x \in 0..(d + Delta(op) - 1) : Src(op, x) \in 0..(d - 1)
  BY ZenonT(40), <1>1, BoundsAssumption, OpFacts
<1>3. Moves(op, d, d)
  <2>1. d + Delta(op) = d
    BY SMTT(40), <1>1
  <2>2. QED
    BY SMTT(40), <1>1, <1>2, <2>1 DEF Moves
<1>4. /\ Delta(DROP(1)) = -1 /\ Moves(DROP(1), d, d - 1)
      /\ \A x \in Nat : Src(DROP(1), x) = x + 1
  BY <1>1, DropSrc
<1>5. Cuts(op, DROP(1), d - 1, 2, 1)
  <2>1. SUFFICES ASSUME NEW x \in 0..(d - 1 - 1)
                 PROVE  Src(DROP(1), x) = Src(op, With(x, 2, 1))
    BY ZenonT(40) DEF Cuts
  <2>2. Src(DROP(1), x) = x + 1
    BY SMTT(40), <1>1, <1>4
  <2>3. CASE x = 0
    BY SMTT(40), <1>1, <2>2, <2>3 DEF With
  <2>4. CASE x # 0
    BY SMTT(40), <1>1, <2>2, <2>4 DEF With
  <2>5. QED
    BY ZenonT(40), <2>3, <2>4
<1>6. Segment(d, 2, 1) /\ 2 \in Int /\ 1 \in Nat
  BY SMTT(40), <1>1 DEF Segment
<1>7. QED
  BY ZenonT(40), <1>1, <1>3, <1>4, <1>5, <1>6, BeginCut

(* BeginRoll *)
LEMMA BeginRollStacks ==
    ASSUME NEW d \in Nat, d < MaxDepth, NEW r \in [0..(d - 1) -> Val], NEW i \in Nat, i < d
    PROVE  LET e == IF i >= 1 THEN BLKSWAP(1, i) ELSE NOP IN
           /\ Delta(e) = 0 /\ i + 2 \in Int /\ Segment(d + 1, i + 2, 1)
           /\ Stacks(Exec(PUSH_S(i), r, d), d + 1, Exec(e, r, d), d, Zeros(d + 1))
           /\ CutInSync(Exec(PUSH_S(i), r, d), d + 1, Exec(e, r, d), d, i + 2, 1)
<1> DEFINE e == IF i >= 1 THEN BLKSWAP(1, i) ELSE NOP
<1>1. /\ Moves(PUSH_S(i), d, d + 1)
      /\ Src(PUSH_S(i), 0) = i /\ \A x \in 1..d : Src(PUSH_S(i), x) = x - 1
  BY ZenonT(40), PushSrc
<1>2. /\ Delta(e) = 0
      /\ \A x \in 0..(d - 1) : Src(e, x) = IF x = 0 THEN i ELSE IF x <= i THEN x - 1 ELSE x
  <2>1. CASE i >= 1
    BY SMTT(40), <2>1 DEF Delta, Src, BLKSWAP, StackOp
  <2>2. CASE i = 0
    BY SMTT(40), <2>2 DEF Delta, Src, NOP, StackOp
  <2>3. QED
    BY SMTT(40), <2>1, <2>2
<1> HIDE DEF e
<1>3. Moves(e, d, d)
  BY SMTT(40), <1>2, BoundsAssumption DEF Moves
<1>4. Cuts(PUSH_S(i), e, d, i + 2, 1)
  BY SMTT(40), <1>1, <1>2 DEF Cuts, With
<1>5. i + 2 \in Int /\ Segment(d + 1, i + 2, 1)
  BY DEF Segment
<1> DEFINE d1 == d + 1  m == i + 2
<1>6. d = d1 - 1 /\ 1 \in Nat
  OBVIOUS
<1> HIDE DEF d1, m
<1>7. m \in Int /\ Segment(d1, m, 1) /\ Moves(PUSH_S(i), d, d1) /\ Cuts(PUSH_S(i), e, d, m, 1)
  BY ZenonT(40), <1>1, <1>4, <1>5 DEF d1, m
<1>8. /\ Stacks(Exec(PUSH_S(i), r, d), d1, Exec(e, r, d), d, Zeros(d1))
      /\ CutInSync(Exec(PUSH_S(i), r, d), d1, Exec(e, r, d), d, m, 1)
  BY ZenonT(40), <1>3, <1>6, <1>7, BeginCut
<1>9. QED
  BY ZenonT(40), <1>2, <1>5, <1>8 DEF d1, m, e

(* BeginDropFirst and BeginDropMore, with n = 0 and n > 0. *)
LEMMA BeginDropStacks ==
    ASSUME NEW d \in 0..MaxDepth, NEW r \in [0..(d - 1) -> Val], NEW n \in Nat, n + 1 <= d
    PROVE  /\ Delta(DROP(n)) = -n /\ Delta(DROP(n + 1)) = -(n + 1) /\ Segment(d - n, 1, 1)
           /\ Stacks(Exec(DROP(n), r, d), d - n, Exec(DROP(n + 1), r, d), d - (n + 1), Zeros(d - n))
           /\ CutInSync(Exec(DROP(n), r, d), d - n, Exec(DROP(n + 1), r, d), d - (n + 1), 1, 1)
           /\ Exec(DROP(0), r, d) = r
<1>1. d \in Nat /\ n \in Nat /\ n + 1 \in Nat /\ n <= d
  BY BoundsAssumption
<1>2. /\ Delta(DROP(n)) = -n /\ \A x \in Nat : Src(DROP(n), x) = x + n
      /\ Moves(DROP(n), d, d - n)
  BY ZenonT(40), <1>1, DropSrc
<1> DEFINE k == n + 1
<1>3. k \in Nat /\ k <= d
  BY ZenonT(40), <1>1
<1> HIDE DEF k
<1>4. /\ Delta(DROP(k)) = -k /\ \A x \in Nat : Src(DROP(k), x) = x + k
      /\ Moves(DROP(k), d, d - k)
  BY ZenonT(40), <1>3, DropSrc
<1>5. Cuts(DROP(n), DROP(k), d - k, 1, 1)
  <2>1. SUFFICES ASSUME NEW x \in 0..(d - k - 1)
                 PROVE  Src(DROP(k), x) = Src(DROP(n), With(x, 1, 1))
    BY ZenonT(40) DEF Cuts
  <2>2. With(x, 1, 1) = x + 1 /\ x \in Nat /\ x + 1 \in Nat
    BY SMTT(40) DEF With
  <2>3. Src(DROP(k), x) = x + k /\ Src(DROP(n), x + 1) = x + 1 + n
    BY ZenonT(40), <1>2, <1>4, <2>2
  <2>4. QED
    BY SMTT(40), <2>2, <2>3 DEF k
<1>6. Segment(d - n, 1, 1) /\ d - k = d - n - 1 /\ 1 \in Int /\ 1 \in Nat
  BY <1>1 DEF Segment, k
<1>7. /\ Stacks(Exec(DROP(n), r, d), d - n, Exec(DROP(k), r, d), d - k, Zeros(d - n))
      /\ CutInSync(Exec(DROP(n), r, d), d - n, Exec(DROP(k), r, d), d - k, 1, 1)
  BY ZenonT(40), <1>1, <1>2, <1>4, <1>5, <1>6, BeginCut
<1>8. Exec(DROP(0), r, d) = r
  <2>1. Exec(DROP(0), r, d) = [x \in 0..(d - 1) |-> r[x]]
    BY SMTT(40), <1>1 DEF Exec, Delta, Src, DROP, StackOp
  <2>2. QED
    BY ZenonT(40), <2>1
<1>9. QED
  BY ZenonT(40), <1>2, <1>4, <1>6, <1>7, <1>8 DEF k

(* BeginCutUnder: the i slots under the copy of Si go. *)
LEMMA BeginCutUnderStacks ==
    ASSUME NEW d \in Nat, d < MaxDepth, NEW r \in [0..(d - 1) -> Val], NEW i \in Nat,
           0 < i, i < d
    PROVE  LET r1 == Exec(PUSH_S(i), r, d)
               s1 == Exec(PUSH_S(0), Exec(DROP(i), r, d), d - i)
           IN  /\ i + 1 \in Int /\ Segment(d + 1, i + 1, i)
               /\ Stacks(r1, d + 1, s1, d - i + 1, Zeros(d + 1))
               /\ CutInSync(r1, d + 1, s1, d - i + 1, i + 1, i)
<1> DEFINE n == d - i
           f == Exec(DROP(i), r, d)
           r1 == Exec(PUSH_S(i), r, d)
           s1 == Exec(PUSH_S(0), f, n)
<1>1. n \in Nat /\ n >= 1 /\ n < MaxDepth /\ n + i = d
  BY SMTT(40), BoundsAssumption
<1> HIDE DEF n, f, r1, s1
<1>3. f \in [0..(n - 1) -> Val] /\ \A x \in 0..(n - 1) : f[x] = r[x + i]
  BY SMTT(40) DEF n, f, Exec, Delta, Src, DROP, StackOp
<1>4. /\ s1 \in [0..n -> Val] /\ s1[0] = f[0]
      /\ \A x \in 1..n : s1[x] = f[x - 1]
  BY SMTT(40), <1>1, <1>3 DEF s1, Exec, Delta, Src, PUSH_S, StackOp
<1>5. /\ r1 \in [0..d -> Val] /\ r1[0] = r[i]
      /\ \A x \in 1..d : r1[x] = r[x - 1]
  BY SMTT(40) DEF r1, Exec, Delta, Src, PUSH_S, StackOp
<1>6. \A x \in 0..n : s1[x] = r1[With(x, i + 1, i)]
  <2>1. TAKE x \in 0..n
  <2>2. CASE x = 0
    BY SMTT(40), <1>1, <1>3, <1>4, <1>5, <2>2 DEF With
  <2>3. CASE x # 0
    <3>1. With(x, i + 1, i) = x + i /\ x \in 1..n /\ x + i \in 1..d
      BY SMTT(40), <1>1, <2>3 DEF With
    <3>2. s1[x] = f[x - 1] /\ f[x - 1] = r[x - 1 + i]
      BY SMTT(40), <1>1, <1>3, <1>4, <3>1
    <3>3. r1[x + i] = r[x + i - 1] /\ x - 1 + i = x + i - 1
      BY SMTT(40), <1>5, <3>1
    <3>4. QED
      BY ZenonT(40), <3>1, <3>2, <3>3
  <2>4. QED
    BY ZenonT(40), <2>2, <2>3
<1>7. CutInSync(r1, d + 1, s1, n + 1, i + 1, i)
  BY SMTT(40), <1>1, <1>6 DEF CutInSync
<1>8. Stacks(r1, d + 1, s1, n + 1, Zeros(d + 1))
  BY SMTT(40), <1>1, <1>4, <1>5, BoundsAssumption DEF Stacks, IsStack, IsLabelling, Zeros
<1>9. i + 1 \in Int /\ Segment(d + 1, i + 1, i)
  BY DEF Segment
<1>10. QED
  BY ZenonT(40), <1>7, <1>8, <1>9 DEF n, f, r1, s1
=============================================================================
