------------------------------ MODULE Peephole ------------------------------
(***************************************************************************)
(* The way of a function from the code generator to the assembler text:    *)
(* DeleterAfterRet and LocSquasher (generateContractCode), then            *)
(* optimizeCode and Printer.  PeepholeOptimizer visits the blocks of the   *)
(* function, inner ones first; in each it runs three loops, and each loop  *)
(* goes through the instructions and rewrites where a rule applies.        *)
(* StackOptimizer, which optimizeCode runs before the first two visits,    *)
(* has a model of its own.                                                 *)
(***************************************************************************)
EXTENDS PeepholeRules, CodePasses, TvmRun

CONSTANT Programs  \* [code, in]: a function and the stacks it may start with

VARIABLES prog,   \* the function as generated
          code,   \* the function now
          pass,   \* the number of the pass
          todo,   \* the blocks the current visit has still to do
          loop,   \* what is done in the first of them
          idx1,   \* the next instruction
          didSomething
vars == <<prog, code, pass, todo, loop, idx1, didSomething>>

-----------------------------------------------------------------------------
(* Blocks are named by the way to them from the function's own.            *)

HasT(n) == n.c \in {"If", "Sub", "While", "Log", "Opaque", "RBC"}
HasF(n) == n.c \in {"If", "While"} /\ n.fy # ""

\* The order in which a visitor leaves the blocks
RECURSIVE endVisits(_, _)
endVisits(block, path) ==
  FlattenSeq([i \in DOMAIN block |->
    (IF HasT(block[i]) THEN endVisits(block[i].t, Append(path, <<i, "t">>)) ELSE <<>>)
      \o (IF HasF(block[i]) THEN endVisits(block[i].f, Append(path, <<i, "f">>)) ELSE <<>>)])
    \o <<path>>

RECURSIVE BlockAt(_, _)
BlockAt(block, path) ==
  IF path = <<>> THEN block
  ELSE LET n == block[path[1][1]] IN BlockAt(IF path[1][2] = "t" THEN n.t ELSE n.f, Tail(path))
RECURSIVE WithBlock(_, _, _)
WithBlock(block, path, new) ==
  IF path = <<>> THEN new
  ELSE LET i == path[1][1]
       IN  IF path[1][2] = "t" THEN [block EXCEPT ![i].t = WithBlock(@, Tail(path), new)]
           ELSE [block EXCEPT ![i].f = WithBlock(@, Tail(path), new)]
RECURSIVE TypeAt(_, _)
TypeAt(block, path) ==
  IF path = <<>> THEN "None"
  ELSE LET n == block[path[1][1]]
           ty == IF path[1][2] = "t" THEN n.ty ELSE n.fy
       IN  IF Len(path) = 1 THEN ty ELSE TypeAt(IF path[1][2] = "t" THEN n.t ELSE n.f, Tail(path))
RECURSIVE WithType(_, _, _)
WithType(block, path, ty) ==
  LET i == path[1][1]
      yes == path[1][2] = "t"
  IN  IF Len(path) = 1
      THEN IF yes THEN [block EXCEPT ![i].ty = ty] ELSE [block EXCEPT ![i].fy = ty]
      ELSE IF yes THEN [block EXCEPT ![i].t = WithType(@, Tail(path), ty)]
      ELSE [block EXCEPT ![i].f = WithType(@, Tail(path), ty)]

-----------------------------------------------------------------------------
(* The loop of PrivatePeepholeOptimizer::optimize.                         *)

\* The index of the first instruction at or after i, past the end when there is none
nextCommandLine(block, i) ==
  LET left == {j \in i .. Len(block) : block[j].c # "Loc"} IN IF left = {} THEN Len(block) + 1 ELSE Min(left)

keepFirstLine(block, i, res) ==
  LET live == {j \in i .. Len(block) : block[j].c # "Loc"}
      lastInx == CHOOSE j \in live : Cardinality({k \in live : k <= j}) = res[1]
      locs == {j \in i .. lastInx : block[j].c = "Loc"}
  IN  SubSeq(block, 1, i - 1) \o res[2] \o (IF locs = {} THEN <<>> ELSE <<block[Min(locs)]>>)
        \o SubSeq(block, lastInx + 1, Len(block))
\* The lines of the instructions a rule took are replaced by its own, and their last .loc follows.
updateLinesAndIndex(block, i, res) ==
  LET live == {j \in i .. Len(block) : block[j].c # "Loc"}
      lastInx == CHOOSE j \in live : Cardinality({k \in live : k <= j}) = res[1]
      locs == {j \in i .. lastInx : block[j].c = "Loc"}
  IN  SubSeq(block, 1, i - 1) \o res[2] \o (IF locs = {} THEN <<>> ELSE <<block[Max(locs)]>>)
        \o SubSeq(block, lastInx + 1, Len(block))

\* Ten instructions back
stepBack(block, i) ==
  LET from == IF i > Len(block) THEN Max({Len(block), 1}) ELSE i
      Qty(j) == Cardinality({k \in j .. (from - 1) : block[k].c # "Loc"})
  IN  nextCommandLine(block, Min({j \in 1 .. from : Qty(j) <= 10}))

\* The four visits: 5 and 6 with (false, false), 7 with (true, false), 8 with (true, true)
PeepholePasses == 5 .. 8
withUnpackOpaque == pass \in {7, 8}
inSlicePass == pass = 8
Rule(raw) == CASE loop = "unsquash" -> unsquash(raw, withUnpackOpaque)
               [] loop = "rules" -> optimizeAt(raw, withUnpackOpaque, inSlicePass)
               [] OTHER -> squashPush(raw)
Here == BlockAt(code, todo[1])
\* The first instruction from i on that a rule rewrites
RECURSIVE Applicable(_, _)
Applicable(block, i) ==
  IF i > Len(block) THEN 0
  ELSE IF Rule(SubSeq(block, i, Len(block))) # Nothing THEN i
  ELSE Applicable(block, nextCommandLine(block, i + 1))

-----------------------------------------------------------------------------
Init ==
  /\ prog \in Programs
  /\ code = prog.code
  /\ pass = 1
  /\ todo = <<>> /\ loop = "" /\ idx1 = 1 /\ didSomething = FALSE

\* A pass that rewrites the whole function at once
Whole(n, new) ==
  /\ pass = n
  /\ code' = new
  /\ pass' = n + 1
  /\ UNCHANGED <<prog, todo, loop, idx1, didSomething>>
DeleteAfterRet == Whole(1, DeleterAfterRet(code))
SquashLocs == Whole(2, LocSquasher(code)) \/ Whole(9, LocSquasher(code))
DeleteCallX == Whole(3, DeleterCallX(code))
ExpandLogCircuits == Whole(4, LogCircuitExpander(code))
OptimizeSize == Whole(10, SizeOptimizer(code))
WriteAssembler == printable(code) /\ Whole(11, Printer(code))
\* An assertion of visit(Stack) fails and the compiler stops without a text.
AssertionFails ==
  /\ pass = 11 /\ ~printable(code)
  /\ pass' = 13
  /\ UNCHANGED <<prog, code, todo, loop, idx1, didSomething>>

StartVisit ==
  /\ pass \in PeepholePasses /\ todo = <<>>
  /\ todo' = endVisits(code, <<>>)
  /\ loop' = "block"
  /\ UNCHANGED <<prog, code, pass, idx1, didSomething>>

\* A block that only calls another one becomes that one.
StartBlock ==
  /\ pass \in PeepholePasses /\ todo # <<>> /\ loop = "block"
  /\ LET only == Live(Here)
         calls == TypeAt(code, todo[1]) = "PUSHCONT" /\ Len(only) = 1 /\ only[1].c = "Sub"
         new == IF calls THEN WithType(WithBlock(code, todo[1], only[1].t), todo[1], only[1].ty) ELSE code
     IN  /\ code' = new
         /\ idx1' = nextCommandLine(BlockAt(new, todo[1]), 1)
  /\ loop' = "unsquash" /\ didSomething' = FALSE
  /\ UNCHANGED <<prog, pass, todo>>

RewriteTo(new, i) == code' = WithBlock(code, todo[1], new) /\ idx1' = stepBack(new, i)
RewriteAt(i) == i # 0 /\ RewriteTo(updateLinesAndIndex(Here, i, Rule(SubSeq(Here, i, Len(Here)))), i)
Rewrite ==
  /\ todo # <<>> /\ loop # "block"
  /\ RewriteAt(Applicable(Here, idx1))
  /\ didSomething' = TRUE
  /\ UNCHANGED <<prog, pass, todo, loop>>

EndLoop ==
  /\ todo # <<>> /\ loop # "block"
  /\ Applicable(Here, idx1) = 0
  /\ idx1' = nextCommandLine(Here, 1)
  /\ didSomething' = FALSE
  /\ CASE loop = "unsquash" -> loop' = "rules" /\ UNCHANGED <<todo, pass>>
       [] loop = "rules" -> loop' = (IF didSomething THEN "rules" ELSE "squash") /\ UNCHANGED <<todo, pass>>
       [] OTHER -> /\ todo' = Tail(todo) /\ loop' = "block"
                   /\ pass' = IF Len(todo) = 1 THEN pass + 1 ELSE pass
  /\ UNCHANGED <<prog, code>>

Stopped == pass \in {12, 13} /\ UNCHANGED vars

Next == \/ DeleteAfterRet \/ SquashLocs \/ DeleteCallX \/ ExpandLogCircuits \/ OptimizeSize \/ WriteAssembler
        \/ AssertionFails \/ StartVisit \/ StartBlock \/ Rewrite \/ EndLoop
        \/ Stopped

\* The compiler goes on until it stops.  A step of Next is possible in every state and changes it
\* until then, so this is weak fairness of Next.
Runs == []<>(pass \in {12, 13}) \/ []<><<TRUE>>_vars
Spec == Init /\ [][Next]_vars /\ Runs

-----------------------------------------------------------------------------
(* Properties.                                                             *)

\* Exceptions of the arithmetic and of the stores of numbers: a rewritten function may lose them.
Unchecked == {Overflow, RangeCheck}
EmptyOptional == 63
Was(stk) == Outcome(prog.code, stk)
Is(stk) == Outcome(code, stk)

\* The functions that the code does not keep (README.md).  MUL; RSHIFT becomes MULRSHIFT also when
\* RSHIFT takes its operand from the stack; visit(Stack) writes BLKDROP2 i, j for 3 <= i <= 15 < j with
\* one operand too many; and optimizeSlice gives STUR the length of any constant that begins with a
\* zero, also one that no STUR has room for.
ShiftsByProduct(c) == \E i \in 2 .. Len(c) : is(c[i - 1], {"MUL"}) /\ full(c[i]) = <<"RSHIFT", NoArg>>
DropsUnderMany(c) == \E i \in DOMAIN c : c[i].st.opcode = "BLKDROP2" /\ c[i].st.i \in 3 .. 15 /\ c[i].st.j > 15
StoresTooLong(c) == \E i \in DOMAIN c : c[i].op = "STUR" /\ c[i].a > IntBits
NotKept == ShiftsByProduct(prog.code) \/ DropsUnderMany(prog.code) \/ StoresTooLong(code)

\* optimizeCode, Printer: whatever was rewritten so far, and in the assembler text too, a function
\* that ends without an exception ends the same way, with the same stack and global variables.  The
\* exceptions are those of NotKept.
SameEnd(was, now) == was.o \notin {"throw", "loop"} => now = was
MeaningKept == NotKept \/ \A stk \in prog.in : SameEnd(Was(stk), Is(stk))

\* optimizeCode, Printer: a function that throws still throws the same code at every moment, except for
\* an integer overflow or a number that does not fit its field; the exception 63 of get() for an empty
\* optional may become the type check error of UNTUPLE (README.md).
SameException(was, now) ==
  was.o = "throw" /\ was.e \notin Unchecked =>
    now.o = "throw" /\ now.e \in {was.e} \cup (IF was.e = EmptyOptional THEN {TypeCheck} ELSE {})
ExceptionsKept == NotKept \/ \A stk \in prog.in : SameException(Was(stk), Is(stk))

\* PeepholeOptimizer::endVisit, Printer: the loops, which run for as long as a rule applies and step
\* back after each rewriting, end on every function, and its text is written.  The exception: for more
\* than 15 equal PUSHes, other than of the top, squashPush makes a BLKPUSH that fails the assertion of
\* visit(Stack) (README.md).
PushesMany(c) == \E i \in DOMAIN c : /\ i + 15 \in DOMAIN c /\ isPUSH(c[i]) > 0
                                    /\ \A j \in i .. i + 15 : isPUSH(c[j]) = isPUSH(c[i])
Finishes == <>(pass = 12 \/ (pass = 13 /\ PushesMany(prog.code)))

\* updateLinesAndIndex, LocSquasher: in a function without branches the .loc lines that are left are
\* in their order, and the last one is the last one of the function.
RECURSIVE Lines(_)
Lines(block) == FlattenSeq([i \in DOMAIN block |->
  IF block[i].c = "Loc" THEN <<block[i].a>> ELSE IF HasT(block[i]) THEN Lines(block[i].t) ELSE Lines(block[i].f)])
LinesKept ==
  LET was == Lines(prog.code)
      now == Lines(code)
  IN  prog.straight /\ was # <<>> =>
        /\ now # <<>> /\ Last(now) = Last(was)
        /\ \A i, j \in DOMAIN now : i < j => now[i] <= now[j]
=============================================================================
