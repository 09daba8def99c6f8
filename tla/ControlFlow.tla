---------------------------- MODULE ControlFlow ----------------------------
(***************************************************************************)
(* How TVMFunctionCompiler.cpp lowers structured control flow to TVM       *)
(* continuations.  The TVM has no jump over several continuations: RET     *)
(* leaves the innermost continuation that was called, RETALT the innermost *)
(* loop that was started by a ...BRK instruction.  A return, break or      *)
(* continue that must go further leaves a FLAG on the stack, and the code  *)
(* after each if and each loop looks at the flag and goes on.              *)
(*                                                                         *)
(* A behaviour is an execution of one function.  The statements are chosen *)
(* as they are executed, so it is an execution of any function; what the   *)
(* code generator has to know in advance about a statement (CFAnalyzer)    *)
(* is chosen when the statement starts and restricts what comes inside.    *)
(* Beside the TVM's stack the state has the code generator's stack size at *)
(* the same point of the code, so the two can be compared.                 *)
(*                                                                         *)
(*   stack   the TVM's stack above the function's arguments, top last      *)
(*   size    m_pusher.stackSize() for the code at this point               *)
(*   frames  the open statements, innermost last; the entries that are     *)
(*           not blocks are m_controlFlowInfo                              *)
(*   pc      what is executed next: statements ("body"), the rest of a     *)
(*           loop's iteration ("next"), its condition ("head"), the code   *)
(*           after an if ("afterIf") or a loop ("afterLoop"); "done" after *)
(*           the function, "lost" after a jump to a foreign continuation   *)
(*   goal    history: where the source program wants the jump to go that   *)
(*           is being executed                                             *)
(***************************************************************************)
EXTENDS Statements

CONSTANTS
    ArgQty,       \* parameters of the function
    RetQty,       \* return parameters of the function
    Loops,        \* the kinds of loops in the function
    LoopVarQtys,  \* numbers of variables that a for statement declares
    ContinueUnderFlag,  \* may a loop with a continue and without a return
                        \* stand in a statement that has a flag?
    MaxFrames,    \* bound on the nesting of statements
    MaxSize       \* bound on the stack

ASSUME ControlFlowAssumption ==
    /\ ArgQty \in Nat /\ RetQty \in Nat
    /\ Loops \subseteq LoopKind
    /\ LoopVarQtys \subseteq Nat
    /\ ContinueUnderFlag \in BOOLEAN
    /\ MaxFrames \in Nat /\ MaxSize \in Nat

VARIABLES stack, size, frames, pc, goal

vars == <<stack, size, frames, pc, goal>>

-----------------------------------------------------------------------------
(* Values.  Only the flags are told apart from each other: FALSE of        *)
(* DeclRetFlag, CONTINUE_FLAG and RETURN_FLAG of TVMConstants.hpp.         *)

Flag == {"noFlag", "continueFlag", "returnFlag"}

Copies(v, n) == [i \in 1..n |-> v]

(* StackPusher::drop and dropUnder: drop n values, the second under the    *)
(* top left ones.                                                          *)
Drop(s, n) == SubSeq(s, 1, Len(s) - n)
DropUnder(s, n, left) ==
    SubSeq(s, 1, Len(s) - n - left) \o SubSeq(s, Len(s) - left + 1, Len(s))

(***************************************************************************)
(* An open statement.                                                      *)
(*   can    the exits inside it: canReturn(), canBreak(), canContinue()    *)
(*   flag   ControlFlowInfo::doAnalyzeFlag                                 *)
(*   jmp    the branch is entered by IFJMP, it does not come back          *)
(*   size   ControlFlowInfo::stackSize                                     *)
(*   saved  the stack size before the statement                            *)
(*   vars   the variables a loop declares                                  *)
(***************************************************************************)
Frame(kind, can, flag, jmp, sz, saved, vs) ==
    [kind |-> kind, can |-> can, flag |-> flag, jmp |-> jmp, size |-> sz,
     saved |-> saved, vars |-> vs]

Inner == frames[Len(frames)]

LastOf(S) == CHOOSE i \in S : \A j \in S : j <= i
lastLoop == LastOf({i \in 1..Len(frames) : IsLoop(frames[i])})

(* lastAnalyzeFlag().has_value() *)
lastAnalyzeFlag(fs) == \E i \in 1..Len(fs) : fs[i].flag

lastAnalyzerBeforeLoop ==
    \E i \in (lastLoop + 1)..Len(frames) : frames[i].flag

-----------------------------------------------------------------------------
(* Jumps of the TVM (external), and where the program wants them to go. *)

NoGoal == [to |-> "none", at |-> 0]

(* The goal is reached: the function has returned, the loop at the frame   *)
(* goes on with its next iteration, or the code after it is executed.      *)
Reached(g, p, fs) ==
    CASE g.to = "return"   -> p = "done"
      [] g.to = "break"    -> p = "body" /\ Len(fs) = g.at - 1
      [] g.to = "continue" -> /\ Len(fs) = g.at
                              /\ p = IF fs[g.at].kind \in {"while", "repeat"}
                                     THEN "head" ELSE "next"
      [] OTHER             -> TRUE

(* Control is at p with the open statements fs, stack s and code size sz. *)
Goto(p, fs, s, sz, g) ==
    /\ pc' = p
    /\ frames' = fs
    /\ stack' = s
    /\ size' = sz
    /\ goal' = IF Reached(g, p, fs) THEN NoGoal ELSE g

Called(f) == f.kind = "function" \/ IsLoop(f) \/ (f.kind = "if" /\ ~f.jmp)

(* RET: to the end of the innermost called continuation. *)
RET(fs, s, g) ==
    LET k == LastOf({i \in 1..Len(fs) : Called(fs[i])})
        f == fs[k]
        p == CASE f.kind = "function" -> "done"
               [] f.kind = "if"       -> "afterIf"
               [] IsLoop(f) /\ Wrapped(f) -> "next"
               [] f.kind = "until" /\ ~Wrapped(f) -> "lost"
               [] OTHER               -> "head"
    IN Goto(p, SubSeq(fs, 1, k), s, f.size, g)

(* RETALT: behind the innermost loop that has set c1. *)
RETALT(fs, s, g) ==
    LET K == {i \in 1..Len(fs) : IsLoop(fs[i]) /\ Brk(fs[i])}
        k == LastOf(K)
    IN IF K = {} THEN Goto("lost", fs, s, size, g)
       ELSE Goto("afterLoop", SubSeq(fs, 1, k), s, fs[k].size, g)

-----------------------------------------------------------------------------
(* Statements. *)

Allowed(exit) ==
    /\ pc = "body"
    /\ exit \in Inner.can

(* visit(VariableDeclarationStatement) of one variable. *)
VariableDeclarationStatement ==
    /\ pc = "body"
    /\ size < MaxSize
    /\ stack' = Append(stack, "variable")
    /\ size' = size + 1
    /\ UNCHANGED <<frames, pc, goal>>

(* visit(Block): acceptBody. *)
Block ==
    /\ pc = "body"
    /\ Len(frames) < MaxFrames
    /\ frames' = Append(frames, Frame("block", Inner.can, FALSE, FALSE,
                                      size, size, 0))
    /\ UNCHANGED <<stack, size, pc, goal>>

EndBlock ==
    /\ pc = "body"
    /\ Inner.kind = "block"
    /\ Goto("body", Drop(frames, 1), Drop(stack, size - Inner.size),
            Inner.size, goal)

(* visit(IfStatement), up to the branch that is taken: with no else the    *)
(* condition may be false.                                                 *)
IfStatement(can, jmp, enter) ==
    /\ pc = "body"
    /\ Len(frames) < MaxFrames /\ size < MaxSize
    /\ can \subseteq Inner.can
    /\ jmp => can # {}
    /\ LET flag == IfNeedsFlag(can, jmp, hasLoop(frames))
           sz == size + OneIf(flag)
       IN /\ frames' = Append(frames, Frame("if", can, flag, jmp, sz, size, 0))
          /\ stack' = stack \o Copies("noFlag", OneIf(flag))
          /\ size' = sz
          /\ pc' = IF enter THEN "body" ELSE "afterIf"
          /\ UNCHANGED goal

(* endContinuation2: the branch ends.  A branch of IFJMP never gets here.  *)
EndIf ==
    /\ pc = "body"
    /\ Inner.kind = "if" /\ ~Inner.jmp
    /\ Goto("afterIf", frames, Drop(stack, size - Inner.size),
            Inner.size, goal)

(* The end of visit(IfStatement): IFRET takes the flag; DUP keeps a copy   *)
(* for the next statement that looks at it.                                *)
AfterIf ==
    /\ pc = "afterIf"
    /\ LET outer == Drop(frames, 1)
           top == stack[Len(stack)]
           left == Drop(stack, 1)
       IN IF ~Inner.flag THEN Goto("body", outer, stack, size, goal)
          ELSE IF top = "noFlag" THEN Goto("body", outer, left, size - 1, goal)
          ELSE RET(outer, IF lastAnalyzeFlag(outer) THEN stack ELSE left, goal)

(* visit(WhileStatement), doWhile, visit(ForStatement) and                 *)
(* visit(ForEachStatement), up to the loop instruction.                    *)
LoopStatement(kind, can, n) ==
    /\ pc = "body"
    /\ Len(frames) < MaxFrames /\ size + n < MaxSize
    /\ "return" \in can => "return" \in Inner.can
    /\ "continue" \in can /\ lastAnalyzeFlag(frames) =>
         "return" \in can \/ ContinueUnderFlag
    /\ LET flag == LoopNeedsFlag(can)
           sz == size + n + OneIf(flag)
       IN /\ frames' = Append(frames, Frame(kind, can, flag, FALSE, sz, size, n))
          /\ stack' = stack \o Copies("variable", n)
                            \o Copies("noFlag", OneIf(flag))
          /\ size' = sz
          /\ pc' = IF kind = "until" THEN "body" ELSE "head"
          /\ UNCHANGED goal

(* The condition of the loop, or the counter of REPEAT. *)
LoopHead(enter) ==
    /\ pc = "head"
    /\ pc' = IF enter THEN "body" ELSE "afterLoop"
    /\ UNCHANGED <<stack, size, frames, goal>>

(* The end of the body: its variables are dropped. *)
EndBody ==
    /\ pc = "body"
    /\ IsLoop(Inner)
    /\ Goto("next", frames, Drop(stack, size - Inner.size), Inner.size, goal)

(* loopExpression of a for, the condition of a do-while. *)
LoopNext ==
    /\ pc = "next"
    /\ pc' = "head"
    /\ UNCHANGED <<stack, size, frames, goal>>

(* Mutant: the flag is counted with the variables. *)
LoopVarQtyAndFlag(f) == f.vars + 1

(* The number of variables afterLoopCheck is told to drop: visit(For-      *)
(* Statement) passes the Boolean haveDeclLoopVar.                          *)
LoopVarQty(f) == IF f.kind = "for" THEN OneIf(f.vars # 0) ELSE f.vars

(* Mutant: the code that passes a return on is still inside the loop. *)
AfterLoopInside ==
    /\ pc = "afterLoop"
    /\ LET outer == Drop(frames, 1)
           top == stack[Len(stack)]
           n == LoopVarQty(Inner)
       IN IF Inner.flag /\ top = "returnFlag"
          THEN RETALT(frames, stack, goal)
          ELSE Goto("body", outer, Drop(stack, n + OneIf(Inner.flag)),
                    size - n - OneIf(Inner.flag), goal)

(* afterLoopCheck: with break or continue in the loop, the flag may be     *)
(* CONTINUE_FLAG and is compared with RETURN_FLAG.                         *)
AfterLoop ==
    /\ pc = "afterLoop"
    /\ LET outer == Drop(frames, 1)
           top == stack[Len(stack)]
           analyze == lastAnalyzeFlag(outer)
           leave == IF Inner.can \cap {"break", "continue"} # {}
                    THEN top = "returnFlag" ELSE top # "noFlag"
           left == IF analyze THEN stack ELSE Drop(stack, 1)
           n == LoopVarQty(Inner)
       IN IF Inner.flag /\ leave
          THEN IF hasLoop(outer) THEN RETALT(outer, left, goal) ELSE RET(outer, left, goal)
          ELSE Goto("body", outer, Drop(stack, n + OneIf(Inner.flag)),
                    size - n - OneIf(Inner.flag), goal)

(* Mutants: a flag is pushed in loops only; the arguments are left on the  *)
(* stack.                                                                  *)
ReturnFlagInLoops ==
    /\ Allowed("return")
    /\ LET results == stack \o Copies("result", RetQty)
           s == DropUnder(results, size, RetQty)
                  \o Copies("returnFlag", OneIf(hasLoop(frames)))
           g == [to |-> "return", at |-> 1]
       IN IF hasLoop(frames) THEN RETALT(frames, s, g) ELSE RET(frames, s, g)

ReturnLeavesArguments ==
    /\ Allowed("return")
    /\ LET results == stack \o Copies("result", RetQty)
           s == DropUnder(results, size - ArgQty, RetQty)
                  \o Copies("returnFlag", OneIf(lastAnalyzeFlag(frames)))
           g == [to |-> "return", at |-> 1]
       IN IF hasLoop(frames) THEN RETALT(frames, s, g) ELSE RET(frames, s, g)

(* visit(Return): the values are computed, everything under them is        *)
(* dropped, and a flag is pushed if somebody will look at it.              *)
Return ==
    /\ Allowed("return")
    /\ LET results == stack \o Copies("result", RetQty)
           s == DropUnder(results, size, RetQty)
                  \o Copies("returnFlag", OneIf(lastAnalyzeFlag(frames)))
           g == [to |-> "return", at |-> 1]
       IN IF hasLoop(frames) THEN RETALT(frames, s, g) ELSE RET(frames, s, g)

(* visit(Break) *)
Break ==
    /\ Allowed("break")
    /\ RETALT(frames, Drop(stack, size - frames[lastLoop].size),
              [to |-> "break", at |-> lastLoop])

(* Mutant: the loop's flag stays under CONTINUE_FLAG. *)
ContinueKeepsFlag ==
    /\ Allowed("continue")
    /\ LET s == Drop(stack, size - frames[lastLoop].size)
           g == [to |-> "continue", at |-> lastLoop]
       IN RET(frames, IF lastAnalyzerBeforeLoop
                      THEN Append(s, "continueFlag") ELSE s, g)

(* visit(Continue): CONTINUE_FLAG takes the place of the loop's flag. *)
Continue ==
    /\ Allowed("continue")
    /\ LET f == frames[lastLoop]
           s == Drop(stack, size - f.size)
           g == [to |-> "continue", at |-> lastLoop]
       IN RET(frames,
              IF lastAnalyzerBeforeLoop
              THEN Append(Drop(s, OneIf(f.flag)), "continueFlag") ELSE s, g)

-----------------------------------------------------------------------------
(* The function. *)

(* The location of the returns (LocationReturn) tells whether the values   *)
(* to return are allocated first (withPrelocatedRetValues), named or not.  *)
Init ==
    \E where \in {"noReturn", "Last", "Anywhere"}, named \in BOOLEAN :
      /\ where # "Last" => named
      /\ LET n == IF named THEN RetQty ELSE 0
             can == IF where = "Anywhere" THEN {"return"} ELSE {}
         IN /\ frames = <<Frame("function", can, FALSE, where = "Last",
                                ArgQty + n, 0, n)>>
            /\ stack = Copies("variable", ArgQty) \o Copies("named", n)
            /\ size = ArgQty + n
      /\ pc = "body"
      /\ goal = NoGoal

(* The end of acceptBody for a function's block. *)
EndFunction ==
    /\ pc = "body"
    /\ Len(frames) = 1 /\ ~Inner.jmp
    /\ Goto("done", frames,
            DropUnder(Drop(stack, size - ArgQty - Inner.vars),
                      ArgQty, Inner.vars),
            Inner.vars, goal)

(* LocationReturn::Last: pollLastRetOpcode has removed the RET. *)
LastReturn ==
    /\ pc = "body"
    /\ Len(frames) = 1 /\ Inner.jmp
    /\ Goto("done", frames,
            DropUnder(stack \o Copies("result", RetQty), size, RetQty),
            RetQty, goal)

(* The caller goes on. *)
Finished == pc = "done" /\ UNCHANGED vars

Statement ==
    \/ VariableDeclarationStatement
    \/ Block
    \/ \E can \in SUBSET Exit, jmp, enter \in BOOLEAN :
          IfStatement(can, jmp, enter)
    \/ \E kind \in Loops, can \in SUBSET Exit :
          \E n \in VarQtys(kind, LoopVarQtys) : LoopStatement(kind, can, n)
    \/ Return \/ Break \/ Continue

Control ==
    \/ EndBlock \/ EndIf \/ AfterIf
    \/ \E enter \in BOOLEAN : LoopHead(enter)
    \/ EndBody \/ LoopNext \/ AfterLoop
    \/ EndFunction \/ LastReturn

Next == Statement \/ Control \/ Finished

(* The TVM goes on with the code after an if or a loop. *)
Fairness == WF_vars(AfterIf) /\ WF_vars(AfterLoop)

Spec == Init /\ [][Next]_vars /\ Fairness

-----------------------------------------------------------------------------
(* The code generator's stack size is the depth of the TVM's stack         *)
(* wherever statements, conditions and loop expressions are executed: the  *)
(* indices of all variables in the code are right, whatever jump of        *)
(* visit(Return), visit(Break) or visit(Continue) led here.                *)
SizeIsDepth ==
    pc \in {"body", "next", "head"} => Len(stack) = size

(* visit(Return), visit(Break) and visit(Continue) reach the place the     *)
(* source program means: no statement, condition or loop expression is     *)
(* executed on the way, and no RET or RETALT leaves to a continuation that *)
(* belongs to the caller.                                                  *)
JumpsArrive ==
    /\ pc \in {"body", "next", "head", "done"} => goal = NoGoal
    /\ pc # "lost"

(* A function leaves its return values on the stack and nothing else,      *)
(* those of visit(Return) or the allocated ones (acceptBody).              *)
LeavesOnlyResults ==
    pc = "done" => stack \in {Copies(v, RetQty) : v \in {"result", "named"}}

(* The IFRET and IFRETALT after an if and a loop look at a flag, never at  *)
(* a variable or a return value.                                           *)
OnlyFlagsTested ==
    pc \in {"afterIf", "afterLoop"} /\ Inner.flag =>
      Len(stack) > 0 /\ stack[Len(stack)] \in Flag

(* "all continuation are run by JMPX" (visit(Return)): a return that       *)
(* pushes no flag is inside branches of IFJMP only.                        *)
NoFlagOnlyJumps ==
    pc = "body" /\ "return" \in Inner.can /\ ~lastAnalyzeFlag(frames) =>
      \A i \in 2..Len(frames) :
         frames[i].kind = "block" \/ (frames[i].kind = "if" /\ frames[i].jmp)

(* ensureSize(saveStackSize) at the end of visit(IfStatement),             *)
(* visit(WhileStatement), visit(ForStatement) and visit(ForEachStatement). *)
RestoresSize ==
    [][(pc \in {"afterIf", "afterLoop"} /\ pc' = "body")
          => (size' = Inner.saved)]_vars

(* A return, break or continue does not get stuck between continuations.   *)
JumpCompletes == goal # NoGoal ~> goal = NoGoal
=============================================================================
