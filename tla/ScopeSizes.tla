----------------------------- MODULE ScopeSizes -----------------------------
(***************************************************************************)
(* The stack sizes that two passes keep for the same code: the code        *)
(* generator (TVMFunctionCompiler.cpp, m_pusher.stackSize()) while it      *)
(* emits the statements of a function, and StackOptimizer.cpp while it     *)
(* walks over the instructions, after DeleterAfterRet (TvmAstVisitor.cpp)  *)
(* has deleted the instructions of each code block that follow one that    *)
(* never goes on.  StackOptimizer asserts at the end of each loop that its *)
(* size is what it was before.                                             *)
(*                                                                         *)
(* A behaviour walks over one function in the order of its text; the       *)
(* statements are chosen as the walk goes on.  What CFAnalyzer finds out   *)
(* in advance about a statement is chosen at its start and must turn out   *)
(* to be right at its end.                                                 *)
(*                                                                         *)
(*   size    m_pusher.stackSize()                                          *)
(*   sizes   StackOptimizer::m_stackSize, one entry per open scope         *)
(*   live    DeleterAfterRet keeps the instruction at this point           *)
(*   frames  the open statements, innermost last                           *)
(*   failed  an assertion of StackOptimizer has failed                     *)
(***************************************************************************)
EXTENDS Statements

CONSTANTS
    ArgQty,     \* parameters of the function
    RetQty,     \* return parameters of the function
    EndOfCode,  \* what makes the code after it dead: "exit" (a return, break
                \* or continue), "throw", "ifElse" (IFELSE with jump)
    EndInLoop,  \* the ones of these that also stand in a loop
    Loops,      \* the kinds of loops in the function
    MaxFrames,  \* bound on the nesting of statements
    MaxSize     \* bound on the stack

ASSUME ScopeSizesAssumption ==
    /\ ArgQty \in Nat /\ RetQty \in Nat
    /\ EndOfCode \subseteq {"exit", "throw", "ifElse"}
    /\ EndInLoop \subseteq EndOfCode
    /\ Loops \subseteq LoopKind
    /\ MaxFrames \in Nat /\ MaxSize \in Nat

VARIABLES size, sizes, live, frames, failed

vars == <<size, sizes, live, frames, failed>>

(***************************************************************************)
(* An open statement.                                                      *)
(*   can     the exits inside it, as CFAnalyzer has found them             *)
(*   exits   the exits met so far                                          *)
(*   always  doesAlways<Return>, <Break>, <Continue> of the body so far    *)
(*   then    doesAlways of the first branch, in the second one             *)
(*   flag    a flag was declared for it                                    *)
(*   jmp     canUseJmp                                                     *)
(*   else    the if has a second branch that is still to come              *)
(*   size    the generator's size at the start of the body                 *)
(*   vars    variables of the loop                                         *)
(*   live    the statement itself is kept                                  *)
(***************************************************************************)
Frame(kind, can, flag, jmp, else, sz, n) ==
    [kind |-> kind, can |-> can, exits |-> {}, always |-> {}, then |-> Exit,
     flag |-> flag, jmp |-> jmp, else |-> else, size |-> sz, vars |-> n,
     live |-> live]

Front(s) == SubSeq(s, 1, Len(s) - 1)
Last(s) == s[Len(s)]

Inner == Last(frames)

EndsCode(what) == what \in (IF hasLoop(frames) THEN EndInLoop ELSE EndOfCode)

-----------------------------------------------------------------------------
(* StackOptimizer's scopes, on m_stackSize; each returns the new one. *)

scopeSize(ss) == Last(ss) - (IF Len(ss) = 1 THEN 0 ELSE ss[Len(ss) - 1])
delta(ss, d)  == Append(Front(ss), Last(ss) + d)
startScope(ss) == Append(ss, Last(ss))

(* Mutant: the size at the end of the scope is kept. *)
endScopeKeeps(ss) == Append(Front(Front(ss)), Last(ss))

endScope(ss)   == Front(ss)

(* Only an instruction that is kept changes them. *)
Visit(ss, d) == IF live THEN delta(ss, d) ELSE ss

(* Mutants: the visit leaves the size alone; what a return leaves on the   *)
(* stack is counted twice.                                                 *)
visitRBCNothing(ss) == ss
visitRBCReturns(ss) == delta(ss, -scopeSize(ss) - RetQty)

(* visit(ReturnOrBreakOrCont) *)
visitRBC(ss) == delta(ss, -scopeSize(ss))

-----------------------------------------------------------------------------
Init ==
    \E can \in SUBSET {"return"} :
      /\ size = ArgQty
      /\ sizes = <<ArgQty>>
      /\ live = TRUE
      /\ frames = <<[Frame("function", can, FALSE, FALSE, FALSE, ArgQty, 0)
                       EXCEPT !.live = TRUE]>>
      /\ failed = FALSE

(* A variable whose value is used: the optimizer cannot remove it. *)
VariableDeclarationStatement ==
    /\ size < MaxSize
    /\ size' = size + 1
    /\ sizes' = Visit(sizes, 1)
    /\ UNCHANGED <<live, frames, failed>>

(* revert(), tvm.exit(): THROW. *)
Throw ==
    /\ EndsCode("throw")
    /\ live' = FALSE
    /\ UNCHANGED <<size, sizes, frames, failed>>

(* visit(Return), visit(Break), visit(Continue) of the generator.  A       *)
(* return computes its values before; the size is then "fixed" to what it  *)
(* was.                                                                    *)
ExitStatement(exit) ==
    /\ EndsCode("exit")
    /\ exit \in Inner.can
    /\ LET n == IF exit = "return" THEN RetQty ELSE 0
       IN /\ size + n <= MaxSize
          /\ size' = size + n
          /\ sizes' = IF live THEN visitRBC(delta(sizes, n)) ELSE sizes
    /\ live' = FALSE
    /\ frames' = [frames EXCEPT ![Len(frames)].exits = @ \cup {exit},
                                ![Len(frames)].always = @ \cup {exit}]
    /\ UNCHANGED failed

(* visit(IfStatement), up to the first branch. *)
IfStatement(can, jmp, else) ==
    /\ Len(frames) < MaxFrames /\ size < MaxSize
    /\ can \subseteq Inner.can
    /\ jmp /\ else => EndsCode("ifElse")
    /\ LET flag == IfNeedsFlag(can, jmp, hasLoop(frames))
       IN /\ size' = size + OneIf(flag)
          /\ sizes' = IF live THEN startScope(delta(sizes, OneIf(flag)))
                      ELSE sizes
          /\ frames' = Append(frames, Frame("if", can, flag, jmp, else,
                                            size + OneIf(flag), 0))
    /\ UNCHANGED <<live, failed>>

(* The end of a branch: acceptBody and endContinuation2 drop the variables *)
(* of the branch.                                                          *)
DropScope == Visit(sizes, Inner.size - size)

(* The else branch follows. *)
EndThen ==
    /\ Inner.kind = "if" /\ Inner.else
    /\ size' = Inner.size
    /\ sizes' = IF Inner.live THEN startScope(endScope(DropScope)) ELSE sizes
    /\ live' = Inner.live
    /\ frames' = [frames EXCEPT ![Len(frames)].else = FALSE,
                                ![Len(frames)].then = Inner.always,
                                ![Len(frames)].always = {},
                                ![Len(frames)].kind = "else"]
    /\ UNCHANGED failed

(* The open statements after the innermost one, with the exits of its body *)
(* and what it always does.                                                *)
Popped(exits, always) ==
    LET fs == Front(frames)
    IN [fs EXCEPT ![Len(fs)].exits = @ \cup exits,
                  ![Len(fs)].always = @ \cup always]

(* The end of visit(IfStatement).  canUseJmp is what CFAnalyzer says of    *)
(* all branches; the flag is taken by the Opaque node after the if.        *)
EndIf ==
    /\ Inner.kind \in {"if", "else"} /\ ~Inner.else
    /\ Inner.exits = Inner.can
    /\ Inner.jmp <=> (Inner.then # {} /\ Inner.always # {})
    /\ size' = Inner.size - OneIf(Inner.flag)
    /\ LET dead == Inner.jmp /\ Inner.kind = "else"
           after == endScope(DropScope)
       IN /\ live' = (Inner.live /\ ~dead)
          /\ sizes' = IF ~Inner.live THEN sizes
                      ELSE IF dead THEN after ELSE delta(after, -OneIf(Inner.flag))
    /\ frames' = Popped(Inner.exits, IF Inner.kind = "else"
                                     THEN Inner.then \cap Inner.always ELSE {})
    /\ UNCHANGED failed

(* visit(WhileStatement), doWhile and visit(ForStatement), up to the body. *)
(* The body of a do-while or a for may be a SubProgram.                    *)
LoopStatement(kind, can, n) ==
    /\ Len(frames) < MaxFrames /\ size + n < MaxSize
    /\ "return" \in can => "return" \in Inner.can
    /\ LET flag == LoopNeedsFlag(can)
           d == n + OneIf(flag)
           f == Frame(kind, can, flag, FALSE, FALSE, size + d, n)
           scope == startScope(delta(sizes, d))
       IN /\ size' = size + d
          /\ sizes' = IF ~live THEN sizes
                      ELSE IF Wrapped(f) THEN startScope(scope) ELSE scope
          /\ frames' = Append(frames, f)
    /\ UNCHANGED <<live, failed>>

(* The end of a loop: visit(TvmRepeat), visit(TvmUntil) and visit(While)   *)
(* compare the size at the end of the body with the one at its start.  The *)
(* body of TvmUntil ends with the condition.                               *)
EndLoop ==
    /\ IsLoop(Inner)
    /\ Inner.exits = Inner.can
    /\ LET wrapped == Wrapped(Inner)
           body == IF wrapped THEN endScope(DropScope) ELSE DropScope
           goesOn == IF wrapped THEN Inner.live ELSE live
           cond == OneIf(Inner.kind = "until")
           end == IF goesOn THEN delta(body, cond) ELSE body
           d == Inner.vars + OneIf(Inner.flag)
       IN /\ size' = Inner.size - d
          /\ sizes' = IF Inner.live THEN delta(endScope(end), -d) ELSE sizes
          /\ failed' = (failed \/ (Inner.live /\ scopeSize(end) # cond))
    /\ live' = Inner.live
    /\ frames' = Popped(Inner.exits \cap {"return"}, {})

Next ==
    \/ VariableDeclarationStatement
    \/ Throw
    \/ \E exit \in Exit : ExitStatement(exit)
    \/ \E can \in SUBSET Exit, jmp, else \in BOOLEAN : IfStatement(can, jmp, else)
    \/ EndThen
    \/ EndIf
    \/ \E kind \in Loops, can \in SUBSET Exit :
          \E n \in VarQtys(kind, {0, 1}) : LoopStatement(kind, can, n)
    \/ EndLoop

Spec == Init /\ [][Next]_vars

-----------------------------------------------------------------------------
(* Type invariant; the optimizer's sizes are not negative (the assertion   *)
(* of StackOptimizer::delta).                                              *)
TypeOK ==
    /\ size \in Nat
    /\ sizes \in Seq(Nat) /\ sizes # <<>>
    /\ live \in BOOLEAN /\ failed \in BOOLEAN
    /\ \A i \in 1..Len(frames) :
          /\ frames[i].exits \subseteq frames[i].can
          /\ frames[i].can \subseteq Exit

(* For each instruction that is kept, StackOptimizer's size is the stack   *)
(* size the generator emitted the instruction for, whatever code has been  *)
(* deleted before: scopeSize(), which limits what the optimizer may        *)
(* remove, counts the slots of the scope.                                  *)
SizesAgree == live => Last(sizes) = size

(* solAssert(savedStack == size()) in StackOptimizer::visit(While) and its *)
(* counterparts in visit(TvmRepeat) and visit(TvmUntil).                   *)
LoopKeepsSize == ~failed
=============================================================================
