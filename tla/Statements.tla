---------------------------- MODULE Statements ----------------------------
(***************************************************************************)
(* What the code generator knows about a statement before it compiles it:  *)
(* the exits inside it (class CFAnalyzer, TVMAnalyzer.cpp), and what       *)
(* TVMFunctionCompiler.cpp concludes from them.  An open statement is a    *)
(* record with at least its kind and the set can of exits inside it that   *)
(* canReturn(), canBreak() and canContinue() have found.                   *)
(***************************************************************************)
EXTENDS Integers, Sequences

Exit == {"return", "break", "continue"}
LoopKind == {"while", "repeat", "until", "for", "foreach"}

IsLoop(f) == f.kind \in LoopKind
hasLoop(fs) == \E i \in 1..Len(fs) : IsLoop(fs[i])

(* Mutant: a continue that leaves the body of a for skips the loop         *)
(* expression.                                                             *)
WrappedUntilOnly(f) == f.kind = "until" /\ f.can # {}

(* The body of the loop is a continuation of its own, called in each       *)
(* iteration (pushContAndCallX): code follows it that a continue must not  *)
(* skip.                                                                   *)
Wrapped(f) ==
    \/ f.kind = "until" /\ f.can # {}
    \/ f.kind \in {"for", "foreach"} /\ "continue" \in f.can

(* withBreakOrReturn: the loop instruction is the ...BRK one, which sets   *)
(* c1 to the code after the loop.                                          *)
Brk(f) == f.can \cap {"break", "return"} # {}

(* visit(IfStatement) declares a flag.  jmp is canUseJmp: each branch      *)
(* always leaves by a return, break or continue (doThatAlways()).          *)
IfNeedsFlag(can, jmp, inLoop) ==
    ~jmp /\ ("continue" \in can \/ (~inLoop /\ "return" \in can))

(* Mutant: only a loop with a break has a flag. *)
LoopNeedsFlagWithBreak(can) == {"return", "break"} \subseteq can

(* pushControlFlowFlag *)
LoopNeedsFlag(can) == "return" \in can

(* The variables that a loop statement declares itself: the dictionary and *)
(* the iteration values of a foreach, or those that the initialisation of  *)
(* a for declares.                                                         *)
VarQtys(kind, forVarQtys) == CASE kind = "for"     -> forVarQtys
                               [] kind = "foreach" -> {2, 3, 4}
                               [] OTHER            -> {0}

OneIf(b) == IF b THEN 1 ELSE 0
=============================================================================
