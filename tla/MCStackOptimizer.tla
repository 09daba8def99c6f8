-------------------------- MODULE MCStackOptimizer --------------------------
(* Instances of StackOptimizer for TLC. *)
EXTENDS StackOptimizer, TLC

CONSTANTS v1, v2

(* Stack instructions copy values and never look at them, so two values    *)
(* tell any two slots apart: for slots p # q there is a stack with         *)
(* different values in p and q.                                            *)
MCVal == {v1, v2}
Symmetry == Permutations(MCVal)

Cuts  == {"swapToDrop", "cutUnder", "roll", "delGen", "dropFirst", "dropMore"}
Keeps == {"popToDrop", "ignore"}
Moves == {"move"}
All   == Cuts \cup Keeps \cup Moves

(* How a trial goes on depends on its rewrite only through these classes.  *)
RewriteClass ==
    CASE kind \in {"move", "popToDrop", "ignore"} -> kind
      [] OTHER -> "cut"

(* The global variable matters only to the rewrite that moves a read.     *)
GlobView == IF kind = "move" THEN <<reads, val, globVars>> ELSE <<>>

(* The states TLC tells apart: a rejected or thrown trial is over,         *)
(* whatever its stacks, and the other trials differ by their class only.   *)
View ==
    IF phase \in {"rejected", "thrown"} THEN <<phase, fault>>
    ELSE <<phase, RewriteClass, stackVars, seg, GlobView, size,
           noDrop, frames>>
=============================================================================
