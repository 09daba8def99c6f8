--------------------------- MODULE StackOptimizer ---------------------------
(***************************************************************************)
(* One rewrite of StackOptimizer::successfullyUpdate, checked by executing *)
(* the program before and after the rewrite in lockstep.                   *)
(*                                                                         *)
(* The optimizer stands at some instruction of a code block and tries one  *)
(* of its rewrites (the Begin actions): it replaces the instruction by a   *)
(* prefix that leaves a segment of the stack out, starts a Simulator on    *)
(* the rest of the block, and keeps the result if the Simulator accepts.   *)
(* `real' is the stack of the program as it was, `shadow' the stack of the *)
(* program the rewrite would produce.  Every step takes one instruction of *)
(* the rest of the block, any one that is possible there, lets the         *)
(* Simulator decide about it and executes it on `real' and what the        *)
(* Simulator emits on `shadow'.  A trial ends as                           *)
(*    "committed"  the rewrite is kept: the two stacks must be equal,      *)
(*    "left"       the run left the block by return, break or continue,    *)
(*    "thrown"     the run ended by an exception,                          *)
(*    "rejected"   the optimizer gives the rewrite up.                     *)
(*                                                                         *)
(* Bodies of if, loops and CALLX are simulated by nested Simulators; they  *)
(* are frames here.  The run follows one of the bodies of an if; a body    *)
(* it does not follow matters only by the verdict of its Simulator.        *)
(***************************************************************************)
EXTENDS Simulator, Sequences

CONSTANTS
    Val,            \* the values a stack slot can hold
    MaxDepth,       \* bound on the depth of the stack
    MaxArgs,        \* bound on what one instruction takes and returns
    MaxNest,        \* bound on the nesting of bodies
    Rewrites,       \* the rewrites that are tried, a subset of Kinds
    SilentCalls,    \* are there calls that are not spelled CALL (EXECUTE)?
    RandSeed        \* does the code read the seed of the random numbers (RANDSEED)?

ASSUME ValAssumption == Val # {}
ASSUME BoundsAssumption ==
    /\ MaxDepth \in Nat /\ MaxArgs \in Nat /\ MaxNest \in Nat
    /\ SilentCalls \in BOOLEAN /\ RandSeed \in BOOLEAN

VARIABLES
    phase,      \* "idle", "run", or how the trial ended
    kind,       \* which rewrite is tried
    real, depth,     \* the stack of the original program and its depth
    shadow, sdepth,  \* the stack of the rewritten program and its depth
    home,       \* in a body: which outer slot each slot of real is (0: none)
    size,       \* m_stackSize of the innermost Simulator
    seg,        \* m_segment
    noDrop,     \* the next instruction is known not to be a DROP
    frames,     \* the bodies the run is in, innermost last
    reads,      \* kind = "move": what the moved instruction reads
    val,        \* kind = "move": the value it pushed
    glob,       \* value of the global variable, or of the seed, that it reads
    globSet,    \* its index is in m_setGlobs
    wasCall,    \* m_wasCall
    fault       \* "none", or the first thing that went wrong in shadow

stackVars == <<real, depth, shadow, sdepth, home, fault>>
simVars   == <<kind, seg, reads, val>>
globVars  == <<glob, globSet, wasCall>>
vars == <<phase, stackVars, simVars, globVars, size, noDrop, frames>>

Kinds == {"none", "move", "popToDrop", "ignore", "swapToDrop", "cutUnder",
          "roll", "delGen", "dropFirst", "dropMore"}
Terminal == {"committed", "left", "thrown", "rejected"}

(* What a pure gen(0,1) pushes: a constant of the transaction, a global    *)
(* variable (GETGLOB) or the seed (RANDSEED).                              *)
Reads == {"nothing", "glob"} \cup (IF RandSeed THEN {"seed"} ELSE {})

(* The rewrites that keep the original instructions after the prefix;      *)
(* the others use the Simulator's m_commands.                              *)
KeepsCode == {"popToDrop", "ignore"}

BodyKinds == {"if", "log", "sub", "repeat", "until", "cond", "while", "leave"}

(* The stack instructions that can be executed at depth d. *)
Executable ==
    [d \in 0..MaxDepth |->
       {op \in StackOps(MaxDepth) : Need(op) <= d /\ d + Delta(op) <= MaxDepth}]

Zeros(d) == [x \in 0..(d - 1) |-> 0]
Top == frames[Len(frames)]
Front(s) == SubSeq(s, 1, Len(s) - 1)

-----------------------------------------------------------------------------
(* Init: the optimizer has not touched this instruction yet. *)
Init ==
    /\ phase = "idle" /\ kind = "none"
    /\ depth \in 0..MaxDepth
    /\ real \in [0..(depth - 1) -> Val]
    /\ shadow = real /\ sdepth = depth
    /\ home = Zeros(depth)
    /\ size = 0 /\ seg = 0 /\ noDrop = FALSE /\ frames = <<>>
    /\ reads = "nothing" /\ glob \in Val /\ val = glob
    /\ globSet = FALSE /\ wasCall = FALSE
    /\ fault = "none"

(* Simulator sim{.., startSize, segment} *)
StartSimulator(k, startSize, segment) ==
    /\ phase = "idle" /\ phase' = "run"
    /\ k \in Rewrites /\ kind' = k
    /\ size' = startSize /\ seg' = segment
    /\ UNCHANGED <<globVars, frames, fault>>

(* The original program executes op, the rewritten one the prefix. *)
RealExec(op) ==
    /\ Need(op) <= depth /\ depth + Delta(op) <= MaxDepth
    /\ real' = Exec(op, real, depth) /\ depth' = depth + Delta(op)
    /\ home' = Zeros(depth')

RealPush(v) ==
    /\ depth < MaxDepth
    /\ real' = Replace(real, depth, 0, [x \in {0} |-> v], 1)
    /\ depth' = depth + 1
    /\ home' = Zeros(depth')

ShadowExec(op) ==
    /\ shadow' = Exec(op, shadow, sdepth) /\ sdepth' = sdepth + Delta(op)

(***************************************************************************)
(* gen(0,1) ... BLKSWAP 1, N  =>  ... gen(0,1)                             *)
(* A pure instruction is moved down to where its value is needed.          *)
(***************************************************************************)
BeginMove ==
    /\ StartSimulator("move", 1, 1)
    /\ \E g \in Reads, v \in Val :
         /\ g # "nothing" => v = glob
         /\ RealPush(v)
         /\ reads' = g /\ val' = v
    /\ UNCHANGED <<shadow, sdepth, noDrop>>

(* POP Si ... => DROP ... when slot i is overwritten or dropped later. *)
BeginPopToDrop(op) ==
    /\ isPOP(op) # 0
    /\ StartSimulator("popToDrop", isPOP(op), 1)
    /\ RealExec(op) /\ ShadowExec(DROP(1))
    /\ UNCHANGED <<reads, val, noDrop>>

(* BLKSWAP, REVERSE, XCHG S0 is left out when the block is dropped later. *)
BeginIgnore(op) ==
    /\ RearrangedLen(op) # 0
    /\ StartSimulator("ignore", RearrangedLen(op), RearrangedLen(op))
    /\ RealExec(op)
    /\ UNCHANGED <<shadow, sdepth, reads, val, noDrop>>

(* SWAP ... => DROP ... *)
BeginSwapToDrop(op) ==
    /\ isSWAP(op)
    /\ StartSimulator("swapToDrop", 2, 1)
    /\ RealExec(op) /\ ShadowExec(DROP(1))
    /\ UNCHANGED <<reads, val, noDrop>>

(* PUSH Si ... => DROP i; PUSH S0 ... *)
BeginCutUnder(i, scopeSize) ==
    /\ i <= scopeSize /\ i > 0
    /\ StartSimulator("cutUnder", i + 1, i)
    /\ RealExec(PUSH_S(i))
    /\ shadow' = Exec(PUSH_S(0), Exec(DROP(i), shadow, sdepth), sdepth - i)
    /\ sdepth' = sdepth - i + 1
    /\ UNCHANGED <<reads, val, noDrop>>

(* PUSH Si ... => BLKSWAP 1, i ... *)
BeginRoll(i) ==
    /\ StartSimulator("roll", i + 2, 1)
    /\ RealExec(PUSH_S(i))
    /\ ShadowExec(IF i >= 1 THEN BLKSWAP(1, i) ELSE NOP)
    /\ UNCHANGED <<reads, val, noDrop>>

(* A pure gen(0,1) whose value is dropped later is left out. *)
BeginDelGen ==
    /\ StartSimulator("delGen", 1, 1)
    /\ \E v \in Val : RealPush(v)
    /\ UNCHANGED <<shadow, sdepth, reads, val, noDrop>>

(* A DROP is put in front of an instruction that is not a DROP itself. *)
BeginDropFirst(scopeSize, isPrevFlag) ==
    /\ scopeSize >= 1 /\ ~isPrevFlag
    /\ StartSimulator("dropFirst", 1, 1)
    /\ ShadowExec(DROP(1))
    /\ noDrop' = TRUE
    /\ UNCHANGED <<real, depth, home, reads, val>>

(* Mutant: the scope need not hold a slot more than the DROP drops. *)
BeginDropMoreOfScope(n, scopeSize) ==
    /\ scopeSize >= n
    /\ StartSimulator("dropMore", 1, 1)
    /\ RealExec(DROP(n)) /\ ShadowExec(DROP(n + 1))
    /\ UNCHANGED <<reads, val, noDrop>>

(* DROP n ... => DROP n+1 ... *)
BeginDropMore(n, scopeSize) ==
    /\ scopeSize >= n + 1
    /\ StartSimulator("dropMore", 1, 1)
    /\ RealExec(DROP(n)) /\ ShadowExec(DROP(n + 1))
    /\ UNCHANGED <<reads, val, noDrop>>

Begin ==
    \/ BeginMove
    \/ \E op \in Executable[depth] :
         BeginPopToDrop(op) \/ BeginIgnore(op) \/ BeginSwapToDrop(op)
    \/ \E i \in 0..MaxDepth, scopeSize \in 0..depth : BeginCutUnder(i, scopeSize)
    \/ \E i \in 0..MaxDepth : BeginRoll(i)
    \/ BeginDelGen
    \/ \E scopeSize \in 0..depth, isPrevFlag \in BOOLEAN :
         BeginDropFirst(scopeSize, isPrevFlag)
    \/ \E n \in 1..MaxDepth, scopeSize \in 0..depth : BeginDropMore(n, scopeSize)

-----------------------------------------------------------------------------
(* Execution of one instruction by both programs. *)

Reject ==
    /\ phase' = "rejected"
    /\ UNCHANGED <<stackVars, simVars, globVars, size, noDrop, frames>>

(* How the trial goes on once the Simulator has seen the segment dropped:  *)
(* success() at the outer level, the only good end of the code of a        *)
(* return, break or continue, and an unconvertible body otherwise.         *)
AfterDrop ==
    IF frames = <<>> THEN IF kind = "move" THEN "rejected" ELSE "committed"
    ELSE IF Top.kind = "leave" THEN "left" ELSE "rejected"

(* m_wasSet: only the POP rewrite accepts it, a nested body never does. *)
AfterSet ==
    IF frames = <<>> /\ kind = "popToDrop" THEN "committed" ELSE "rejected"

(* real executes op, shadow executes e. *)
Lockstep(op, e) ==
    /\ real' = Exec(op, real, depth) /\ depth' = depth + Delta(op)
    /\ home' = [x \in 0..(depth + Delta(op) - 1) |->
                  IF Place(op, x) = -1 THEN 0 ELSE home[Place(op, x)]]
    /\ IF WellFormed(e) /\ Need(e) <= sdepth
       THEN /\ shadow' = Exec(e, shadow, sdepth) /\ sdepth' = sdepth + Delta(e)
            /\ fault' = fault
       ELSE /\ fault' = IF WellFormed(e) THEN "underflow" ELSE "maker"
            /\ UNCHANGED <<shadow, sdepth>>

(* Both programs pop t values, which they use, and push new, r values. *)
PopPush(t, new, r) ==
    /\ t <= depth /\ depth - t + r <= MaxDepth
    /\ real' = Replace(real, depth, t, new, r) /\ depth' = depth - t + r
    /\ IF t <= sdepth
       THEN /\ shadow' = Replace(shadow, sdepth, t, new, r)
            /\ sdepth' = sdepth - t + r
            /\ fault' = IF \A x \in 0..(t - 1) : real[x] = shadow[x]
                        THEN fault ELSE "args"
       ELSE /\ fault' = "underflow"
            /\ UNCHANGED <<shadow, sdepth>>

InLeave == frames # <<>> /\ Top.kind = "leave"

-----------------------------------------------------------------------------
(* Simulator::run over one stack instruction. *)

(* The moved instruction is executed now: its value must not have changed. *)
(* The code asks this of a GETGLOB only.                                   *)
MoveIsGood == reads = "glob" => ~globSet /\ ~wasCall

CommitMove(op) ==
    /\ phase' = "committed"
    /\ real' = Exec(op, real, depth)
    /\ shadow' = Replace(shadow, sdepth, 0,
                         [x \in {0} |-> IF reads = "nothing" THEN val ELSE glob], 1)
    /\ sdepth' = sdepth + 1
    /\ UNCHANGED <<depth, home, fault, simVars, globVars, size, noDrop, frames>>

(* What a return, break or continue drops: see TVMFunctionCompiler. *)
LeaveOp(op) == op.opcode \in {"DROP", "BLKDROP2"} \/ op = POP_S(1)

StepStack(op) ==
    LET o == VisitStack(op, size, seg)
        e == IF kind \in KeepsCode THEN op ELSE o.emit
    IN  /\ phase = "run"
        /\ noDrop => isDrop(op) = 0
        /\ InLeave => LeaveOp(op)
        /\ \/ /\ \/ o.verdict = "unable"
                 \/ o.verdict = "dropped" /\ AfterDrop = "rejected"
                 \/ o.verdict = "set" /\ AfterSet = "rejected"
                 \/ o.verdict = "moved" /\ ~(frames = <<>> /\ kind = "move" /\ MoveIsGood)
              /\ Reject
           \/ /\ \/ o.verdict = "go" /\ phase' = "run"
                 \/ o.verdict = "dropped" /\ AfterDrop # "rejected" /\ phase' = AfterDrop
                 \/ o.verdict = "set" /\ AfterSet # "rejected" /\ phase' = AfterSet
              /\ Lockstep(op, e)
              /\ size' = o.size /\ noDrop' = FALSE
              /\ UNCHANGED <<simVars, globVars, frames>>
           \/ /\ o.verdict = "moved" /\ frames = <<>> /\ kind = "move" /\ MoveIsGood
              /\ CommitMove(op)

(* POP n; DROP n-1, which Simulator::run takes as one instruction. *)
StepPopAndDrop(n) ==
    LET d == n - 1 IN
    /\ phase = "run" /\ ~InLeave
    /\ d >= 1 /\ isPopAndDrop(n, d, size, seg)
    /\ Need(POP_S(n)) <= depth
    /\ \/ AfterDrop = "rejected" /\ Reject
       \/ /\ AfterDrop # "rejected" /\ phase' = AfterDrop
          /\ real' = Exec(DROP(d), Exec(POP_S(n), real, depth), depth - 1)
          /\ depth' = depth - 1 - d
          /\ home' = Zeros(depth - 1 - d)
          /\ IF kind \in KeepsCode
             THEN /\ shadow' = Exec(DROP(d), Exec(POP_S(n), shadow, sdepth), sdepth - 1)
                  /\ sdepth' = sdepth - 1 - d
             ELSE ShadowExec(makeBLKDROP2(d, 1))
          /\ size' = size /\ noDrop' = FALSE
          /\ UNCHANGED <<fault, simVars, globVars, frames>>

-----------------------------------------------------------------------------
(* Instructions that take t values and return r. *)

GenUnable(t, r) ==
    /\ phase = "run" /\ t <= depth
    /\ VisitGen(t, r, size, seg).verdict = "unable"
    /\ Reject

GenGo(t, r) ==
    LET o == VisitGen(t, r, size, seg) IN
    /\ phase = "run"
    /\ o.verdict = "go"
    /\ \E new \in [0..(r - 1) -> Val] : PopPush(t, new, r)
    /\ home' = Replace(home, depth, t, Zeros(r), r)
    /\ size' = o.size /\ noDrop' = FALSE
    /\ UNCHANGED <<phase, simVars, frames>>

(* GenOpcode, Opaque, HardCode, PushCellOrSlice, DeclRetFlag, and the Globs *)
(* that do not concern the global variable the trial reads.  The code of a  *)
(* return, break or continue only pushes the flag.                          *)
VisitPlain(t, r) ==
    /\ InLeave => t = 0 /\ r = 1
    /\ GenUnable(t, r) \/ (GenGo(t, r) /\ UNCHANGED globVars)

(* CALL: the callee may assign to the global variable, or use the random   *)
(* numbers.                                                                *)
VisitCall(t, r) ==
    /\ reads # "nothing" /\ ~InLeave
    /\ \/ GenUnable(t, r)
       \/ GenGo(t, r) /\ glob' \in Val /\ wasCall' = TRUE /\ globSet' = globSet

(* EXECUTE, a call through a variable of function type: m_wasCall is not   *)
(* set, it is for opcode CALL only.                                        *)
VisitExecute(t, r) ==
    /\ SilentCalls /\ reads # "nothing" /\ ~InLeave
    /\ \/ GenUnable(t, r)
       \/ GenGo(t, r) /\ glob' \in Val /\ UNCHANGED <<wasCall, globSet>>

(* RANDU256, RAND, SETRAND, ADDRAND: each of them changes the seed. *)
VisitRand(t, r) ==
    /\ reads = "seed" /\ ~InLeave
    /\ <<t, r>> \in {<<0, 1>>, <<1, 1>>, <<1, 0>>}
    /\ \/ GenUnable(t, r)
       \/ GenGo(t, r) /\ glob' \in Val /\ UNCHANGED <<wasCall, globSet>>

(* GETGLOB of the global variable, or RANDSEED; SETGLOB of the variable. *)
VisitGetGlob ==
    /\ reads # "nothing" /\ phase = "run" /\ ~InLeave
    /\ PopPush(0, [x \in {0} |-> glob], 1)
    /\ home' = Replace(home, depth, 0, Zeros(1), 1)
    /\ size' = size + 1 /\ noDrop' = FALSE
    /\ UNCHANGED <<phase, simVars, globVars, frames>>

VisitSetGlob ==
    /\ reads = "glob" /\ ~InLeave
    /\ \/ GenUnable(1, 0)
       \/ GenGo(1, 0) /\ glob' = real[0] /\ globSet' = TRUE /\ wasCall' = wasCall

(* TvmException: THROW ends the run; THROWIF may. *)
VisitException(t, withIf) ==
    /\ phase = "run" /\ ~InLeave /\ t <= depth
    /\ \/ /\ \/ t > rest(size, seg)
             \/ ~withIf /\ (frames # <<>> \/ kind = "move")
          /\ Reject
       \/ /\ t <= rest(size, seg)
          /\ ~withIf => frames = <<>> /\ kind # "move"
          /\ PopPush(t, <<>>, 0)
          /\ home' = Replace(home, depth, t, <<>>, 0)
          /\ phase' \in (IF withIf THEN {"run", "thrown"} ELSE {"thrown"})
          /\ size' = size - t /\ noDrop' = FALSE
          /\ UNCHANGED <<simVars, globVars, frames>>

-----------------------------------------------------------------------------
(* Bodies.  A frame records the number of outer slots under the body       *)
(* (base), how many values the body returns, the m_stackSize of the        *)
(* enclosing Simulator without what the body takes (size0), and home for   *)
(* the outer slots.                                                        *)

(* Mutant: the enclosing Simulator forgets what the body takes. *)
EnterBodyNoTake(k, t, owned, r) ==
    LET base == depth - t - owned IN
    /\ phase = "run" /\ Len(frames) < MaxNest
    /\ base >= 0
    /\ PopPush(t, <<>>, 0)
    /\ home' = [x \in 0..(depth - t - 1) |->
                  IF x < owned THEN 0 ELSE depth - t - x]
    /\ frames' = Append(frames,
                   [kind |-> k, base |-> base, ret |-> r, size0 |-> size - t,
                    home |-> [x \in 0..(base - 1) |-> home[x + t + owned]]])
    /\ size' = size - t /\ noDrop' = FALSE
    /\ UNCHANGED <<phase, simVars, globVars>>

(* A nested Simulator starts on a body after both programs popped t        *)
(* values; the body owns the next `owned' ones and returns r.              *)
EnterBody(k, t, owned, r) ==
    LET base == depth - t - owned IN
    /\ phase = "run" /\ Len(frames) < MaxNest
    /\ base >= 0
    /\ PopPush(t, <<>>, 0)
    /\ home' = [x \in 0..(depth - t - 1) |->
                  IF x < owned THEN 0 ELSE depth - t - x]
    /\ frames' = Append(frames,
                   [kind |-> k, base |-> base, ret |-> r, size0 |-> size - t - owned,
                    home |-> [x \in 0..(base - 1) |-> home[x + t + owned]]])
    /\ size' = size - t /\ noDrop' = FALSE
    /\ UNCHANGED <<phase, simVars, globVars>>

(* The body is not run; the Simulator has converted it nevertheless. *)
SkipBody(t) ==
    /\ phase = "run" /\ t <= depth
    /\ PopPush(t, <<>>, 0)
    /\ home' = Replace(home, depth, t, <<>>, 0)
    /\ size' = size - t /\ noDrop' = FALSE
    /\ UNCHANGED <<simVars, globVars, frames>>

(***************************************************************************)
(* The contract of the code generator: when a body ends it has put every   *)
(* outer slot back where it was (TVMPusher checks the depth) and returns   *)
(* its r values above them.  A variable in an outer slot may have been     *)
(* assigned to.                                                            *)
(***************************************************************************)
BodyDone ==
    /\ depth = Top.base + Top.ret
    /\ \A x \in 0..(depth - 1) : home[x] = IF x < Top.ret THEN 0 ELSE depth - x

AtBodyEnd(k) == phase = "run" /\ frames # <<>> /\ Top.kind = k /\ BodyDone

(* Return to the enclosing code with the r values of the body. *)
LeaveBody ==
    /\ frames' = Front(frames)
    /\ home' = Replace(Top.home, Top.base, 0, Zeros(Top.ret), Top.ret)
    /\ size' = Top.size0 + Top.ret /\ noDrop' = FALSE
    /\ UNCHANGED <<phase, real, depth, shadow, sdepth, fault, simVars, globVars>>

(* Both programs pop the condition at the end of the body and return. *)
LeaveOnFlag ==
    /\ PopPush(1, <<>>, 0)
    /\ frames' = Front(frames) /\ home' = Top.home
    /\ size' = Top.size0 /\ noDrop' = FALSE
    /\ UNCHANGED <<phase, simVars, globVars>>

(* Both programs pop the condition and go on with body k of the loop. *)
NextOnFlag(k, r) ==
    /\ PopPush(1, <<>>, 0)
    /\ frames' = Append(Front(frames), [Top EXCEPT !.kind = k, !.ret = r])
    /\ home' = Replace(home, depth, 1, <<>>, 0)
    /\ size' = Top.size0 /\ noDrop' = FALSE
    /\ UNCHANGED <<phase, simVars, globVars>>

-----------------------------------------------------------------------------
(* TvmIfElse: the flag is popped and one of the bodies is followed, *)
(* or none when there is no else.                                   *)
VisitIfElse(r) ==
    /\ phase = "run" /\ ~InLeave /\ depth >= 1
    /\ \/ rest(size, seg) = 0 /\ Reject
       \/ rest(size, seg) # 0 /\ EnterBody("if", 1, 0, r)

SkipIfElse(trueLeaves) ==
    /\ ~InLeave /\ rest(size, seg) # 0
    /\ SkipBody(1)
    /\ phase' = IF IfElseDropped(FALSE, trueLeaves, TRUE) THEN AfterDrop ELSE "run"

EndIfElse == AtBodyEnd("if") /\ LeaveBody

(***************************************************************************)
(* LogCircuit: && and ||.  The stack holds the left operand twice; the     *)
(* upper copy is the flag, and the body starts with a DROP of the lower    *)
(* one, which the nested Simulator must convert.                           *)
(***************************************************************************)
LogCircuitUnable ==
    \/ rest(size, seg) = 0
    \/ VisitDROP(1, size - 1, seg).verdict # "go"

VisitLogCircuit ==
    /\ phase = "run" /\ ~InLeave /\ depth >= 2
    /\ \/ LogCircuitUnable /\ Reject
       \/ ~LogCircuitUnable /\ EnterBody("log", 2, 0, 1)

SkipLogCircuit ==
    /\ ~InLeave /\ ~LogCircuitUnable
    /\ SkipBody(1) /\ phase' = phase

EndLogCircuit == AtBodyEnd("log") /\ LeaveBody

(* SubProgram: CALLX, CALLREF of a block that takes t and returns r. *)
VisitSubProgram(t, r) ==
    /\ phase = "run" /\ ~InLeave /\ t <= depth
    /\ \/ t > rest(size, seg) /\ Reject
       \/ t <= rest(size, seg) /\ EnterBody("sub", 0, t, r)

EndSubProgram == AtBodyEnd("sub") /\ LeaveBody

(* TvmRepeat *)
VisitRepeat ==
    /\ phase = "run" /\ ~InLeave /\ depth >= 1
    /\ \/ rest(size, seg) = 0 /\ Reject
       \/ rest(size, seg) # 0 /\ EnterBody("repeat", 1, 0, 0)

SkipRepeat ==
    /\ ~InLeave /\ rest(size, seg) # 0
    /\ SkipBody(1) /\ phase' = phase

EndRepeat ==
    /\ AtBodyEnd("repeat")
    /\ \/ LeaveBody
       \/ size' = Top.size0 /\ noDrop' = FALSE
          /\ UNCHANGED <<phase, stackVars, simVars, globVars, frames>>

(* TvmUntil: the body pushes the condition. *)
VisitUntil ==
    /\ phase = "run" /\ ~InLeave
    /\ \/ rest(size, seg) = 0 /\ Reject
       \/ rest(size, seg) # 0 /\ EnterBody("until", 0, 0, 1)

EndUntil ==
    /\ AtBodyEnd("until")
    /\ LeaveOnFlag \/ NextOnFlag("until", 1)

(* While: the condition, then the body, then the condition again. *)
VisitWhile == ~InLeave /\ EnterBody("cond", 0, 0, 1)

EndCondition ==
    /\ AtBodyEnd("cond")
    /\ LeaveOnFlag \/ NextOnFlag("while", 0)

EndWhileBody ==
    /\ AtBodyEnd("while")
    /\ frames' = Append(Front(frames), [Top EXCEPT !.kind = "cond", !.ret = 1])
    /\ size' = Top.size0 /\ noDrop' = FALSE
    /\ UNCHANGED <<phase, stackVars, simVars, globVars>>

(***************************************************************************)
(* ReturnOrBreakOrCont: its code drops everything above the place it jumps *)
(* to.  A nested Simulator with the same m_stackSize and m_segment decides *)
(* about it; the run does not come back to the enclosing bodies.           *)
(***************************************************************************)
LeaveFrame ==
    [kind |-> "leave", base |-> 0, ret |-> 0, size0 |-> 0, home |-> Zeros(0)]

VisitReturnOrBreakOrCont(t) ==
    /\ phase = "run" /\ ~InLeave /\ t <= depth
    /\ \/ t > rest(size, seg) /\ Reject
       \/ /\ t <= rest(size, seg)
          /\ frames' = <<LeaveFrame>> /\ home' = Zeros(depth)
          /\ noDrop' = FALSE
          /\ UNCHANGED <<phase, real, depth, shadow, sdepth, fault, simVars,
                         globVars, size>>

(* The block ends, or the code of a return does, with the segment on the   *)
(* stack; no rewrite applies; or a body the run does not follow cannot be  *)
(* converted.                                                              *)
EndOfCode == phase = "run" /\ (frames = <<>> \/ InLeave) /\ Reject
NoRewrite == phase = "idle" /\ Reject
OtherBodyUnable == phase = "run" /\ ~InLeave /\ rest(size, seg) # 0 /\ Reject

-----------------------------------------------------------------------------
Args == 0..MaxArgs

SimulateLeaf ==
    \/ \E op \in Executable[depth] : StepStack(op)
    \/ \E n \in 2..MaxDepth : StepPopAndDrop(n)
    \/ \E t \in Args, r \in Args : VisitPlain(t, r) \/ VisitCall(t, r) \/ VisitExecute(t, r) \/ VisitRand(t, r)
    \/ VisitGetGlob \/ VisitSetGlob
    \/ \E t \in Args, withIf \in BOOLEAN : (withIf => t >= 1) /\ VisitException(t, withIf)

SimulateBody ==
    \/ \E r \in Args : VisitIfElse(r)
    \/ \E leaves \in BOOLEAN : SkipIfElse(leaves)
    \/ EndIfElse
    \/ VisitLogCircuit \/ SkipLogCircuit \/ EndLogCircuit
    \/ \E t \in Args, r \in Args : VisitSubProgram(t, r)
    \/ EndSubProgram
    \/ VisitRepeat \/ SkipRepeat \/ EndRepeat
    \/ VisitUntil \/ EndUntil
    \/ VisitWhile \/ EndCondition \/ EndWhileBody
    \/ \E t \in Args : VisitReturnOrBreakOrCont(t)
    \/ OtherBodyUnable

Finished == phase \in Terminal /\ UNCHANGED vars

Next == Begin \/ NoRewrite \/ SimulateLeaf \/ SimulateBody \/ EndOfCode \/ Finished

Spec == Init /\ [][Next]_vars

-----------------------------------------------------------------------------
(* Properties. *)

Homes == UNION {[0..(d - 1) -> 0..MaxDepth] : d \in 0..MaxDepth}
Frame == [kind : BodyKinds, base : 0..MaxDepth, ret : Nat, size0 : Int, home : Homes]

(* s is a stack of depth d; h labels the slots of one. *)
IsStack(s, d) == d \in 0..MaxDepth /\ s \in [0..(d - 1) -> Val]
IsLabelling(h, d) == h \in [0..(d - 1) -> 0..MaxDepth]

Stacks(r, d, s, sd, h) == IsStack(r, d) /\ IsStack(s, sd) /\ IsLabelling(h, d)

Bodies(fs) ==
    /\ fs \in Seq(Frame)
    /\ \A n \in 1..Len(fs) : DOMAIN fs[n].home = 0..(fs[n].base - 1)

(* The variables have their types. *)
TypeOK ==
    /\ phase \in {"idle", "run"} \cup Terminal
    /\ kind \in Kinds
    /\ Stacks(real, depth, shadow, sdepth, home)
    /\ size \in Int /\ seg \in Nat
    /\ noDrop \in BOOLEAN
    /\ Bodies(frames)
    /\ reads \in Reads /\ val \in Val /\ glob \in Val
    /\ globSet \in BOOLEAN /\ wasCall \in BOOLEAN
    /\ fault \in {"none", "args", "maker", "underflow"}

(* The segment m - g .. m - 1 lies inside a stack of depth d. *)
Segment(d, m, g) == 1 <= g /\ g <= m /\ m <= d

(* The assertions m_stackSize >= m_segment of Simulator::run and r >= 0 of *)
(* Simulator::rest hold, and the segment lies inside the real stack.       *)
SegmentInside == phase = "run" => Segment(depth, size, seg)

(* Stack s is r without the segment; s is r but for the segment. *)
CutInSync(r, d, s, sd, m, g) ==
    sd = d - g /\ \A x \in 0..(sd - 1) : s[x] = r[With(x, m, g)]

KeepInSync(r, d, s, sd, m, g) ==
    sd = d /\ \A x \in 0..(d - 1) : ~InSegment(x, m, g) => s[x] = r[x]

InSync(k, r, d, s, sd, m, g) ==
    IF k \in KeepsCode THEN KeepInSync(r, d, s, sd, m, g)
    ELSE CutInSync(r, d, s, sd, m, g)

(* While the Simulator runs, the rewritten program's stack is the original *)
(* one without the segment [m_stackSize - m_segment, m_stackSize - 1]; for *)
(* the rewrites that keep the code, the stacks agree outside the segment.  *)
ShadowInSync ==
    phase = "run" => InSync(kind, real, depth, shadow, sdepth, size, seg)

(* A rewrite that successfullyUpdate keeps has, at the point where the     *)
(* Simulator stops, exactly the stack of the original program; so it has   *)
(* when the run leaves the block by return, break or continue.             *)
(* (Where RandSeed and SilentCalls are FALSE: see OnlyMovedValueDiffers.)  *)
SameStack == phase \in {"committed", "left"} => sdepth = depth /\ shadow = real

(* successfullyUpdate moves a GETGLOB over a call that is not spelled CALL *)
(* and a RANDSEED over whatever changes the seed.  Even then all that a    *)
(* kept rewrite can change is the one value it moves.                      *)
OnlyMovedValueDiffers ==
    phase = "committed" =>
        /\ sdepth = depth
        /\ \A x \in 0..(depth - 1) :
             shadow[x] = real[x] \/ (x = 0 /\ kind = "move" /\ reads # "nothing")

(* Every value an instruction takes is the same in both programs: no       *)
(* computation, condition or exception sees the rewrite.                   *)
SameArguments == fault # "args"

(* No assertion of the make* constructors fails on an index the Simulator  *)
(* computes, and the rewritten program never pops an empty stack.          *)
EmitsWellFormed == fault \notin {"maker", "underflow"}

(* The assertion commented out in Simulator::trySimulate                   *)
(* (m_stackSize == endStackSize): where a body ends, the nested Simulator  *)
(* has the size with which the enclosing one goes on.                      *)
BodyEndSize ==
    phase = "run" /\ frames # <<>> /\ ~InLeave /\ BodyDone
        => size = Top.size0 + Top.ret

-----------------------------------------------------------------------------
(* The inductive invariant behind these properties. *)

(* The slots of the segment are outer slots of body f, in their order: the *)
(* label of slot x in h is its place counted from the bottom when f began. *)
Labelled(h, m, g, f) ==
    \A x \in (m - g)..(m - 1) : h[x] = f.base - f.size0 + m - x

BodyOK(f, g) ==
    /\ g <= f.size0 /\ f.size0 <= f.base
    /\ f.kind \in {"until", "cond"} => f.ret = 1
    /\ f.kind \in {"repeat", "while"} => f.ret = 0

Tracked(fs, h, m, g) ==
    /\ \A n \in 1..Len(fs) : BodyOK(fs[n], g)
    /\ fs # <<>> => Labelled(h, m, g, fs[Len(fs)])
    /\ \A n \in 2..Len(fs) : Labelled(fs[n].home, fs[n].size0, g, fs[n - 1])

(* In every body the run is in, the segment is still the one it was when   *)
(* the body was entered.                                                   *)
SegmentTracked == phase = "run" /\ ~InLeave => Tracked(frames, home, size, seg)

(* The moved value waits in the segment, and the global variable it was    *)
(* read from has not changed unless the Simulator has noticed.             *)
MovedValueKept ==
    phase = "run" /\ kind = "move" =>
        /\ seg = 1 /\ real[size - 1] = val
        /\ reads = "glob" /\ ~globSet /\ ~wasCall /\ ~SilentCalls => glob = val

Untouched == phase = "idle" => shadow = real /\ sdepth = depth /\ frames = <<>>

SameExceptMoved ==
    phase \in {"committed", "left"} =>
        /\ sdepth = depth
        /\ \A x \in 0..(depth - 1) :
             \/ shadow[x] = real[x]
             \/ /\ phase = "committed" /\ kind = "move" /\ x = 0
                /\ reads = "seed" \/ (SilentCalls /\ reads = "glob")

IInv ==
    /\ TypeOK /\ fault = "none"
    /\ Untouched /\ SegmentInside /\ ShadowInSync /\ SegmentTracked
    /\ MovedValueKept /\ SameExceptMoved
=============================================================================
