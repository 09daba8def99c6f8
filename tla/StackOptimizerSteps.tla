------------------------ MODULE StackOptimizerSteps -------------------------
(***************************************************************************)
(* The steps of a trial of StackOptimizer::successfullyUpdate over the     *)
(* instructions without a body preserve IInv, for every depth, nesting and *)
(* set of values.                                                          *)
(*                                                                         *)
(* StackOptimizerLemmas says what every step does to the stacks and to the *)
(* bodies; here the steps are taken one action at a time.                  *)
(***************************************************************************)
EXTENDS StackOptimizerLemmas

(* What IInv says of a state in which the Simulator runs. *)
Running ==
    /\ phase = "run" /\ kind \in Kinds
    /\ Stacks(real, depth, shadow, sdepth, home)
    /\ size \in Int /\ seg \in Nat /\ Segment(depth, size, seg)
    /\ InSync(kind, real, depth, shadow, sdepth, size, seg)
    /\ noDrop \in BOOLEAN /\ Bodies(frames)
    /\ reads \in Reads /\ val \in Val /\ glob \in Val
    /\ globSet \in BOOLEAN /\ wasCall \in BOOLEAN
    /\ fault = "none"
    /\ ~InLeave => Tracked(frames, home, size, seg)
    /\ kind = "move" => seg = 1 /\ real[size - 1] = val
    /\ kind = "move" /\ reads = "glob" /\ ~globSet /\ ~wasCall /\ ~SilentCalls => glob = val

(* What it says of one in which the trial has ended. *)
Over ==
    /\ phase \in Terminal /\ kind \in Kinds
    /\ Stacks(real, depth, shadow, sdepth, home)
    /\ size \in Int /\ seg \in Nat /\ noDrop \in BOOLEAN /\ Bodies(frames)
    /\ reads \in Reads /\ val \in Val /\ glob \in Val
    /\ globSet \in BOOLEAN /\ wasCall \in BOOLEAN
    /\ fault = "none"
    /\ SameExceptMoved

(* And of one in which it has not begun. *)
Waiting ==
    /\ phase = "idle" /\ kind \in Kinds
    /\ Stacks(real, depth, real, depth, home) /\ shadow = real /\ sdepth = depth
    /\ size \in Int /\ seg \in Nat /\ noDrop \in BOOLEAN /\ frames = <<>>
    /\ reads \in Reads /\ val \in Val /\ glob \in Val
    /\ globSet \in BOOLEAN /\ wasCall \in BOOLEAN
    /\ fault = "none"

(* The three together are IInv. *)
LEMMA IInvCases == IInv => Running \/ Over \/ Waiting
<1>1. ASSUME IInv, phase = "run" PROVE Running
  BY ZenonT(40), <1>1 DEF IInv, TypeOK, SegmentInside, ShadowInSync, SegmentTracked, MovedValueKept, Running
<1>2. ASSUME IInv, phase = "idle" PROVE Waiting
  BY ZenonT(40), <1>2 DEF IInv, TypeOK, Untouched, Waiting
<1>3. ASSUME IInv, phase \in Terminal PROVE Over
  BY ZenonT(40), <1>3 DEF IInv, TypeOK, Over
<1>4. QED
  BY ZenonT(40), <1>1, <1>2, <1>3 DEF IInv, TypeOK

(* A state in which the Simulator runs satisfies IInv. *)
LEMMA RunningIInv == Running' => IInv'
BY ZenonT(40) DEF IInv, TypeOK, SegmentInside, ShadowInSync, SegmentTracked, MovedValueKept, Running,
       Untouched, SameExceptMoved

(* So does one in which the trial has ended. *)
LEMMA OverIInv == Over' => IInv'
BY ZenonT(40) DEF IInv, TypeOK, SegmentInside, ShadowInSync, SegmentTracked, MovedValueKept, Over,
       Untouched, SameExceptMoved, Terminal

(* No body at all. *)
LEMMA NoBodies == Bodies(<<>>)
BY DEF Bodies

(* Giving a rewrite up. *)
LEMMA RejectInv ==
    ASSUME Running \/ Waiting, Reject PROVE Over'
<1>1. /\ phase' = "rejected" /\ kind' = kind /\ real' = real /\ depth' = depth
      /\ shadow' = shadow /\ sdepth' = sdepth /\ home' = home /\ fault' = fault
      /\ size' = size /\ seg' = seg /\ noDrop' = noDrop /\ frames' = frames
      /\ reads' = reads /\ val' = val /\ glob' = glob /\ globSet' = globSet
      /\ wasCall' = wasCall
  BY ZenonT(40) DEF Reject, stackVars, simVars, globVars
<1>2. Bodies(frames)
  BY ZenonT(40), NoBodies DEF Running, Waiting
<1>3. Stacks(real, depth, shadow, sdepth, home)
  BY ZenonT(40) DEF Running, Waiting
<1>4. QED
  BY ZenonT(40), <1>1, <1>2, <1>3 DEF Running, Waiting, Over, Terminal, SameExceptMoved

(* A step inside a body or outside all of them, after which the Simulator  *)
(* goes on.                                                                *)
LEMMA GoesOn ==
    ASSUME Running, phase' = "run", frames' = frames, fault' = fault,
           kind' = kind, seg' = seg, reads' = reads, val' = val,
           Stacks(real', depth', shadow', sdepth', home'),
           size' \in Int, Segment(depth', size', seg),
           InSync(kind, real', depth', shadow', sdepth', size', seg),
           Kept(real, size, real', size', seg), Kept(home, size, home', size', seg),
           noDrop' \in BOOLEAN, glob' \in Val, globSet' \in BOOLEAN, wasCall' \in BOOLEAN,
           reads = "glob" /\ ~globSet' /\ ~wasCall' /\ ~SilentCalls =>
               ~globSet /\ ~wasCall /\ glob' = glob
    PROVE  Running'
<1>1. ASSUME ~InLeave' PROVE Tracked(frames', home', size', seg')
  <2>1. ~InLeave
    BY ZenonT(40), <1>1 DEF InLeave, Top
  <2>2. Tracked(frames, home, size, seg) /\ Bodies(frames) /\ size \in Int /\ seg \in Nat
    BY ZenonT(40), <2>1 DEF Running
  <2>3. Tracked(frames, home', size', seg)
    BY ZenonT(40), <2>2, TrackedKept
  <2>4. QED
    BY ZenonT(40), <2>3
<1>2. ASSUME kind = "move" PROVE seg = 1 /\ real'[size' - 1] = val
  <2>1. seg = 1 /\ real[size - 1] = val /\ size \in Int
    BY ZenonT(40), <1>2 DEF Running
  <2>2. QED
    BY <2>1, KeptOne
<1>3. QED
  BY ZenonT(40), <1>1, <1>2 DEF Running

(* What the original program executes can be executed. *)
LEMMA ExecutableOp ==
    ASSUME Running \/ Waiting, NEW op, op \in Executable[depth]
    PROVE  /\ op \in Indexed(MaxDepth) /\ UpperBounds(op)
           /\ Need(op) <= depth /\ depth + Delta(op) <= MaxDepth
<1>1. depth \in 0..MaxDepth
  BY ZenonT(40) DEF Running, Waiting, Stacks, IsStack
<1>2. QED
  BY ZenonT(40), <1>1 DEF Executable, StackOps

(* What VisitStack says of an instruction is right. *)
LEMMA VisitRight ==
    ASSUME Running, NEW op \in Indexed(MaxDepth), Need(op) <= depth
    PROVE  LET o == VisitStack(op, size, seg) IN
           /\ IsRight(op, depth, o, size, seg)
           /\ o.size \in Int
           /\ o.verdict \in {"go", "unable", "dropped", "set", "moved"}
           /\ o.verdict = "set" => seg = 1 /\ size >= 2 /\ op = POP_S(size - 1)
           /\ o.verdict = "moved" => seg = 1 /\ size >= 2 /\ op = BLKSWAP(1, size - 1)
<1>1. /\ MaxDepth \in Nat /\ depth \in Nat /\ size \in Nat /\ seg \in Nat
      /\ 1 <= seg /\ seg <= size /\ size <= depth
  BY BoundsAssumption DEF Running, Stacks, IsStack, Segment
<1>2. QED
  BY ZenonT(40), <1>1, VisitStackIsRight, OutcomeFacts

(* What is executed instead of an instruction has indices that its         *)
(* constructor accepts.                                                    *)
LEMMA EmittedUpperBounds ==
    ASSUME Running, NEW op \in Indexed(MaxDepth), UpperBounds(op), NEW e,
           e = op \/ e = VisitStack(op, size, seg).emit
    PROVE  UpperBounds(e)
<1>1. MaxDepth \in Nat /\ size \in Nat /\ seg \in Nat
  BY SMTT(40), BoundsAssumption DEF Running, Stacks, IsStack, Segment
<1>2. QED
  BY ZenonT(40), <1>1, EmitUpperBounds

(* The Simulator has converted op: both programs execute it. *)
LEMMA LockstepGo ==
    ASSUME Running, NEW op, op \in Indexed(MaxDepth), Need(op) <= depth,
           depth + Delta(op) <= MaxDepth, NEW e, NEW m1, UpperBounds(e),
           Spares(op, depth, m1, size, seg),
           kind \in KeepsCode => e = op,
           kind \notin KeepsCode => Commutes(op, depth, e, m1, size, seg),
           Lockstep(op, e)
    PROVE  /\ Stacks(real', depth', shadow', sdepth', home') /\ fault' = fault
           /\ Segment(depth', m1, seg)
           /\ InSync(kind, real', depth', shadow', sdepth', m1, seg)
           /\ Kept(real, size, real', m1, seg) /\ Kept(home, size, home', m1, seg)
<1>1. /\ Stacks(real, depth, shadow, sdepth, home) /\ size \in Int /\ seg \in Nat
      /\ Segment(depth, size, seg) /\ InSync(kind, real, depth, shadow, sdepth, size, seg)
  BY ZenonT(40) DEF Running
<1>2. /\ IsStack(Exec(op, real, depth), depth + Delta(op))
      /\ IsLabelling(Relabel(op, home, depth), depth + Delta(op))
      /\ Segment(depth + Delta(op), m1, seg)
      /\ Kept(real, size, Exec(op, real, depth), m1, seg)
      /\ Kept(home, size, Relabel(op, home, depth), m1, seg)
  BY ZenonT(40), <1>1, SparesReal
<1>3. /\ LowerBounds(e) /\ Need(e) <= sdepth
      /\ IsStack(Exec(e, shadow, sdepth), sdepth + Delta(e))
      /\ InSync(kind, Exec(op, real, depth), depth + Delta(op),
                Exec(e, shadow, sdepth), sdepth + Delta(e), m1, seg)
  <2>1. CASE kind \in KeepsCode
    <3>1. KeepInSync(real, depth, shadow, sdepth, size, seg) /\ e = op
      BY ZenonT(40), <1>1, <2>1 DEF InSync
    <3>2. /\ LowerBounds(op) /\ Need(op) <= sdepth
          /\ IsStack(Exec(op, shadow, sdepth), sdepth + Delta(op))
          /\ KeepInSync(Exec(op, real, depth), depth + Delta(op),
                        Exec(op, shadow, sdepth), sdepth + Delta(op), m1, seg)
      BY ZenonT(40), <1>1, <3>1, SparesShadow
    <3>3. QED
      BY ZenonT(40), <2>1, <3>1, <3>2 DEF InSync
  <2>2. CASE kind \notin KeepsCode
    <3>1. CutInSync(real, depth, shadow, sdepth, size, seg)
      BY ZenonT(40), <1>1, <2>2 DEF InSync
    <3>2. /\ LowerBounds(e) /\ Need(e) <= sdepth
          /\ IsStack(Exec(e, shadow, sdepth), sdepth + Delta(e))
          /\ CutInSync(Exec(op, real, depth), depth + Delta(op),
                       Exec(e, shadow, sdepth), sdepth + Delta(e), m1, seg)
      BY ZenonT(40), <1>1, <2>2, <3>1, CommutesShadow
    <3>3. QED
      BY ZenonT(40), <2>2, <3>2 DEF InSync
  <2>3. QED
    BY ZenonT(40), <2>1, <2>2
<1>4. /\ real' = Exec(op, real, depth) /\ depth' = depth + Delta(op)
      /\ home' = Relabel(op, home, depth)
      /\ shadow' = Exec(e, shadow, sdepth) /\ sdepth' = sdepth + Delta(e) /\ fault' = fault
  BY ZenonT(40), <1>3 DEF Lockstep, Relabel, WellFormed
<1>5. QED
  BY ZenonT(40), <1>2, <1>3, <1>4 DEF Stacks

(* op drops the segment, and both programs have the same stack after it. *)
LEMMA LockstepDropped ==
    ASSUME Running, NEW op, op \in Indexed(MaxDepth), Need(op) <= depth,
           depth + Delta(op) <= MaxDepth, NEW e, NEW e1, UpperBounds(e),
           Drops(op, depth, e1, size, seg),
           kind \in KeepsCode => e = op, kind \notin KeepsCode => e = e1,
           Lockstep(op, e)
    PROVE  /\ Stacks(real', depth', shadow', sdepth', home') /\ fault' = fault
           /\ sdepth' = depth' /\ shadow' = real'
<1>1. /\ Stacks(real, depth, shadow, sdepth, home) /\ size \in Int /\ seg \in Nat
      /\ Segment(depth, size, seg) /\ InSync(kind, real, depth, shadow, sdepth, size, seg)
  BY ZenonT(40) DEF Running
<1>2. /\ IsStack(Exec(op, real, depth), depth + Delta(op))
      /\ IsLabelling(Relabel(op, home, depth), depth + Delta(op))
  BY ZenonT(40), <1>1, RealType
<1>3. /\ LowerBounds(e) /\ Need(e) <= sdepth /\ sdepth + Delta(e) = depth + Delta(op)
      /\ Exec(e, shadow, sdepth) = Exec(op, real, depth)
  <2>1. CASE kind \in KeepsCode
    <3>1. KeepInSync(real, depth, shadow, sdepth, size, seg) /\ e = op
      BY ZenonT(40), <1>1, <2>1 DEF InSync
    <3>2. QED
      BY SMTT(40), <1>1, <3>1, DropsKeep
  <2>2. CASE kind \notin KeepsCode
    <3>1. CutInSync(real, depth, shadow, sdepth, size, seg) /\ e = e1
      BY ZenonT(40), <1>1, <2>2 DEF InSync
    <3>2. QED
      BY SMTT(40), <1>1, <3>1, DropsCut
  <2>3. QED
    BY ZenonT(40), <2>1, <2>2
<1>4. /\ real' = Exec(op, real, depth) /\ depth' = depth + Delta(op)
      /\ home' = Relabel(op, home, depth)
      /\ shadow' = Exec(e, shadow, sdepth) /\ sdepth' = sdepth + Delta(e) /\ fault' = fault
  BY ZenonT(40), <1>3 DEF Lockstep, Relabel, WellFormed
<1>5. QED
  BY ZenonT(40), <1>2, <1>3, <1>4 DEF Stacks

(* A trial that ends with equal stacks. *)
LEMMA EndsSame ==
    ASSUME Running, phase' \in Terminal, frames' = frames, fault' = fault,
           kind' = kind, seg' = seg, reads' = reads, val' = val,
           Stacks(real', depth', shadow', sdepth', home'),
           phase' \in {"committed", "left"} => sdepth' = depth' /\ shadow' = real',
           size' \in Int, noDrop' \in BOOLEAN, glob' \in Val, globSet' \in BOOLEAN,
           wasCall' \in BOOLEAN
    PROVE  Over'
BY ZenonT(40) DEF Running, Over, SameExceptMoved

(* What StepStack does when the Simulator does not give up. *)
StepOn(op) ==
    LET o == VisitStack(op, size, seg)
        e == IF kind \in KeepsCode THEN op ELSE o.emit
    IN  /\ Lockstep(op, e)
        /\ size' = o.size /\ noDrop' = FALSE
        /\ UNCHANGED <<simVars, globVars, frames>>

(* StepStack, an instruction that is converted. *)
LEMMA StepStackGo ==
    ASSUME Running, NEW op, op \in Executable[depth], StepOn(op),
           VisitStack(op, size, seg).verdict = "go", phase' = "run"
    PROVE  Running'
<1> DEFINE o == VisitStack(op, size, seg)
           e == IF kind \in KeepsCode THEN op ELSE o.emit
<1>1. /\ op \in Indexed(MaxDepth) /\ UpperBounds(op)
      /\ Need(op) <= depth /\ depth + Delta(op) <= MaxDepth
  BY ZenonT(40), ExecutableOp
<1>2. /\ o.size \in Int /\ Spares(op, depth, o.size, size, seg)
      /\ Commutes(op, depth, o.emit, o.size, size, seg)
  BY ZenonT(40), <1>1, VisitRight DEF IsRight
<1>3. /\ Lockstep(op, e) /\ size' = o.size /\ noDrop' = FALSE
      /\ kind' = kind /\ seg' = seg /\ reads' = reads /\ val' = val
      /\ glob' = glob /\ globSet' = globSet /\ wasCall' = wasCall /\ frames' = frames
  BY ZenonT(40) DEF StepOn, simVars, globVars
<1>4. /\ kind \in KeepsCode => e = op
      /\ kind \notin KeepsCode => Commutes(op, depth, e, o.size, size, seg)
      /\ UpperBounds(e)
  BY ZenonT(40), <1>1, <1>2, EmittedUpperBounds
<1> HIDE DEF o, e
<1>5. /\ Stacks(real', depth', shadow', sdepth', home') /\ fault' = fault
      /\ Segment(depth', o.size, seg)
      /\ InSync(kind, real', depth', shadow', sdepth', o.size, seg)
      /\ Kept(real, size, real', o.size, seg) /\ Kept(home, size, home', o.size, seg)
  BY ZenonT(40), <1>1, <1>2, <1>3, <1>4, LockstepGo
<1>6. glob \in Val /\ globSet \in BOOLEAN /\ wasCall \in BOOLEAN
  BY ZenonT(40) DEF Running
<1>7. QED
  BY ZenonT(40), <1>2, <1>3, <1>5, <1>6, GoesOn

(* StepStack, an instruction that drops the segment. *)
LEMMA StepStackDropped ==
    ASSUME Running, NEW op, op \in Executable[depth], StepOn(op),
           VisitStack(op, size, seg).verdict = "dropped", phase' \in Terminal
    PROVE  Over'
<1> DEFINE o == VisitStack(op, size, seg)
           e == IF kind \in KeepsCode THEN op ELSE o.emit
<1>1. /\ op \in Indexed(MaxDepth) /\ UpperBounds(op)
      /\ Need(op) <= depth /\ depth + Delta(op) <= MaxDepth
  BY ZenonT(40), ExecutableOp
<1>2. o.size \in Int /\ Drops(op, depth, o.emit, size, seg)
  BY ZenonT(40), <1>1, VisitRight DEF IsRight
<1>3. /\ Lockstep(op, e) /\ size' = o.size /\ noDrop' = FALSE
      /\ kind' = kind /\ seg' = seg /\ reads' = reads /\ val' = val
      /\ glob' = glob /\ globSet' = globSet /\ wasCall' = wasCall /\ frames' = frames
  BY ZenonT(40) DEF StepOn, simVars, globVars
<1>4. /\ (kind \in KeepsCode => e = op) /\ (kind \notin KeepsCode => e = o.emit)
      /\ UpperBounds(e)
  BY ZenonT(40), <1>1, EmittedUpperBounds
<1> HIDE DEF o, e
<1>5. /\ Stacks(real', depth', shadow', sdepth', home') /\ fault' = fault
      /\ sdepth' = depth' /\ shadow' = real'
  BY ZenonT(40), <1>1, <1>2, <1>3, <1>4, LockstepDropped
<1>6. glob \in Val /\ globSet \in BOOLEAN /\ wasCall \in BOOLEAN
  BY ZenonT(40) DEF Running
<1>7. QED
  BY ZenonT(40), <1>2, <1>3, <1>5, <1>6, EndsSame

(* StepStack, POP_S of the slot in which the stacks differ. *)
LEMMA StepStackSet ==
    ASSUME Running, NEW op, op \in Executable[depth], StepOn(op),
           VisitStack(op, size, seg).verdict = "set", kind = "popToDrop", phase' \in Terminal
    PROVE  Over'
<1> DEFINE o == VisitStack(op, size, seg)
<1>1. /\ op \in Indexed(MaxDepth) /\ UpperBounds(op)
      /\ Need(op) <= depth /\ depth + Delta(op) <= MaxDepth
  BY ZenonT(40), ExecutableOp
<1>2. o.size \in Int /\ seg = 1 /\ size >= 2 /\ op = POP_S(size - 1)
  BY ZenonT(40), <1>1, VisitRight
<1>3. /\ Lockstep(op, op) /\ size' = o.size /\ noDrop' = FALSE
      /\ kind' = kind /\ seg' = seg /\ reads' = reads /\ val' = val
      /\ glob' = glob /\ globSet' = globSet /\ wasCall' = wasCall /\ frames' = frames
  BY ZenonT(40) DEF StepOn, simVars, globVars, KeepsCode
<1> HIDE DEF o
<1>4. /\ Stacks(real, depth, shadow, sdepth, home) /\ size \in Int
      /\ KeepInSync(real, depth, shadow, sdepth, size, 1)
  BY ZenonT(40), <1>2 DEF Running, InSync, KeepsCode
<1>5. /\ IsStack(Exec(op, real, depth), depth + Delta(op))
      /\ IsLabelling(Relabel(op, home, depth), depth + Delta(op))
  BY ZenonT(40), <1>1, <1>4, RealType
<1>6. /\ LowerBounds(op) /\ sdepth = depth /\ Exec(op, shadow, sdepth) = Exec(op, real, depth)
  BY SMTT(40), <1>1, <1>2, <1>4, SetKeep
<1>7. /\ real' = Exec(op, real, depth) /\ depth' = depth + Delta(op)
      /\ home' = Relabel(op, home, depth)
      /\ shadow' = Exec(op, real, depth) /\ sdepth' = depth + Delta(op) /\ fault' = fault
  BY ZenonT(40), <1>1, <1>3, <1>6 DEF Lockstep, Relabel, WellFormed
<1>8. /\ Stacks(real', depth', shadow', sdepth', home') /\ fault' = fault
      /\ sdepth' = depth' /\ shadow' = real'
  BY ZenonT(40), <1>5, <1>7 DEF Stacks
<1>9. glob \in Val /\ globSet \in BOOLEAN /\ wasCall \in BOOLEAN
  BY ZenonT(40) DEF Running
<1>10. QED
  BY ZenonT(40), <1>2, <1>3, <1>8, <1>9, EndsSame

(* StepStack, the place where a moved instruction goes. *)
LEMMA StepStackMoved ==
    ASSUME Running, NEW op, op \in Executable[depth],
           VisitStack(op, size, seg).verdict = "moved", kind = "move", MoveIsGood,
           CommitMove(op)
    PROVE  Over'
<1> DEFINE v == IF reads = "nothing" THEN val ELSE glob
           new == [x \in {0} |-> v]
<1>1. /\ op \in Indexed(MaxDepth) /\ UpperBounds(op)
      /\ Need(op) <= depth /\ depth + Delta(op) <= MaxDepth
  BY ZenonT(40), ExecutableOp
<1>2. seg = 1 /\ size >= 2 /\ op = BLKSWAP(1, size - 1)
  BY ZenonT(40), <1>1, VisitRight
<1>3. /\ Stacks(real, depth, shadow, sdepth, home) /\ size \in Int /\ size <= depth
      /\ CutInSync(real, depth, shadow, sdepth, size, 1) /\ v \in Val /\ new[0] = v /\ real[size - 1] = val
  BY ZenonT(40), <1>2 DEF Running, InSync, KeepsCode, Segment
<1>4. reads = "glob" /\ ~SilentCalls => v = val
  BY ZenonT(40) DEF Running, MoveIsGood
<1>5. /\ phase' = "committed" /\ real' = Exec(op, real, depth)
      /\ shadow' = Replace(shadow, sdepth, 0, new, 1)
      /\ sdepth' = sdepth + 1 /\ depth' = depth /\ home' = home /\ fault' = fault
      /\ size' = size /\ noDrop' = noDrop
      /\ kind' = kind /\ seg' = seg /\ reads' = reads /\ val' = val
      /\ glob' = glob /\ globSet' = globSet /\ wasCall' = wasCall /\ frames' = frames
  BY ZenonT(40) DEF CommitMove, simVars, globVars
<1>6. reads = "nothing" => v = val
  BY ZenonT(40)
<1> HIDE DEF v, new
<1>7. /\ sdepth + 1 = depth
      /\ IsStack(Exec(op, real, depth), depth)
      /\ IsStack(Replace(shadow, sdepth, 0, new, 1), depth)
      /\ Exec(op, real, depth)[0] = real[size - 1]
      /\ Replace(shadow, sdepth, 0, new, 1)[0] = new[0]
      /\ SameBelow(Exec(op, real, depth),
                   Replace(shadow, sdepth, 0, new, 1), depth)
  BY SMTT(40), <1>2, <1>3, CommitMoveStacks
<1>8. /\ IsStack(real', depth') /\ IsStack(shadow', sdepth') /\ IsLabelling(home', depth')
      /\ sdepth' = depth'
  BY ZenonT(40), <1>3, <1>5, <1>7 DEF Stacks
<1>9. real'[0] = val /\ shadow'[0] = v
  BY ZenonT(40), <1>3, <1>5, <1>7
<1>10. SameBelow(real', shadow', depth') /\ depth' \in Nat
  BY SMTT(40), <1>5, <1>7, <1>8, BoundsAssumption DEF IsStack
<1>11. \A x \in 0..(depth' - 1) :
         \/ shadow'[x] = real'[x]
         \/ x = 0 /\ (reads = "seed" \/ (SilentCalls /\ reads = "glob"))
  <2>1. \A x \in 0..(depth' - 1) : x = 0 \/ shadow'[x] = real'[x]
    BY ZenonT(40), <1>10, TopOrBelow
  <2>2. QED
    BY ZenonT(40), <1>4, <1>6, <1>9, <2>1 DEF Running, Reads
<1>12. QED
  BY ZenonT(40), <1>5, <1>8, <1>9, <1>11 DEF Running, Over, Stacks, SameExceptMoved, Terminal

(* Simulator::run over one stack instruction. *)
LEMMA StepStackInv ==
    ASSUME Running, NEW op, op \in Executable[depth], StepStack(op)
    PROVE  IInv'
<1> DEFINE o == VisitStack(op, size, seg)
<1>1. CASE Reject
  BY ZenonT(40), <1>1, RejectInv, OverIInv
<1>2. CASE o.verdict = "go" /\ phase' = "run" /\ StepOn(op)
  BY ZenonT(40), <1>2, StepStackGo, RunningIInv
<1>3. CASE o.verdict = "dropped" /\ AfterDrop # "rejected" /\ phase' = AfterDrop /\ StepOn(op)
  <2>1. phase' \in Terminal
    BY ZenonT(40), <1>3 DEF AfterDrop, Terminal
  <2>2. QED
    BY ZenonT(40), <1>3, <2>1, StepStackDropped, OverIInv
<1>4. CASE o.verdict = "set" /\ AfterSet # "rejected" /\ phase' = AfterSet /\ StepOn(op)
  <2>1. phase' \in Terminal /\ kind = "popToDrop"
    BY ZenonT(40), <1>4 DEF AfterSet, Terminal
  <2>2. QED
    BY ZenonT(40), <1>4, <2>1, StepStackSet, OverIInv
<1>5. CASE o.verdict = "moved" /\ kind = "move" /\ MoveIsGood /\ CommitMove(op)
  BY ZenonT(40), <1>5, StepStackMoved, OverIInv
<1>6. QED
  BY ZenonT(40), <1>1, <1>2, <1>3, <1>4, <1>5 DEF StepStack, StepOn

(* POP n; DROP n-1 leaves a stack of the type. *)
LEMMA PopAndDropType ==
    ASSUME NEW r, NEW d, NEW n \in Nat, 2 <= n, Need(POP_S(n)) <= d, IsStack(r, d)
    PROVE  /\ n + 1 <= d
           /\ IsStack(Exec(DROP(n - 1), Exec(POP_S(n), r, d), d - 1), d - 1 - (n - 1))
           /\ IsLabelling(Zeros(d - 1 - (n - 1)), d - 1 - (n - 1))
<1> DEFINE r1 == Exec(DROP(n - 1), Exec(POP_S(n), r, d), d - 1)
<1>1. d \in Nat /\ d \in 0..MaxDepth /\ r \in [0..(d - 1) -> Val] /\ MaxDepth \in Nat
  BY SMTT(40), BoundsAssumption DEF IsStack
<1>2. n + 1 <= d
  BY ZenonT(40), <1>1 DEF Need, POP_S, StackOp
<1>3. r1 \in [0..(d - n - 1) -> Val]
  BY ZenonT(40), <1>1, <1>2, PopAndDropExec
<1> HIDE DEF r1
<1>4. d - 1 - (n - 1) = d - n /\ d - n \in 0..MaxDepth
  BY <1>1, <1>2
<1>5. IsStack(r1, d - n)
  BY ZenonT(40), <1>1, <1>3, <1>4 DEF IsStack
<1>6. IsLabelling(Zeros(d - n), d - n)
  BY <1>1 DEF IsLabelling, Zeros
<1>7. QED
  BY ZenonT(40), <1>2, <1>4, <1>5, <1>6 DEF r1

(* POP n; DROP n-1, which Simulator::run takes as one instruction. *)
LEMMA StepPopAndDropInv ==
    ASSUME Running, NEW n \in 2..MaxDepth, StepPopAndDrop(n)
    PROVE  IInv'
<1> DEFINE r1 == Exec(DROP(n - 1), Exec(POP_S(n), real, depth), depth - 1)
           d1 == depth - 1 - (n - 1)
<1>1. /\ n \in Nat /\ 2 <= n /\ Stacks(real, depth, shadow, sdepth, home) /\ size \in Int
      /\ InSync(kind, real, depth, shadow, sdepth, size, seg)
  BY DEF Running
<1>2. Need(POP_S(n)) <= depth /\ seg = 1 /\ n = size - 1
  BY ZenonT(40), <1>1 DEF StepPopAndDrop, isPopAndDrop
<1>3. CASE AfterDrop = "rejected" /\ Reject
  BY ZenonT(40), <1>3, RejectInv, OverIInv
<1>4. CASE ~(AfterDrop = "rejected" /\ Reject)
  <2>1. /\ AfterDrop # "rejected" /\ phase' = AfterDrop
        /\ real' = r1 /\ depth' = d1 /\ home' = Zeros(d1)
        /\ fault' = fault /\ size' = size /\ noDrop' = FALSE
        /\ kind' = kind /\ seg' = seg /\ reads' = reads /\ val' = val
        /\ glob' = glob /\ globSet' = globSet /\ wasCall' = wasCall /\ frames' = frames
    BY ZenonT(40), <1>4 DEF StepPopAndDrop, simVars, globVars
  <2>2. /\ kind \in KeepsCode =>
             /\ shadow' = Exec(DROP(n - 1), Exec(POP_S(n), shadow, sdepth), sdepth - 1)
             /\ sdepth' = sdepth - 1 - (n - 1)
        /\ kind \notin KeepsCode =>
             /\ shadow' = Exec(makeBLKDROP2(n - 1, 1), shadow, sdepth)
             /\ sdepth' = sdepth + Delta(makeBLKDROP2(n - 1, 1))
    BY ZenonT(40), <1>4 DEF StepPopAndDrop, ShadowExec
  <2>3. n + 1 <= depth /\ IsStack(r1, d1) /\ IsLabelling(Zeros(d1), d1)
    BY ZenonT(40), <1>1, <1>2, PopAndDropType DEF Stacks
  <2>4. shadow' = r1 /\ sdepth' = d1
    <3>1. CASE kind \in KeepsCode
      <4>1. KeepInSync(real, depth, shadow, sdepth, size, 1)
        BY ZenonT(40), <1>1, <1>2, <3>1 DEF InSync
      <4>2. QED
        BY SMTT(40), <1>1, <1>2, <2>2, <2>3, <3>1, <4>1, PopAndDropKeep
    <3>2. CASE kind \notin KeepsCode
      <4>1. CutInSync(real, depth, shadow, sdepth, size, 1)
        BY ZenonT(40), <1>1, <1>2, <3>2 DEF InSync
      <4>2. QED
        BY SMTT(40), <1>1, <1>2, <2>2, <2>3, <3>2, <4>1, PopAndDropCut
    <3>3. QED
      BY ZenonT(40), <3>1, <3>2
  <2> HIDE DEF r1, d1
  <2>5. phase' \in Terminal
    BY ZenonT(40), <2>1 DEF AfterDrop, Terminal
  <2>6. Stacks(real', depth', shadow', sdepth', home') /\ shadow' = real' /\ sdepth' = depth'
    BY ZenonT(40), <2>1, <2>3, <2>4 DEF Stacks
  <2>7. glob \in Val /\ globSet \in BOOLEAN /\ wasCall \in BOOLEAN
    BY ZenonT(40) DEF Running
  <2>8. QED
    BY ZenonT(40), <1>1, <2>1, <2>5, <2>6, <2>7, EndsSame, OverIInv
<1>5. QED
  BY ZenonT(40), <1>3, <1>4

(* Instructions that take t values above the segment and push n. *)
LEMMA PopPushGo ==
    ASSUME Running, NEW t \in Nat, NEW n \in Nat, t <= rest(size, seg),
           NEW new, \A x \in 0..(n - 1) : new[x] \in Val,
           NEW z, \A x \in 0..(n - 1) : z[x] \in 0..MaxDepth,
           PopPush(t, new, n), home' = Replace(home, depth, t, z, n)
    PROVE  /\ Stacks(real', depth', shadow', sdepth', home') /\ fault' = fault
           /\ size - t + n \in Int /\ Segment(depth', size - t + n, seg)
           /\ InSync(kind, real', depth', shadow', sdepth', size - t + n, seg)
           /\ Kept(real, size, real', size - t + n, seg)
           /\ Kept(home, size, home', size - t + n, seg)
<1>1. /\ Stacks(real, depth, shadow, sdepth, home) /\ size \in Int /\ seg \in Nat
      /\ Segment(depth, size, seg) /\ InSync(kind, real, depth, shadow, sdepth, size, seg)
  BY ZenonT(40) DEF Running
<1>2. t <= size - seg /\ depth - t + n <= MaxDepth
  BY ZenonT(40) DEF PopPush, rest
<1>3. /\ IsStack(Replace(real, depth, t, new, n), depth - t + n)
      /\ IsLabelling(Replace(home, depth, t, z, n), depth - t + n)
      /\ size - t + n \in Int /\ Segment(depth - t + n, size - t + n, seg)
      /\ Kept(real, size, Replace(real, depth, t, new, n), size - t + n, seg)
      /\ Kept(home, size, Replace(home, depth, t, z, n), size - t + n, seg)
  BY ZenonT(40), <1>1, <1>2, PopPushReal
<1>4. /\ t <= sdepth /\ \A x \in 0..(t - 1) : real[x] = shadow[x]
      /\ IsStack(Replace(shadow, sdepth, t, new, n), sdepth - t + n)
      /\ InSync(kind, Replace(real, depth, t, new, n), depth - t + n,
                Replace(shadow, sdepth, t, new, n), sdepth - t + n, size - t + n, seg)
  BY ZenonT(40), <1>1, <1>2, PopPushShadow
<1>5. /\ real' = Replace(real, depth, t, new, n) /\ depth' = depth - t + n
      /\ shadow' = Replace(shadow, sdepth, t, new, n) /\ sdepth' = sdepth - t + n
      /\ fault' = fault
  BY ZenonT(40), <1>4 DEF PopPush
<1>6. QED
  BY ZenonT(40), <1>3, <1>4, <1>5 DEF Stacks

(* A run of the Simulator over an instruction that it copies. *)
LEMMA GenGoRuns ==
    ASSUME Running, NEW t \in Nat, NEW n \in Nat, GenGo(t, n),
           glob' \in Val, globSet' \in BOOLEAN, wasCall' \in BOOLEAN,
           reads = "glob" /\ ~globSet' /\ ~wasCall' /\ ~SilentCalls =>
               ~globSet /\ ~wasCall /\ glob' = glob
    PROVE  Running'
<1> DEFINE o == VisitGen(t, n, size, seg)
<1>1. t <= rest(size, seg) /\ o.size = size - t + n
  <2>1. o.verdict = "go" /\ size \in Int /\ seg \in Nat
    BY ZenonT(40) DEF GenGo, Running
  <2>2. QED
    BY <2>1 DEF VisitGen, Unable, Go, Outcome, rest
<1>2. /\ phase' = "run" /\ home' = Replace(home, depth, t, Zeros(n), n)
      /\ size' = o.size /\ noDrop' = FALSE /\ frames' = frames
      /\ kind' = kind /\ seg' = seg /\ reads' = reads /\ val' = val
  BY ZenonT(40) DEF GenGo, simVars
<1> HIDE DEF o
<1>3. PICK new \in [0..(n - 1) -> Val] : PopPush(t, new, n)
  BY ZenonT(40) DEF GenGo
<1>4. \A x \in 0..(n - 1) : new[x] \in Val
  BY ZenonT(40), <1>3
<1>5. \A x \in 0..(n - 1) : Zeros(n)[x] \in 0..MaxDepth
  BY SMTT(40), BoundsAssumption DEF Zeros
<1>6. /\ Stacks(real', depth', shadow', sdepth', home') /\ fault' = fault
      /\ size - t + n \in Int /\ Segment(depth', size - t + n, seg)
      /\ InSync(kind, real', depth', shadow', sdepth', size - t + n, seg)
      /\ Kept(real, size, real', size - t + n, seg)
      /\ Kept(home, size, home', size - t + n, seg)
  BY ZenonT(40), <1>1, <1>2, <1>3, <1>4, <1>5, PopPushGo
<1>7. QED
  BY ZenonT(40), <1>1, <1>2, <1>6, GoesOn

(* Instructions the Simulator copies: VisitPlain, VisitCall, VisitExecute, *)
(* VisitRand, VisitSetGlob.                                                *)
LEMMA VisitGenInv ==
    ASSUME Running, NEW t \in Nat, NEW n \in Nat,
           VisitPlain(t, n) \/ VisitCall(t, n) \/ VisitExecute(t, n)
             \/ VisitRand(t, n) \/ (VisitSetGlob /\ t = 1 /\ n = 0)
    PROVE  IInv'
<1>1. glob \in Val /\ globSet \in BOOLEAN /\ wasCall \in BOOLEAN
  BY ZenonT(40) DEF Running
<1>2. CASE GenUnable(t, n)
  BY ZenonT(40), <1>2, RejectInv, OverIInv DEF GenUnable
<1>3. CASE GenGo(t, n) /\ UNCHANGED globVars
  <2>1. glob' = glob /\ globSet' = globSet /\ wasCall' = wasCall
    BY ZenonT(40), <1>3 DEF globVars
  <2>2. QED
    BY ZenonT(40), <1>1, <1>3, <2>1, GenGoRuns, RunningIInv
<1>4. CASE GenGo(t, n) /\ glob' \in Val /\ wasCall' = TRUE /\ globSet' = globSet
  BY ZenonT(40), <1>1, <1>4, GenGoRuns, RunningIInv
<1>5. CASE SilentCalls /\ GenGo(t, n) /\ glob' \in Val /\ wasCall' = wasCall /\ globSet' = globSet
  BY ZenonT(40), <1>1, <1>5, GenGoRuns, RunningIInv
<1>6. CASE reads = "seed" /\ GenGo(t, n) /\ glob' \in Val /\ wasCall' = wasCall /\ globSet' = globSet
  <2>1. reads # "glob"
    BY ZenonT(40), <1>6
  <2>2. QED
    BY ZenonT(40), <1>1, <1>6, <2>1, GenGoRuns, RunningIInv
<1>7. CASE GenGo(t, n) /\ t = 1 /\ n = 0 /\ glob' = real[0] /\ globSet' = TRUE /\ wasCall' = wasCall
  <2>1. real[0] \in Val
    <3>1. 1 <= depth /\ depth \in Int /\ real \in [0..(depth - 1) -> Val]
      BY SMTT(40), BoundsAssumption DEF Running, Stacks, IsStack, Segment
    <3>2. QED
      BY SMTT(40), <3>1
  <2>2. QED
    BY ZenonT(40), <1>1, <1>7, <2>1, GenGoRuns, RunningIInv
<1>8. QED
  BY ZenonT(40), <1>2, <1>3, <1>4, <1>5, <1>6, <1>7
     DEF VisitPlain, VisitCall, VisitExecute, VisitRand, VisitSetGlob

(* GETGLOB of the global variable, or RANDSEED. *)
LEMMA VisitGetGlobInv ==
    ASSUME Running, VisitGetGlob
    PROVE  IInv'
<1> DEFINE new == [x \in {0} |-> glob]
<1>1. /\ phase' = "run" /\ PopPush(0, new, 1) /\ home' = Replace(home, depth, 0, Zeros(1), 1)
      /\ size' = size + 1 /\ noDrop' = FALSE /\ frames' = frames
      /\ kind' = kind /\ seg' = seg /\ reads' = reads /\ val' = val
      /\ glob' = glob /\ globSet' = globSet /\ wasCall' = wasCall
  BY ZenonT(40) DEF VisitGetGlob, simVars, globVars
<1>2. /\ glob \in Val /\ globSet \in BOOLEAN /\ wasCall \in BOOLEAN /\ size \in Int
      /\ seg \in Nat /\ 0 <= rest(size, seg)
  BY DEF Running, Segment, rest
<1>3. \A x \in 0..(1 - 1) : new[x] \in Val
  BY <1>2
<1>4. \A x \in 0..(1 - 1) : Zeros(1)[x] \in 0..MaxDepth
  BY SMTT(40), BoundsAssumption DEF Zeros
<1> HIDE DEF new
<1>5. /\ Stacks(real', depth', shadow', sdepth', home') /\ fault' = fault
      /\ size - 0 + 1 \in Int /\ Segment(depth', size - 0 + 1, seg)
      /\ InSync(kind, real', depth', shadow', sdepth', size - 0 + 1, seg)
      /\ Kept(real, size, real', size - 0 + 1, seg)
      /\ Kept(home, size, home', size - 0 + 1, seg)
  BY ZenonT(40), <1>1, <1>2, <1>3, <1>4, PopPushGo
<1>6. size - 0 + 1 = size'
  BY SMTT(40), <1>1, <1>2
<1>7. QED
  BY ZenonT(40), <1>1, <1>2, <1>5, <1>6, GoesOn, RunningIInv

(* Both programs pop t values above the segment. *)
LEMMA PopOnly ==
    ASSUME Running, NEW t \in Nat, t <= rest(size, seg), PopPush(t, <<>>, 0),
           home' = Replace(home, depth, t, <<>>, 0)
    PROVE  /\ Stacks(real', depth', shadow', sdepth', home') /\ fault' = fault
           /\ size - t \in Int /\ Segment(depth', size - t, seg)
           /\ InSync(kind, real', depth', shadow', sdepth', size - t, seg)
           /\ Kept(real, size, real', size - t, seg)
           /\ Kept(home, size, home', size - t, seg)
<1>1. \A x \in 0..(0 - 1) : <<>>[x] \in Val /\ <<>>[x] \in 0..MaxDepth
  BY SMTT(40)
<1>2. /\ Stacks(real', depth', shadow', sdepth', home') /\ fault' = fault
      /\ size - t + 0 \in Int /\ Segment(depth', size - t + 0, seg)
      /\ InSync(kind, real', depth', shadow', sdepth', size - t + 0, seg)
      /\ Kept(real, size, real', size - t + 0, seg)
      /\ Kept(home, size, home', size - t + 0, seg)
  BY ZenonT(40), <1>1, PopPushGo
<1>3. size - t + 0 = size - t
  BY DEF Running
<1>4. QED
  BY ZenonT(40), <1>2, <1>3

(* TvmException. *)
LEMMA VisitExceptionInv ==
    ASSUME Running, NEW t \in Nat, NEW withIf \in BOOLEAN, VisitException(t, withIf)
    PROVE  IInv'
<1>1. CASE Reject
  BY ZenonT(40), <1>1, RejectInv, OverIInv
<1>2. CASE ~Reject
  <2>1. /\ t <= rest(size, seg) /\ PopPush(t, <<>>, 0)
        /\ home' = Replace(home, depth, t, <<>>, 0) /\ phase' \in {"run", "thrown"}
        /\ size' = size - t /\ noDrop' = FALSE /\ frames' = frames
        /\ kind' = kind /\ seg' = seg /\ reads' = reads /\ val' = val
        /\ glob' = glob /\ globSet' = globSet /\ wasCall' = wasCall
    BY ZenonT(40), <1>2 DEF VisitException, simVars, globVars
  <2>2. /\ Stacks(real', depth', shadow', sdepth', home') /\ fault' = fault
        /\ size' \in Int /\ Segment(depth', size', seg)
        /\ InSync(kind, real', depth', shadow', sdepth', size', seg)
        /\ Kept(real, size, real', size', seg)
        /\ Kept(home, size, home', size', seg)
    BY ZenonT(40), <2>1, PopOnly
  <2>3. glob \in Val /\ globSet \in BOOLEAN /\ wasCall \in BOOLEAN
    BY ZenonT(40) DEF Running
  <2>4. CASE phase' = "run"
    BY ZenonT(40), <2>1, <2>2, <2>3, <2>4, GoesOn, RunningIInv
  <2>5. CASE phase' = "thrown"
    <3>1. phase' \in Terminal /\ phase' \notin {"committed", "left"}
      BY ZenonT(40), <2>5 DEF Terminal
    <3>2. QED
      BY ZenonT(40), <2>1, <2>2, <2>3, <3>1, EndsSame, OverIInv
  <2>6. QED
    BY ZenonT(40), <2>1, <2>4, <2>5
<1>3. QED
  BY ZenonT(40), <1>1, <1>2
=============================================================================
