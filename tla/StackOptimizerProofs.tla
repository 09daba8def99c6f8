------------------------ MODULE StackOptimizerProofs ------------------------
(***************************************************************************)
(* The rewrites of StackOptimizer::successfullyUpdate are right, for every *)
(* depth, nesting and set of values: IInv is an inductive invariant of     *)
(* Spec, and the properties follow from it.                                *)
(*                                                                         *)
(* StackOptimizerSteps takes the steps of a trial over instructions without*)
(* a body; here are those that begin, repeat, leave or skip a body, the    *)
(* actions that begin a trial, and the theorems.                           *)
(***************************************************************************)
EXTENDS StackOptimizerSteps

(* The frame of a body that starts after t values are popped and owns o. *)
NewFrame(k, t, o, n, d, m, h) ==
    [kind |-> k, base |-> d - t - o, ret |-> n, size0 |-> m - t - o,
     home |-> [x \in 0..(d - t - o - 1) |-> h[x + t + o]]]

(* home at the start of the body. *)
NewHome(t, o, d) == [x \in 0..(d - t - 1) |-> IF x < o THEN 0 ELSE d - t - x]

(* The frame and the labels with which a body begins. *)
LEMMA NewFrameOK ==
    ASSUME NEW h, NEW d \in 0..MaxDepth, NEW m \in Int, NEW g \in Nat, IsLabelling(h, d),
           Segment(d, m, g), NEW t \in Nat, NEW o \in Nat, t + o <= m - g,
           NEW k \in BodyKinds, NEW n \in Nat,
           k \in {"until", "cond"} => n = 1, k \in {"repeat", "while"} => n = 0
    PROVE  LET f == NewFrame(k, t, o, n, d, m, h) IN
           /\ IsLabelling(NewHome(t, o, d), d - t)
           /\ f \in Frame /\ DOMAIN f.home = 0..(f.base - 1) /\ BodyOK(f, g)
           /\ Labelled(NewHome(t, o, d), m - t, g, f)
           /\ Kept(h, m, f.home, f.size0, g)
<1> DEFINE f == NewFrame(k, t, o, n, d, m, h)
           b == d - t - o
           fh == [x \in 0..(b - 1) |-> h[x + t + o]]
<1>1. /\ MaxDepth \in Nat /\ d \in Nat /\ d <= MaxDepth /\ 1 <= g /\ g <= m /\ m <= d
      /\ h \in [0..(d - 1) -> 0..MaxDepth]
  BY BoundsAssumption DEF Segment, IsLabelling
<1>2. b \in 0..MaxDepth /\ b \in Nat
  BY <1>1
<1>3. IsLabelling(NewHome(t, o, d), d - t)
  BY <1>1 DEF IsLabelling, NewHome
<1>4. fh \in [0..(b - 1) -> 0..MaxDepth]
  BY <1>1
<1>5. /\ f.kind = k /\ f.base = b /\ f.ret = n /\ f.size0 = m - t - o /\ f.home = fh
      /\ f = [kind |-> k, base |-> b, ret |-> n, size0 |-> m - t - o, home |-> fh]
  BY ZenonT(40) DEF NewFrame
<1>6. \A x \in (m - t - o - g)..(m - t - o - 1) : fh[x] = h[x - (m - t - o) + m]
  BY <1>1
<1>7. \A x \in (m - t - g)..(m - t - 1) : NewHome(t, o, d)[x] = d - t - x
  BY <1>1 DEF NewHome
<1>8. m - t - o \in Int
  BY <1>1
<1> HIDE DEF f, fh
<1>9. DOMAIN f.home = 0..(f.base - 1)
  BY ZenonT(40), <1>4, <1>5
<1>10. f \in Frame
  <2>1. fh \in Homes
    BY ZenonT(40), <1>2, <1>4 DEF Homes
  <2> HIDE DEF b
  <2>2. QED
    BY ZenonT(40), <1>2, <1>5, <1>8, <2>1 DEF Frame
<1>11. BodyOK(f, g)
  BY SMTT(40), <1>1, <1>5 DEF BodyOK
<1>12. Labelled(NewHome(t, o, d), m - t, g, f)
  BY <1>1, <1>5, <1>7 DEF Labelled
<1>13. Kept(h, m, f.home, f.size0, g)
  BY ZenonT(40), <1>5, <1>6 DEF Kept
<1>14. QED
  BY ZenonT(40), <1>3, <1>9, <1>10, <1>11, <1>12, <1>13 DEF f

(* home when the run returns from body f. *)
LEMMA OldHomeOK ==
    ASSUME NEW f \in Frame, DOMAIN f.home = 0..(f.base - 1), NEW g \in Nat, BodyOK(f, g)
    PROVE  LET h == Replace(f.home, f.base, 0, Zeros(f.ret), f.ret) IN
           /\ IsLabelling(h, f.base + f.ret)
           /\ Kept(f.home, f.size0, h, f.size0 + f.ret, g)
<1> DEFINE h == Replace(f.home, f.base, 0, Zeros(f.ret), f.ret)
           b == f.base
           n == f.ret
           m == f.size0
<1>1. /\ MaxDepth \in Nat /\ b \in Nat /\ n \in Nat /\ m \in Int /\ g <= m /\ m <= b
  BY BoundsAssumption DEF Frame, BodyOK
<1>2. f.home \in [0..(b - 1) -> 0..MaxDepth]
  BY ZenonT(40) DEF Frame, Homes
<1>3. h = [x \in 0..(b - 0 + n - 1) |-> IF x < n THEN Zeros(n)[x] ELSE f.home[x - n + 0]]
  BY ZenonT(40) DEF Replace
<1> HIDE DEF h, b, n, m
<1>4. \A x \in 0..(n - 1) : Zeros(n)[x] = 0
  BY ZenonT(40), <1>1 DEF Zeros
<1>5. h \in [0..(b + n - 1) -> 0..MaxDepth]
  BY SMTT(40), <1>1, <1>2, <1>3, <1>4
<1>6. \A x \in (m + n - g)..(m + n - 1) : h[x] = f.home[x - (m + n) + m]
  BY SMTT(40), <1>1, <1>3
<1>7. IsLabelling(h, b + n)
  BY <1>1, <1>5 DEF IsLabelling
<1>8. Kept(f.home, m, h, m + n, g)
  BY <1>1, <1>6 DEF Kept
<1>9. QED
  BY ZenonT(40), <1>7, <1>8 DEF h, b, n, m

(* A step that begins, ends or repeats a body. *)
LEMMA BodyStep ==
    ASSUME Running, phase' = "run", fault' = fault, noDrop' = FALSE,
           UNCHANGED simVars, UNCHANGED globVars,
           Stacks(real', depth', shadow', sdepth', home'),
           size' \in Int, Segment(depth', size', seg),
           InSync(kind, real', depth', shadow', sdepth', size', seg),
           Kept(real, size, real', size', seg),
           Bodies(frames'), InLeave' \/ Tracked(frames', home', size', seg)
    PROVE  Running'
<1>1. /\ kind' = kind /\ seg' = seg /\ reads' = reads /\ val' = val
      /\ glob' = glob /\ globSet' = globSet /\ wasCall' = wasCall
  BY ZenonT(40) DEF simVars, globVars
<1>2. ASSUME kind = "move" PROVE seg = 1 /\ real'[size' - 1] = val
  <2>1. seg = 1 /\ real[size - 1] = val /\ size \in Int
    BY ZenonT(40), <1>2 DEF Running
  <2>2. Kept(real, size, real', size', 1)
    BY ZenonT(40), <2>1
  <2>3. real'[size' - 1] = real[size - 1]
    <3>1. size' - 1 \in (size' - 1)..(size' - 1) /\ size' - 1 - size' + size = size - 1
      BY ZenonT(40), <2>1, OneBelow
    <3>2. real'[size' - 1] = real[size' - 1 - size' + size]
      BY ZenonT(40), <2>2, <3>1 DEF Kept
    <3>3. QED
      BY ZenonT(40), <3>1, <3>2
  <2>4. QED
    BY ZenonT(40), <2>1, <2>3
<1>3. QED
  BY ZenonT(40), <1>1, <1>2 DEF Running

(* Both programs pop t values above the segment; home is not considered. *)
LEMMA PopStacks ==
    ASSUME Running, NEW t \in Nat, t <= rest(size, seg), PopPush(t, <<>>, 0)
    PROVE  /\ IsStack(real', depth') /\ IsStack(shadow', sdepth') /\ fault' = fault
           /\ depth' = depth - t
           /\ size - t \in Int /\ Segment(depth', size - t, seg)
           /\ InSync(kind, real', depth', shadow', sdepth', size - t, seg)
           /\ Kept(real, size, real', size - t, seg)
<1>1. /\ Stacks(real, depth, shadow, sdepth, home) /\ size \in Int /\ seg \in Nat
      /\ Segment(depth, size, seg) /\ InSync(kind, real, depth, shadow, sdepth, size, seg)
  BY ZenonT(40) DEF Running
<1>2. depth \in Nat /\ sdepth \in Nat
  BY SMTT(40), <1>1, BoundsAssumption DEF Stacks, IsStack
<1>3. t <= size - seg /\ depth - t + 0 <= MaxDepth
  BY ZenonT(40) DEF PopPush, rest
<1>4. \A x \in 0..(0 - 1) : <<>>[x] \in Val /\ <<>>[x] \in 0..MaxDepth
  BY SMTT(40)
<1> DEFINE r1 == Replace(real, depth, t, <<>>, 0)
           s1 == Replace(shadow, sdepth, t, <<>>, 0)
<1>5. /\ IsStack(r1, depth - t + 0)
      /\ size - t + 0 \in Int /\ Segment(depth - t + 0, size - t + 0, seg)
      /\ Kept(real, size, r1, size - t + 0, seg)
  BY ZenonT(40), <1>1, <1>3, <1>4, PopPushReal
<1>6. /\ t <= sdepth /\ \A x \in 0..(t - 1) : real[x] = shadow[x]
      /\ IsStack(s1, sdepth - t + 0)
      /\ InSync(kind, r1, depth - t + 0, s1, sdepth - t + 0, size - t + 0, seg)
  BY ZenonT(40), <1>1, <1>3, <1>4, PopPushShadow
<1>7. /\ real' = r1 /\ depth' = depth - t + 0
      /\ shadow' = s1 /\ sdepth' = sdepth - t + 0 /\ fault' = fault
  BY ZenonT(40), <1>6 DEF PopPush
<1> HIDE DEF r1, s1
<1>8. size - t + 0 = size - t /\ depth - t + 0 = depth - t /\ sdepth - t + 0 = sdepth - t
  BY SMTT(40), <1>1, <1>2
<1>9. QED
  BY ZenonT(40), <1>5, <1>6, <1>7, <1>8

(* A nested Simulator starts on a body. *)
LEMMA EnterBodyRuns ==
    ASSUME Running, ~InLeave, NEW k \in BodyKinds, NEW t \in Nat, NEW o \in Nat, NEW n \in Nat,
           t + o <= rest(size, seg),
           k \in {"until", "cond"} => n = 1, k \in {"repeat", "while"} => n = 0,
           EnterBody(k, t, o, n)
    PROVE  Running'
<1> DEFINE f == NewFrame(k, t, o, n, depth, size, home)
           h == NewHome(t, o, depth)
<1>1. /\ Stacks(real, depth, shadow, sdepth, home) /\ size \in Int /\ seg \in Nat
      /\ Segment(depth, size, seg) /\ Bodies(frames) /\ Tracked(frames, home, size, seg)
  BY ZenonT(40) DEF Running
<1>2. /\ PopPush(t, <<>>, 0) /\ phase' = "run" /\ noDrop' = FALSE /\ size' = size - t
      /\ UNCHANGED simVars /\ UNCHANGED globVars
      /\ home' = h /\ frames' = Append(frames, f)
  BY ZenonT(40) DEF EnterBody, NewFrame, NewHome
<1>3. t <= rest(size, seg) /\ t + o <= size - seg /\ depth \in 0..MaxDepth /\ IsLabelling(home, depth)
  BY SMTT(40), <1>1 DEF rest, Stacks, IsStack
<1>4. /\ IsLabelling(h, depth - t)
      /\ f \in Frame /\ DOMAIN f.home = 0..(f.base - 1) /\ BodyOK(f, seg)
      /\ Labelled(h, size - t, seg, f) /\ Kept(home, size, f.home, f.size0, seg)
  BY ZenonT(40), <1>1, <1>3, NewFrameOK
<1> HIDE DEF f, h
<1>5. /\ IsStack(real', depth') /\ IsStack(shadow', sdepth') /\ fault' = fault
      /\ depth' = depth - t /\ size - t \in Int /\ Segment(depth', size - t, seg)
      /\ InSync(kind, real', depth', shadow', sdepth', size - t, seg)
      /\ Kept(real, size, real', size - t, seg)
  BY ZenonT(40), <1>2, <1>3, PopStacks
<1>6. Bodies(Append(frames, f)) /\ Tracked(Append(frames, f), h, size - t, seg)
  BY ZenonT(40), <1>1, <1>4, <1>5, PushBody
<1>7. Stacks(real', depth', shadow', sdepth', home')
  BY ZenonT(40), <1>2, <1>4, <1>5 DEF Stacks
<1>8. QED
  BY ZenonT(40), <1>2, <1>5, <1>6, <1>7, BodyStep

(* Where a body ends: the enclosing Simulator, its bodies and its labels.  *)
LEMMA AtBodyEndFacts ==
    ASSUME Running, NEW k \in BodyKinds \ {"leave"}, AtBodyEnd(k)
    PROVE  /\ frames # <<>> /\ Bodies(frames) /\ Tracked(frames, home, size, seg)
           /\ Top \in Frame /\ DOMAIN Top.home = 0..(Top.base - 1) /\ BodyOK(Top, seg)
           /\ Top.kind = k
           /\ Bodies(Front(frames)) /\ Tracked(Front(frames), Top.home, Top.size0, seg)
           /\ size = Top.size0 + Top.ret /\ depth = Top.base + Top.ret
           /\ Top.size0 \in Int /\ Top.ret \in Nat /\ Top.base \in Nat
           /\ size \in Int /\ seg \in Nat /\ seg <= Top.size0
<1>1. frames # <<>> /\ Top.kind = k /\ BodyDone
  BY ZenonT(40) DEF AtBodyEnd
<1>2. ~InLeave
  BY ZenonT(40), <1>1 DEF InLeave
<1>3. /\ Bodies(frames) /\ Tracked(frames, home, size, seg) /\ size \in Int /\ seg \in Nat
      /\ Segment(depth, size, seg)
  BY ZenonT(40), <1>2 DEF Running
<1>4. /\ Top \in Frame /\ Top.size0 \in Int /\ Top.ret \in Nat /\ Top.base \in Nat
      /\ DOMAIN Top.home = 0..(Top.base - 1)
  BY ZenonT(40), <1>1, <1>3, TopType DEF Top
<1>5. depth = Top.base + Top.ret
  BY ZenonT(40), <1>1 DEF BodyDone
<1>6. \A x \in 0..(depth - 1) : home[x] = IF x < Top.ret THEN 0 ELSE depth - x
  BY ZenonT(40), <1>1 DEF BodyDone
<1>7. size = Top.size0 + Top.ret
  BY SMTT(40), <1>1, <1>3, <1>5, <1>6, BodyEnd DEF Top
<1>8. /\ Bodies(Front(frames)) /\ Tracked(Front(frames), Top.home, Top.size0, seg)
      /\ BodyOK(Top, seg)
  BY ZenonT(40), <1>1, <1>3, PopBody DEF Top
<1>9. seg <= Top.size0
  BY ZenonT(40), <1>8 DEF BodyOK
<1>10. QED
  BY ZenonT(40), <1>1, <1>3, <1>4, <1>5, <1>7, <1>8, <1>9

(* Nothing moves when nothing changes. *)
LEMMA KeptSame ==
    ASSUME NEW f, NEW m \in Int, NEW g \in Nat PROVE Kept(f, m, f, m, g)
BY SMTT(40) DEF Kept

(* The run returns from a body. *)
LEMMA LeaveBodyRuns ==
    ASSUME Running, NEW k \in BodyKinds \ {"leave"}, AtBodyEnd(k), LeaveBody
    PROVE  Running'
<1> DEFINE h == Replace(Top.home, Top.base, 0, Zeros(Top.ret), Top.ret)
<1>1. /\ Top \in Frame /\ DOMAIN Top.home = 0..(Top.base - 1) /\ BodyOK(Top, seg)
      /\ Bodies(Front(frames)) /\ Tracked(Front(frames), Top.home, Top.size0, seg)
      /\ size = Top.size0 + Top.ret /\ depth = Top.base + Top.ret
      /\ Top.size0 \in Int /\ size \in Int /\ seg \in Nat
  BY ZenonT(40), AtBodyEndFacts
<1>2. /\ Stacks(real, depth, shadow, sdepth, home) /\ Segment(depth, size, seg)
      /\ InSync(kind, real, depth, shadow, sdepth, size, seg) /\ phase = "run"
  BY ZenonT(40) DEF Running
<1>3. /\ frames' = Front(frames) /\ home' = h /\ size' = Top.size0 + Top.ret /\ noDrop' = FALSE
      /\ phase' = phase /\ real' = real /\ depth' = depth /\ shadow' = shadow
      /\ sdepth' = sdepth /\ fault' = fault /\ UNCHANGED simVars /\ UNCHANGED globVars
  BY ZenonT(40) DEF LeaveBody
<1>4. IsLabelling(h, Top.base + Top.ret) /\ Kept(Top.home, Top.size0, h, Top.size0 + Top.ret, seg)
  BY ZenonT(40), <1>1, OldHomeOK
<1> HIDE DEF h
<1>5. size' = size /\ IsLabelling(h, depth) /\ Kept(Top.home, Top.size0, h, size, seg)
  BY ZenonT(40), <1>1, <1>3, <1>4
<1>6. Tracked(Front(frames), h, size, seg)
  BY SMTT(40), <1>1, <1>5, TrackedKept
<1>7. Stacks(real', depth', shadow', sdepth', home')
  BY ZenonT(40), <1>2, <1>3, <1>5 DEF Stacks
<1>8. Kept(real, size, real, size, seg)
  BY ZenonT(40), <1>1, KeptSame
<1>9. QED
  BY ZenonT(40), <1>1, <1>2, <1>3, <1>5, <1>6, <1>7, <1>8, BodyStep

(* The condition at the end of a body is popped; the run returns. *)
LEMMA LeaveOnFlagRuns ==
    ASSUME Running, NEW k \in {"until", "cond"}, AtBodyEnd(k), LeaveOnFlag
    PROVE  Running'
<1>1. k \in BodyKinds \ {"leave"}
  BY ZenonT(40) DEF BodyKinds
<1>2. /\ Top \in Frame /\ DOMAIN Top.home = 0..(Top.base - 1) /\ BodyOK(Top, seg)
      /\ Top.kind = k
      /\ Bodies(Front(frames)) /\ Tracked(Front(frames), Top.home, Top.size0, seg)
      /\ size = Top.size0 + Top.ret /\ depth = Top.base + Top.ret
      /\ Top.size0 \in Int /\ Top.ret \in Nat /\ Top.base \in Nat
      /\ size \in Int /\ seg \in Nat /\ seg <= Top.size0
  BY ZenonT(40), <1>1, AtBodyEndFacts
<1>3. Top.ret = 1
  BY ZenonT(40), <1>2 DEF BodyOK
<1>4. size - 1 = Top.size0 /\ depth - 1 = Top.base /\ 1 <= rest(size, seg)
  BY SMTT(40), <1>2, <1>3 DEF rest
<1>5. /\ PopPush(1, <<>>, 0) /\ frames' = Front(frames) /\ home' = Top.home
      /\ size' = Top.size0 /\ noDrop' = FALSE /\ phase' = phase
      /\ UNCHANGED simVars /\ UNCHANGED globVars
  BY ZenonT(40) DEF LeaveOnFlag
<1>6. /\ IsStack(real', depth') /\ IsStack(shadow', sdepth') /\ fault' = fault
      /\ depth' = depth - 1 /\ size - 1 \in Int /\ Segment(depth', size - 1, seg)
      /\ InSync(kind, real', depth', shadow', sdepth', size - 1, seg)
      /\ Kept(real, size, real', size - 1, seg)
  BY ZenonT(40), <1>4, <1>5, PopStacks
<1>7. IsLabelling(Top.home, Top.base)
  BY ZenonT(40), <1>2 DEF IsLabelling, Frame, Homes
<1>8. Stacks(real', depth', shadow', sdepth', home')
  BY ZenonT(40), <1>4, <1>5, <1>6, <1>7 DEF Stacks
<1>9. phase' = "run"
  BY ZenonT(40), <1>5 DEF Running
<1>10. QED
  BY ZenonT(40), <1>2, <1>4, <1>5, <1>6, <1>8, <1>9, BodyStep

(* The condition is popped; the run goes on with body k1 of the loop. *)
LEMMA NextOnFlagRuns ==
    ASSUME Running, NEW k \in {"until", "cond"}, AtBodyEnd(k),
           NEW k1 \in {"until", "while"}, NEW n \in Nat,
           k1 = "until" => n = 1, k1 = "while" => n = 0, NextOnFlag(k1, n)
    PROVE  Running'
<1> DEFINE fs == Append(Front(frames), [Top EXCEPT !.kind = k1, !.ret = n])
<1>1. k \in BodyKinds \ {"leave"} /\ k1 \in BodyKinds
  BY ZenonT(40) DEF BodyKinds
<1>2. /\ frames # <<>> /\ Bodies(frames) /\ Tracked(frames, home, size, seg)
      /\ BodyOK(Top, seg) /\ Top.kind = k
      /\ size = Top.size0 + Top.ret /\ Top.size0 \in Int /\ Top.ret \in Nat
      /\ size \in Int /\ seg \in Nat /\ seg <= Top.size0
  BY ZenonT(40), <1>1, AtBodyEndFacts
<1>3. Top.ret = 1
  BY ZenonT(40), <1>2 DEF BodyOK
<1>4. size - 1 = Top.size0 /\ 1 <= rest(size, seg)
  BY SMTT(40), <1>2, <1>3 DEF rest
<1>5. /\ PopPush(1, <<>>, 0) /\ frames' = fs /\ home' = Replace(home, depth, 1, <<>>, 0)
      /\ size' = Top.size0 /\ noDrop' = FALSE /\ phase' = phase
      /\ UNCHANGED simVars /\ UNCHANGED globVars
  BY ZenonT(40) DEF NextOnFlag
<1>6. /\ Stacks(real', depth', shadow', sdepth', home') /\ fault' = fault
      /\ size - 1 \in Int /\ Segment(depth', size - 1, seg)
      /\ InSync(kind, real', depth', shadow', sdepth', size - 1, seg)
      /\ Kept(real, size, real', size - 1, seg) /\ Kept(home, size, home', size - 1, seg)
  BY ZenonT(40), <1>4, <1>5, PopOnly
<1>7. Bodies(fs) /\ Tracked(fs, home, size, seg)
  BY ZenonT(40), <1>1, <1>2, NextBody DEF Top
<1> HIDE DEF fs
<1>8. Tracked(fs, home', size - 1, seg)
  BY ZenonT(40), <1>2, <1>6, <1>7, TrackedKept
<1>9. phase' = "run"
  BY ZenonT(40), <1>5 DEF Running
<1>10. QED
  BY ZenonT(40), <1>4, <1>5, <1>6, <1>7, <1>8, <1>9, BodyStep

(* The Simulator starts the same body again, or the other one of a loop,   *)
(* without a condition.                                                    *)
LEMMA EndRepeatRuns ==
    ASSUME Running, AtBodyEnd("repeat"), size' = Top.size0, noDrop' = FALSE,
           UNCHANGED <<phase, stackVars, simVars, globVars, frames>>
    PROVE  Running'
<1>1. "repeat" \in BodyKinds \ {"leave"}
  BY ZenonT(40) DEF BodyKinds
<1>2. /\ Bodies(frames) /\ Tracked(frames, home, size, seg) /\ BodyOK(Top, seg)
      /\ Top.kind = "repeat" /\ size = Top.size0 + Top.ret /\ Top.size0 \in Int
      /\ size \in Int /\ seg \in Nat
  BY ZenonT(40), <1>1, AtBodyEndFacts
<1>3. Top.size0 = size
  BY <1>2 DEF BodyOK
<1>4. /\ phase' = phase /\ real' = real /\ depth' = depth /\ shadow' = shadow
      /\ sdepth' = sdepth /\ home' = home /\ fault' = fault /\ frames' = frames
      /\ UNCHANGED simVars /\ UNCHANGED globVars
  BY ZenonT(40) DEF stackVars
<1>5. Kept(real, size, real, size, seg)
  BY ZenonT(40), <1>2, KeptSame
<1>6. /\ Stacks(real, depth, shadow, sdepth, home) /\ Segment(depth, size, seg)
      /\ InSync(kind, real, depth, shadow, sdepth, size, seg) /\ phase = "run"
  BY ZenonT(40) DEF Running
<1>7. QED
  BY ZenonT(40), <1>2, <1>3, <1>4, <1>5, <1>6, BodyStep

(* While: from the body back to the condition. *)
LEMMA EndWhileBodyRuns ==
    ASSUME Running, EndWhileBody
    PROVE  Running'
<1> DEFINE fs == Append(Front(frames), [Top EXCEPT !.kind = "cond", !.ret = 1])
<1>1. "while" \in BodyKinds \ {"leave"} /\ "cond" \in BodyKinds
  BY ZenonT(40) DEF BodyKinds
<1>2. /\ frames # <<>> /\ Bodies(frames) /\ Tracked(frames, home, size, seg) /\ BodyOK(Top, seg)
      /\ Top.kind = "while" /\ size = Top.size0 + Top.ret /\ Top.size0 \in Int
      /\ size \in Int /\ seg \in Nat
  BY ZenonT(40), <1>1, AtBodyEndFacts DEF EndWhileBody
<1>3. Top.size0 = size
  BY SMTT(40), <1>2 DEF BodyOK
<1>4. /\ phase' = phase /\ real' = real /\ depth' = depth /\ shadow' = shadow
      /\ sdepth' = sdepth /\ home' = home /\ fault' = fault /\ frames' = fs
      /\ size' = Top.size0 /\ noDrop' = FALSE /\ UNCHANGED simVars /\ UNCHANGED globVars
  BY ZenonT(40) DEF EndWhileBody, stackVars
<1>5. Kept(real, size, real, size, seg)
  BY ZenonT(40), <1>2, KeptSame
<1>6. Bodies(fs) /\ Tracked(fs, home, size, seg)
  BY ZenonT(40), <1>1, <1>2, NextBody DEF Top
<1> HIDE DEF fs
<1>7. /\ Stacks(real, depth, shadow, sdepth, home) /\ Segment(depth, size, seg)
      /\ InSync(kind, real, depth, shadow, sdepth, size, seg) /\ phase = "run"
  BY ZenonT(40) DEF Running
<1>8. QED
  BY ZenonT(40), <1>2, <1>3, <1>4, <1>5, <1>6, <1>7, BodyStep

(* The frame of the code of a return, break or continue. *)
LEMMA LeaveBodies ==
    Bodies(<<LeaveFrame>>) /\ Len(<<LeaveFrame>>) = 1 /\ <<LeaveFrame>> # <<>>
      /\ <<LeaveFrame>>[1].kind = "leave"
<1>1. Zeros(0) \in [0..(0 - 1) -> 0..MaxDepth] /\ 0 \in 0..MaxDepth
  BY SMTT(40), ZerosType, BoundsAssumption
<1>2. Zeros(0) \in Homes /\ DOMAIN Zeros(0) = 0..(0 - 1)
  BY ZenonT(40), <1>1 DEF Homes
<1>3. LeaveFrame \in Frame
  BY SMTT(40), <1>1, <1>2 DEF LeaveFrame, Frame, BodyKinds
<1>4. DOMAIN LeaveFrame.home = 0..(LeaveFrame.base - 1) /\ LeaveFrame.kind = "leave"
  BY ZenonT(40), <1>2 DEF LeaveFrame
<1>5. QED
  BY SMTT(40), <1>3, <1>4 DEF Bodies

(* ReturnOrBreakOrCont. *)
LEMMA VisitReturnOrBreakOrContInv ==
    ASSUME Running, NEW t \in Nat, VisitReturnOrBreakOrCont(t)
    PROVE  IInv'
<1>1. CASE Reject
  BY ZenonT(40), <1>1, RejectInv, OverIInv
<1>2. CASE ~Reject
  <2>1. /\ frames' = <<LeaveFrame>> /\ home' = Zeros(depth) /\ noDrop' = FALSE
        /\ phase' = phase /\ real' = real /\ depth' = depth /\ shadow' = shadow
        /\ sdepth' = sdepth /\ fault' = fault /\ size' = size
        /\ UNCHANGED simVars /\ UNCHANGED globVars
    BY ZenonT(40), <1>2 DEF VisitReturnOrBreakOrCont
  <2>2. /\ Stacks(real, depth, shadow, sdepth, home) /\ Segment(depth, size, seg)
        /\ InSync(kind, real, depth, shadow, sdepth, size, seg) /\ phase = "run"
        /\ size \in Int /\ seg \in Nat
    BY ZenonT(40) DEF Running
  <2>3. IsLabelling(Zeros(depth), depth)
    <3>1. depth \in Int
      BY SMTT(40), <2>2, BoundsAssumption DEF Stacks, IsStack
    <3>2. QED
      BY ZenonT(40), <3>1, ZerosType DEF IsLabelling
  <2>4. Stacks(real', depth', shadow', sdepth', home')
    BY ZenonT(40), <2>1, <2>2, <2>3 DEF Stacks
  <2>5. Bodies(frames') /\ InLeave'
    BY ZenonT(40), <2>1, LeaveBodies DEF InLeave, Top
  <2>6. Kept(real, size, real, size, seg)
    BY ZenonT(40), <2>2, KeptSame
  <2>7. QED
    BY ZenonT(40), <2>1, <2>2, <2>4, <2>5, <2>6, BodyStep, RunningIInv
<1>3. QED
  BY ZenonT(40), <1>1, <1>2

(* A body that is not run. *)
LEMMA SkipBodyRuns ==
    ASSUME Running, rest(size, seg) # 0, SkipBody(1), phase' = "run"
    PROVE  Running'
<1>1. /\ size \in Int /\ seg \in Nat /\ Segment(depth, size, seg)
      /\ glob \in Val /\ globSet \in BOOLEAN /\ wasCall \in BOOLEAN
  BY ZenonT(40) DEF Running
<1>2. 1 <= rest(size, seg)
  BY SMTT(40), <1>1 DEF rest, Segment
<1>3. /\ PopPush(1, <<>>, 0) /\ home' = Replace(home, depth, 1, <<>>, 0)
      /\ size' = size - 1 /\ noDrop' = FALSE /\ frames' = frames
      /\ kind' = kind /\ seg' = seg /\ reads' = reads /\ val' = val
      /\ glob' = glob /\ globSet' = globSet /\ wasCall' = wasCall
  BY ZenonT(40) DEF SkipBody, simVars, globVars
<1>4. /\ Stacks(real', depth', shadow', sdepth', home') /\ fault' = fault
      /\ size' \in Int /\ Segment(depth', size', seg)
      /\ InSync(kind, real', depth', shadow', sdepth', size', seg)
      /\ Kept(real, size, real', size', seg) /\ Kept(home, size, home', size', seg)
  BY ZenonT(40), <1>2, <1>3, PopOnly
<1>5. QED
  BY ZenonT(40), <1>1, <1>3, <1>4, GoesOn

(* Every step of a trial over a body. *)
LEMMA SimulateBodyInv ==
    ASSUME Running, SimulateBody
    PROVE  IInv'
<1>1. /\ size \in Int /\ seg \in Nat /\ Segment(depth, size, seg) /\ phase = "run"
      /\ MaxArgs \in Nat
  BY ZenonT(40), BoundsAssumption DEF Running
<1>2. rest(size, seg) \in Nat
  BY SMTT(40), <1>1 DEF rest, Segment
<1>3. rest(size, seg) # 0 => 1 + 0 <= rest(size, seg)
  BY SMTT(40), <1>2
<1>4. ASSUME Reject PROVE IInv'
  BY ZenonT(40), <1>4, RejectInv, OverIInv
<1>5. ASSUME NEW k \in BodyKinds \ {"leave"}, AtBodyEnd(k), LeaveBody PROVE IInv'
  BY ZenonT(40), <1>5, LeaveBodyRuns, RunningIInv
<1>6. ASSUME NEW n \in Args, VisitIfElse(n) PROVE IInv'
  <2>1. n \in Nat /\ "if" \in BodyKinds
    BY SMTT(40), <1>1 DEF Args, BodyKinds
  <2>2. CASE Reject
    BY ZenonT(40), <2>2, <1>4
  <2>3. CASE ~InLeave /\ rest(size, seg) # 0 /\ EnterBody("if", 1, 0, n)
    BY ZenonT(40), <1>3, <2>1, <2>3, EnterBodyRuns, RunningIInv
  <2>4. QED
    BY ZenonT(40), <1>6, <2>2, <2>3 DEF VisitIfElse
<1>7. ASSUME NEW leaves \in BOOLEAN, SkipIfElse(leaves) PROVE IInv'
  BY ZenonT(40), <1>7, SkipBodyRuns, RunningIInv DEF SkipIfElse, IfElseDropped
<1>8. ASSUME VisitLogCircuit PROVE IInv'
  <2>1. CASE Reject
    BY ZenonT(40), <2>1, <1>4
  <2>2. CASE ~InLeave /\ ~LogCircuitUnable /\ EnterBody("log", 2, 0, 1)
    <3>1. VisitDROP(1, size - 1, seg).verdict = "go"
      BY ZenonT(40), <2>2 DEF LogCircuitUnable
    <3>2. 2 + 0 <= rest(size, seg)
      BY SMTT(40), <1>1, <3>1 DEF VisitDROP, Dropped, Unable, Outcome, rest
    <3>3. "log" \in BodyKinds
      BY ZenonT(40) DEF BodyKinds
    <3>4. QED
      BY ZenonT(40), <2>2, <3>2, <3>3, EnterBodyRuns, RunningIInv
  <2>3. QED
    BY ZenonT(40), <1>8, <2>1, <2>2 DEF VisitLogCircuit
<1>9. ASSUME SkipLogCircuit PROVE IInv'
  BY ZenonT(40), <1>1, <1>9, SkipBodyRuns, RunningIInv DEF SkipLogCircuit, LogCircuitUnable
<1>10. ASSUME NEW t \in Args, NEW n \in Args, VisitSubProgram(t, n) PROVE IInv'
  <2>1. n \in Nat /\ t \in Nat /\ "sub" \in BodyKinds
    BY SMTT(40), <1>1 DEF Args, BodyKinds
  <2>2. CASE Reject
    BY ZenonT(40), <2>2, <1>4
  <2>3. CASE ~InLeave /\ t <= rest(size, seg) /\ EnterBody("sub", 0, t, n)
    <3>1. 0 + t <= rest(size, seg)
      BY SMTT(40), <2>1, <2>3
    <3>2. QED
      BY ZenonT(40), <2>1, <2>3, <3>1, EnterBodyRuns, RunningIInv
  <2>4. QED
    BY ZenonT(40), <1>10, <2>2, <2>3 DEF VisitSubProgram
<1>11. ASSUME VisitRepeat PROVE IInv'
  <2>1. CASE Reject
    BY ZenonT(40), <2>1, <1>4
  <2>2. CASE ~InLeave /\ rest(size, seg) # 0 /\ EnterBody("repeat", 1, 0, 0)
    BY ZenonT(40), <1>3, <2>2, EnterBodyRuns, RunningIInv DEF BodyKinds
  <2>3. QED
    BY ZenonT(40), <1>11, <2>1, <2>2 DEF VisitRepeat
<1>12. ASSUME SkipRepeat PROVE IInv'
  BY ZenonT(40), <1>1, <1>12, SkipBodyRuns, RunningIInv DEF SkipRepeat
<1>13. ASSUME EndRepeat PROVE IInv'
  BY ZenonT(40), <1>5, <1>13, EndRepeatRuns, RunningIInv DEF EndRepeat, BodyKinds
<1>14. ASSUME VisitUntil PROVE IInv'
  <2>1. CASE Reject
    BY ZenonT(40), <2>1, <1>4
  <2>2. CASE ~InLeave /\ EnterBody("until", 0, 0, 1)
    BY SMTT(40), <1>2, <2>2, EnterBodyRuns, RunningIInv DEF BodyKinds
  <2>3. QED
    BY ZenonT(40), <1>14, <2>1, <2>2 DEF VisitUntil
<1>15. ASSUME EndUntil PROVE IInv'
  BY ZenonT(40), <1>15, LeaveOnFlagRuns, NextOnFlagRuns, RunningIInv DEF EndUntil
<1>16. ASSUME VisitWhile PROVE IInv'
  BY SMTT(40), <1>2, <1>16, EnterBodyRuns, RunningIInv DEF VisitWhile, BodyKinds
<1>17. ASSUME EndCondition PROVE IInv'
  BY ZenonT(40), <1>17, LeaveOnFlagRuns, NextOnFlagRuns, RunningIInv DEF EndCondition
<1>18. ASSUME EndWhileBody PROVE IInv'
  BY ZenonT(40), <1>18, EndWhileBodyRuns, RunningIInv
<1>19. ASSUME NEW t \in Args, VisitReturnOrBreakOrCont(t) PROVE IInv'
  BY SMTT(40), <1>1, <1>19, VisitReturnOrBreakOrContInv DEF Args
<1>20. EndIfElse \/ EndLogCircuit \/ EndSubProgram => IInv'
  BY ZenonT(40), <1>5 DEF EndIfElse, EndLogCircuit, EndSubProgram, BodyKinds
<1>21. OtherBodyUnable => IInv'
  BY ZenonT(40), <1>4 DEF OtherBodyUnable
<1>22. QED
  BY ZenonT(40), <1>6, <1>7, <1>8, <1>9, <1>10, <1>11, <1>12, <1>13, <1>14, <1>15, <1>16, <1>17,
     <1>18, <1>19, <1>20, <1>21 DEF SimulateBody

-----------------------------------------------------------------------------
(* The rewrites. *)

(* A trial begins. *)
LEMMA BeginRuns ==
    ASSUME Waiting, NEW k \in Kinds, NEW m \in Int, NEW g \in Nat, StartSimulator(k, m, g),
           Stacks(real', depth', shadow', sdepth', home'), Segment(depth', m, g),
           InSync(k, real', depth', shadow', sdepth', m, g),
           noDrop' \in BOOLEAN, reads' \in Reads, val' \in Val,
           k = "move" => g = 1 /\ real'[m - 1] = val' /\ (reads' = "glob" => val' = glob)
    PROVE  Running'
<1>1. /\ phase' = "run" /\ kind' = k /\ size' = m /\ seg' = g /\ frames' = frames
      /\ fault' = fault /\ glob' = glob /\ globSet' = globSet /\ wasCall' = wasCall
  BY ZenonT(40) DEF StartSimulator, globVars
<1>2. Bodies(frames') /\ Tracked(frames', home', size', seg')
  BY SMTT(40), <1>1, NoBodies DEF Waiting, Tracked
<1>3. QED
  BY ZenonT(40), <1>1, <1>2 DEF Waiting, Running

(* What the Begin actions start from. *)
LEMMA WaitingFacts ==
    ASSUME Waiting
    PROVE  /\ depth \in 0..MaxDepth /\ depth \in Nat /\ depth <= MaxDepth
           /\ real \in [0..(depth - 1) -> Val] /\ shadow = real /\ sdepth = depth
           /\ noDrop \in BOOLEAN /\ reads \in Reads /\ val \in Val /\ glob \in Val
BY BoundsAssumption DEF Waiting, Stacks, IsStack

(* gen(0,1), moved or left out. *)
LEMMA BeginGenRuns ==
    ASSUME Waiting, BeginMove \/ BeginDelGen
    PROVE  Running'
<1>1. CASE BeginMove
  <2>1. PICK b \in Reads, v \in Val :
          (b # "nothing" => v = glob) /\ RealPush(v) /\ reads' = b /\ val' = v
    BY ZenonT(40), <1>1 DEF BeginMove
  <2> DEFINE new == [x \in {0} |-> v]
  <2>2. /\ depth < MaxDepth /\ real' = Replace(real, depth, 0, new, 1)
        /\ depth' = depth + 1 /\ home' = Zeros(depth')
    BY ZenonT(40), <2>1 DEF RealPush
  <2>3. StartSimulator("move", 1, 1) /\ shadow' = shadow /\ sdepth' = sdepth /\ noDrop' = noDrop
    BY ZenonT(40), <1>1 DEF BeginMove
  <2>4. new[0] = v
    BY ZenonT(40)
  <2> HIDE DEF new
  <2>5. /\ Stacks(real', depth + 1, real, depth, Zeros(depth + 1)) /\ Segment(depth + 1, 1, 1)
        /\ CutInSync(real', depth + 1, real, depth, 1, 1) /\ real'[0] = v
    BY ZenonT(40), <2>2, <2>4, WaitingFacts, BeginPush
  <2>6. InSync("move", real', depth', shadow', sdepth', 1, 1)
    BY ZenonT(40), <2>2, <2>3, <2>5, WaitingFacts DEF InSync, KeepsCode
  <2>7. Stacks(real', depth', shadow', sdepth', home') /\ Segment(depth', 1, 1)
    BY ZenonT(40), <2>2, <2>3, <2>5, WaitingFacts
  <2>8. real'[1 - 1] = val' /\ (reads' = "glob" => val' = glob) /\ reads' \in Reads /\ val' \in Val
    BY SMTT(40), <2>1, <2>5
  <2>9. QED
    BY SMTT(40), <2>3, <2>6, <2>7, <2>8, WaitingFacts, BeginRuns DEF Kinds
<1>2. CASE BeginDelGen
  <2>1. PICK v \in Val : RealPush(v)
    BY ZenonT(40), <1>2 DEF BeginDelGen
  <2> DEFINE new == [x \in {0} |-> v]
  <2>2. /\ depth < MaxDepth /\ real' = Replace(real, depth, 0, new, 1)
        /\ depth' = depth + 1 /\ home' = Zeros(depth')
    BY ZenonT(40), <2>1 DEF RealPush
  <2>3. /\ StartSimulator("delGen", 1, 1) /\ shadow' = shadow /\ sdepth' = sdepth
        /\ noDrop' = noDrop /\ reads' = reads /\ val' = val
    BY ZenonT(40), <1>2 DEF BeginDelGen
  <2>4. new[0] = v
    BY ZenonT(40)
  <2> HIDE DEF new
  <2>5. /\ Stacks(real', depth + 1, real, depth, Zeros(depth + 1)) /\ Segment(depth + 1, 1, 1)
        /\ CutInSync(real', depth + 1, real, depth, 1, 1)
    BY ZenonT(40), <2>2, <2>4, WaitingFacts, BeginPush
  <2>6. InSync("delGen", real', depth', shadow', sdepth', 1, 1)
    BY ZenonT(40), <2>2, <2>3, <2>5, WaitingFacts DEF InSync, KeepsCode
  <2>7. Stacks(real', depth', shadow', sdepth', home') /\ Segment(depth', 1, 1)
    BY ZenonT(40), <2>2, <2>3, <2>5, WaitingFacts
  <2>8. QED
    BY SMTT(40), <2>3, <2>6, <2>7, WaitingFacts, BeginRuns DEF Kinds
<1>3. QED
  BY ZenonT(40), <1>1, <1>2

(* POP Si => DROP. *)
LEMMA BeginPopToDropRuns ==
    ASSUME Waiting, NEW op, op \in Executable[depth], BeginPopToDrop(op)
    PROVE  Running'
<1>1. op \in Indexed(MaxDepth) /\ Need(op) <= depth
  BY ZenonT(40), ExecutableOp
<1>2. /\ isPOP(op) # 0 /\ StartSimulator("popToDrop", isPOP(op), 1)
      /\ real' = Exec(op, real, depth) /\ depth' = depth + Delta(op) /\ home' = Zeros(depth')
      /\ shadow' = Exec(DROP(1), real, depth) /\ sdepth' = depth + Delta(DROP(1))
      /\ noDrop' = noDrop /\ reads' = reads /\ val' = val
  BY ZenonT(40), WaitingFacts DEF BeginPopToDrop, RealExec, ShadowExec
<1>3. /\ Delta(op) = -1 /\ Delta(DROP(1)) = -1
      /\ isPOP(op) \in Int /\ Segment(depth - 1, isPOP(op), 1)
      /\ Stacks(real', depth - 1, shadow', depth - 1, Zeros(depth - 1))
      /\ KeepInSync(real', depth - 1, shadow', depth - 1, isPOP(op), 1)
  <2>1. /\ Delta(op) = -1 /\ Delta(DROP(1)) = -1
        /\ isPOP(op) \in Int /\ Segment(depth - 1, isPOP(op), 1)
        /\ Stacks(Exec(op, real, depth), depth - 1, Exec(DROP(1), real, depth), depth - 1, Zeros(depth - 1))
        /\ KeepInSync(Exec(op, real, depth), depth - 1, Exec(DROP(1), real, depth), depth - 1, isPOP(op), 1)
    BY ZenonT(40), <1>1, <1>2, WaitingFacts, BeginPopToDropStacks
  <2>2. QED
    BY ZenonT(40), <1>2, <2>1
<1>4. depth' = depth - 1 /\ sdepth' = depth - 1
  BY ZenonT(40), <1>2, <1>3, WaitingFacts
<1>5. InSync("popToDrop", real', depth', shadow', sdepth', isPOP(op), 1)
  BY ZenonT(40), <1>3, <1>4 DEF InSync, KeepsCode
<1>6. QED
  BY ZenonT(40), <1>2, <1>3, <1>4, <1>5, WaitingFacts, BeginRuns DEF Kinds

(* BLKSWAP, REVERSE or XCHG S0 is left out. *)
LEMMA BeginIgnoreRuns ==
    ASSUME Waiting, NEW op, op \in Executable[depth], BeginIgnore(op)
    PROVE  Running'
<1> DEFINE l == RearrangedLen(op)
<1>1. op \in Indexed(MaxDepth) /\ Need(op) <= depth
  BY ZenonT(40), ExecutableOp
<1>2. /\ l # 0 /\ StartSimulator("ignore", l, l)
      /\ real' = Exec(op, real, depth) /\ depth' = depth + Delta(op) /\ home' = Zeros(depth')
      /\ shadow' = real /\ sdepth' = depth
      /\ noDrop' = noDrop /\ reads' = reads /\ val' = val
  BY ZenonT(40), WaitingFacts DEF BeginIgnore, RealExec
<1>3. /\ Delta(op) = 0 /\ l \in Nat /\ Segment(depth, l, l)
      /\ Stacks(real', depth, shadow', depth, Zeros(depth))
      /\ KeepInSync(real', depth, shadow', depth, l, l)
  BY ZenonT(40), <1>1, <1>2, WaitingFacts, BeginIgnoreStacks
<1> HIDE DEF l
<1>4. depth' = depth /\ l \in Int
  BY SMTT(40), <1>2, <1>3, WaitingFacts
<1>5. InSync("ignore", real', depth', shadow', sdepth', l, l)
  BY ZenonT(40), <1>2, <1>3, <1>4 DEF InSync, KeepsCode
<1>6. QED
  BY ZenonT(40), <1>2, <1>3, <1>4, <1>5, WaitingFacts, BeginRuns DEF Kinds

(* SWAP => DROP. *)
LEMMA BeginSwapToDropRuns ==
    ASSUME Waiting, NEW op, op \in Executable[depth], BeginSwapToDrop(op)
    PROVE  Running'
<1>1. op \in Indexed(MaxDepth) /\ Need(op) <= depth
  BY ZenonT(40), ExecutableOp
<1>2. /\ isSWAP(op) /\ StartSimulator("swapToDrop", 2, 1)
      /\ real' = Exec(op, real, depth) /\ depth' = depth + Delta(op) /\ home' = Zeros(depth')
      /\ shadow' = Exec(DROP(1), real, depth) /\ sdepth' = depth + Delta(DROP(1))
      /\ noDrop' = noDrop /\ reads' = reads /\ val' = val
  BY ZenonT(40), WaitingFacts DEF BeginSwapToDrop, RealExec, ShadowExec
<1>3. /\ Delta(op) = 0 /\ Delta(DROP(1)) = -1 /\ Segment(depth, 2, 1)
      /\ Stacks(real', depth, shadow', depth - 1, Zeros(depth))
      /\ CutInSync(real', depth, shadow', depth - 1, 2, 1)
  BY ZenonT(40), <1>1, <1>2, WaitingFacts, BeginSwapToDropStacks
<1>4. depth' = depth /\ sdepth' = depth - 1
  BY SMTT(40), <1>2, <1>3, WaitingFacts
<1>5. InSync("swapToDrop", real', depth', shadow', sdepth', 2, 1)
  BY ZenonT(40), <1>3, <1>4 DEF InSync, KeepsCode
<1>6. QED
  BY SMTT(40), <1>2, <1>3, <1>4, <1>5, WaitingFacts, BeginRuns DEF Kinds

(* PUSH Si => DROP i; PUSH S0. *)
LEMMA BeginCutUnderRuns ==
    ASSUME Waiting, NEW i \in Nat, NEW scopeSize \in 0..depth, BeginCutUnder(i, scopeSize)
    PROVE  Running'
<1>1. /\ 0 < i /\ StartSimulator("cutUnder", i + 1, i)
      /\ Need(PUSH_S(i)) <= depth /\ depth + Delta(PUSH_S(i)) <= MaxDepth
      /\ real' = Exec(PUSH_S(i), real, depth) /\ depth' = depth + Delta(PUSH_S(i))
      /\ home' = Zeros(depth')
      /\ shadow' = Exec(PUSH_S(0), Exec(DROP(i), real, depth), depth - i)
      /\ sdepth' = depth - i + 1
      /\ noDrop' = noDrop /\ reads' = reads /\ val' = val
  BY ZenonT(40), WaitingFacts DEF BeginCutUnder, RealExec
<1>2. Delta(PUSH_S(i)) = 1 /\ i < depth /\ depth < MaxDepth
  BY SMTT(40), <1>1, WaitingFacts, BoundsAssumption DEF Delta, Need, PUSH_S, StackOp
<1>3. /\ i + 1 \in Int /\ Segment(depth + 1, i + 1, i)
      /\ Stacks(real', depth + 1, shadow', depth - i + 1, Zeros(depth + 1))
      /\ CutInSync(real', depth + 1, shadow', depth - i + 1, i + 1, i)
  BY ZenonT(40), <1>1, <1>2, WaitingFacts, BeginCutUnderStacks
<1>4. depth' = depth + 1
  BY ZenonT(40), <1>1, <1>2
<1>5. InSync("cutUnder", real', depth', shadow', sdepth', i + 1, i)
  BY ZenonT(40), <1>1, <1>3, <1>4 DEF InSync, KeepsCode
<1>6. QED
  BY ZenonT(40), <1>1, <1>3, <1>4, <1>5, WaitingFacts, BeginRuns DEF Kinds

(* PUSH Si => BLKSWAP 1, i. *)
LEMMA BeginRollRuns ==
    ASSUME Waiting, NEW i \in Nat, BeginRoll(i)
    PROVE  Running'
<1> DEFINE e == IF i >= 1 THEN BLKSWAP(1, i) ELSE NOP
<1>1. /\ StartSimulator("roll", i + 2, 1)
      /\ Need(PUSH_S(i)) <= depth /\ depth + Delta(PUSH_S(i)) <= MaxDepth
      /\ real' = Exec(PUSH_S(i), real, depth) /\ depth' = depth + Delta(PUSH_S(i))
      /\ home' = Zeros(depth')
      /\ shadow' = Exec(e, real, depth) /\ sdepth' = depth + Delta(e)
      /\ noDrop' = noDrop /\ reads' = reads /\ val' = val
  BY ZenonT(40), WaitingFacts DEF BeginRoll, RealExec, ShadowExec
<1>2. Delta(PUSH_S(i)) = 1 /\ i < depth /\ depth < MaxDepth
  BY SMTT(40), <1>1, WaitingFacts, BoundsAssumption DEF Delta, Need, PUSH_S, StackOp
<1>3. /\ Delta(e) = 0 /\ i + 2 \in Int /\ Segment(depth + 1, i + 2, 1)
      /\ Stacks(Exec(PUSH_S(i), real, depth), depth + 1, Exec(e, real, depth), depth,
                Zeros(depth + 1))
      /\ CutInSync(Exec(PUSH_S(i), real, depth), depth + 1, Exec(e, real, depth), depth, i + 2, 1)
  BY ZenonT(40), <1>2, WaitingFacts, BeginRollStacks
<1> HIDE DEF e
<1>4. depth' = depth + 1 /\ sdepth' = depth
  BY SMTT(40), <1>1, <1>2, <1>3, WaitingFacts
<1>5. InSync("roll", real', depth', shadow', sdepth', i + 2, 1)
  BY ZenonT(40), <1>1, <1>3, <1>4 DEF InSync, KeepsCode
<1>6. Stacks(real', depth', shadow', sdepth', home') /\ Segment(depth', i + 2, 1)
  BY ZenonT(40), <1>1, <1>3, <1>4
<1>7. QED
  BY ZenonT(40), <1>1, <1>3, <1>5, <1>6, WaitingFacts, BeginRuns DEF Kinds

(* DROP 1 leaves the top out. *)
LEMMA DropOneStacks ==
    ASSUME NEW d \in 0..MaxDepth, NEW r \in [0..(d - 1) -> Val], 1 <= d
    PROVE  /\ Delta(DROP(1)) = -1 /\ Segment(d, 1, 1)
           /\ Stacks(r, d, Exec(DROP(1), r, d), d - 1, Zeros(d))
           /\ CutInSync(r, d, Exec(DROP(1), r, d), d - 1, 1, 1)
<1> DEFINE s == Exec(DROP(1), r, d)
<1>1. MaxDepth \in Nat /\ d \in Nat
  BY SMTT(40), BoundsAssumption
<1>2. Delta(DROP(1)) = -1 /\ \A x \in Nat : Src(DROP(1), x) = x + 1
  BY ZenonT(40) DEF Delta, Src, DROP, StackOp
<1>3. s \in [0..(d - 2) -> Val] /\ \A x \in 0..(d - 2) : s[x] = r[x + 1]
  BY SMTT(40), <1>1 DEF Exec, Src, Delta, DROP, StackOp
<1>4. Zeros(d) \in [0..(d - 1) -> 0..MaxDepth]
  BY SMTT(40), <1>1 DEF Zeros
<1> HIDE DEF s
<1>5. Stacks(r, d, s, d - 1, Zeros(d))
  BY SMTT(40), <1>1, <1>3, <1>4 DEF Stacks, IsStack, IsLabelling
<1>6. CutInSync(r, d, s, d - 1, 1, 1) /\ Segment(d, 1, 1)
  BY SMTT(40), <1>1, <1>3 DEF CutInSync, With, Segment
<1>7. QED
  BY ZenonT(40), <1>2, <1>5, <1>6 DEF s

(* A DROP in front of an instruction. *)
LEMMA BeginDropFirstRuns ==
    ASSUME Waiting, NEW scopeSize \in 0..depth, NEW isPrevFlag,
           BeginDropFirst(scopeSize, isPrevFlag)
    PROVE  Running'
<1>1. /\ 1 <= depth /\ StartSimulator("dropFirst", 1, 1)
      /\ shadow' = Exec(DROP(1), real, depth) /\ sdepth' = depth + Delta(DROP(1))
      /\ real' = real /\ depth' = depth /\ home' = home
      /\ noDrop' = TRUE /\ reads' = reads /\ val' = val
  BY SMTT(40), WaitingFacts DEF BeginDropFirst, ShadowExec
<1>4. /\ Delta(DROP(1)) = -1 /\ Segment(depth, 1, 1)
      /\ Stacks(real, depth, Exec(DROP(1), real, depth), depth - 1, Zeros(depth))
      /\ CutInSync(real, depth, Exec(DROP(1), real, depth), depth - 1, 1, 1)
  BY ZenonT(40), <1>1, WaitingFacts, DropOneStacks
<1>5. sdepth' = depth - 1
  BY ZenonT(40), <1>1, <1>4, WaitingFacts
<1>6. InSync("dropFirst", real', depth', shadow', sdepth', 1, 1)
  BY ZenonT(40), <1>1, <1>4, <1>5 DEF InSync, KeepsCode
<1>7. Stacks(real', depth', shadow', sdepth', home')
  BY ZenonT(40), <1>1, <1>4, <1>5 DEF Waiting, Stacks
<1>8. /\ noDrop' \in BOOLEAN /\ reads' \in Reads /\ val' \in Val /\ Segment(depth', 1, 1)
      /\ StartSimulator("dropFirst", 1, 1)
  BY ZenonT(40), <1>1, <1>4, WaitingFacts
<1>9. QED
  BY SMTT(40), <1>6, <1>7, <1>8, BeginRuns DEF Kinds

(* DROP n => DROP n+1. *)
LEMMA BeginDropMoreRuns ==
    ASSUME Waiting, NEW n \in Nat, NEW scopeSize \in 0..depth, BeginDropMore(n, scopeSize)
    PROVE  Running'
<1>1. /\ n + 1 <= depth /\ StartSimulator("dropMore", 1, 1)
      /\ real' = Exec(DROP(n), real, depth) /\ depth' = depth + Delta(DROP(n))
      /\ home' = Zeros(depth')
      /\ shadow' = Exec(DROP(n + 1), real, depth) /\ sdepth' = depth + Delta(DROP(n + 1))
      /\ noDrop' = noDrop /\ reads' = reads /\ val' = val
  BY SMTT(40), WaitingFacts DEF BeginDropMore, RealExec, ShadowExec
<1>2. /\ Delta(DROP(n)) = -n /\ Delta(DROP(n + 1)) = -(n + 1) /\ Segment(depth - n, 1, 1)
      /\ Stacks(real', depth - n, shadow', depth - (n + 1), Zeros(depth - n))
      /\ CutInSync(real', depth - n, shadow', depth - (n + 1), 1, 1)
  BY ZenonT(40), <1>1, WaitingFacts, BeginDropStacks
<1>3. depth' = depth - n /\ sdepth' = depth - (n + 1)
  BY ZenonT(40), <1>1, <1>2, WaitingFacts
<1>4. InSync("dropMore", real', depth', shadow', sdepth', 1, 1)
  BY ZenonT(40), <1>2, <1>3 DEF InSync, KeepsCode
<1>5. QED
  BY SMTT(40), <1>1, <1>2, <1>3, <1>4, WaitingFacts, BeginRuns DEF Kinds

(* Every way in which a trial begins. *)
LEMMA BeginInv ==
    ASSUME Waiting, Begin PROVE IInv'
<1>1. MaxDepth \in Nat
  BY ZenonT(40), BoundsAssumption
<1>2. ASSUME NEW i \in 0..MaxDepth, NEW scopeSize \in 0..depth, BeginCutUnder(i, scopeSize)
      PROVE  Running'
  BY SMTT(40), <1>1, <1>2, BeginCutUnderRuns
<1>3. ASSUME NEW i \in 0..MaxDepth, BeginRoll(i) PROVE Running'
  BY SMTT(40), <1>1, <1>3, BeginRollRuns
<1>4. ASSUME NEW n \in 1..MaxDepth, NEW scopeSize \in 0..depth, BeginDropMore(n, scopeSize)
      PROVE  Running'
  BY SMTT(40), <1>1, <1>4, BeginDropMoreRuns
<1>5. QED
  BY ZenonT(40), <1>2, <1>3, <1>4, BeginGenRuns, BeginPopToDropRuns, BeginIgnoreRuns,
     BeginSwapToDropRuns, BeginDropFirstRuns, RunningIInv DEF Begin

-----------------------------------------------------------------------------
(* Every step of a trial over an instruction without a body. *)
LEMMA SimulateLeafInv ==
    ASSUME Running, SimulateLeaf
    PROVE  IInv'
<1>1. MaxArgs \in Nat
  BY ZenonT(40), BoundsAssumption
<1>2. ASSUME NEW t \in Args, NEW n \in Args,
             VisitPlain(t, n) \/ VisitCall(t, n) \/ VisitExecute(t, n) \/ VisitRand(t, n)
      PROVE  IInv'
  BY SMTT(40), <1>1, <1>2, VisitGenInv DEF Args
<1>3. ASSUME VisitSetGlob PROVE IInv'
  BY ZenonT(40), <1>3, VisitGenInv
<1>4. ASSUME NEW t \in Args, NEW withIf \in BOOLEAN, VisitException(t, withIf) PROVE IInv'
  BY SMTT(40), <1>1, <1>4, VisitExceptionInv DEF Args
<1>5. QED
  BY ZenonT(40), <1>2, <1>3, <1>4, StepStackInv, StepPopAndDropInv, VisitGetGlobInv DEF SimulateLeaf

(* Initially nothing has been rewritten. *)
LEMMA InitIInv == Init => IInv
<1> SUFFICES ASSUME Init PROVE IInv
  BY ZenonT(40)
<1>1. /\ phase = "idle" /\ kind = "none" /\ depth \in 0..MaxDepth
      /\ real \in [0..(depth - 1) -> Val] /\ shadow = real /\ sdepth = depth
      /\ home = Zeros(depth) /\ size = 0 /\ seg = 0 /\ noDrop = FALSE /\ frames = <<>>
      /\ reads = "nothing" /\ glob \in Val /\ val = glob /\ globSet = FALSE /\ wasCall = FALSE
      /\ fault = "none"
  BY ZenonT(40) DEF Init
<1>2. depth \in Int
  BY SMTT(40), <1>1, BoundsAssumption
<1>3. IsLabelling(home, depth)
  BY ZenonT(40), <1>1, <1>2, ZerosType DEF IsLabelling
<1>4. Stacks(real, depth, shadow, sdepth, home)
  BY ZenonT(40), <1>1, <1>3 DEF Stacks, IsStack
<1>5. Bodies(frames)
  BY ZenonT(40), <1>1, NoBodies
<1>6. noDrop \in BOOLEAN /\ reads \in Reads /\ globSet \in BOOLEAN /\ wasCall \in BOOLEAN
  BY ZenonT(40), <1>1 DEF Reads
<1>7. size \in Int /\ seg \in Nat /\ val \in Val /\ glob \in Val
  BY SMTT(40), <1>1
<1>8. /\ phase \in {"idle", "run"} \cup Terminal /\ kind \in Kinds
      /\ fault \in {"none", "args", "maker", "underflow"}
  BY ZenonT(40), <1>1 DEF Kinds
<1>9. TypeOK
  BY ZenonT(40), <1>4, <1>5, <1>6, <1>7, <1>8 DEF TypeOK
<1>10. QED
  BY ZenonT(40), <1>1, <1>9 DEF IInv, Untouched, SegmentInside, ShadowInSync, SegmentTracked,
     MovedValueKept, SameExceptMoved

(* The Simulator moves only while it runs. *)
LEMMA OnlyWhenRunning ==
    SimulateLeaf \/ SimulateBody \/ EndOfCode => phase = "run"
BY ZenonT(60) DEF SimulateLeaf, StepStack, StepPopAndDrop, VisitPlain, VisitCall, VisitExecute, VisitRand, GenUnable,
       GenGo, VisitGetGlob, VisitSetGlob, VisitException, SimulateBody, VisitIfElse, SkipIfElse,
       SkipBody, EndIfElse, AtBodyEnd, VisitLogCircuit, SkipLogCircuit, EndLogCircuit,
       VisitSubProgram, EndSubProgram, VisitRepeat, SkipRepeat, EndRepeat, VisitUntil, EndUntil,
       VisitWhile, EnterBody, EndCondition, EndWhileBody, VisitReturnOrBreakOrCont,
       OtherBodyUnable, EndOfCode

(* Every step preserves IInv. *)
LEMMA NextIInv == IInv /\ [Next]_vars => IInv'
<1> SUFFICES ASSUME IInv, [Next]_vars PROVE IInv'
  BY ZenonT(40)
<1>1. CASE UNCHANGED vars
  <2>1. /\ phase' = phase /\ kind' = kind /\ real' = real /\ depth' = depth
        /\ shadow' = shadow /\ sdepth' = sdepth /\ home' = home /\ fault' = fault
        /\ size' = size /\ seg' = seg /\ noDrop' = noDrop /\ frames' = frames
        /\ reads' = reads /\ val' = val /\ glob' = glob /\ globSet' = globSet
        /\ wasCall' = wasCall
    BY ZenonT(40), <1>1 DEF vars, stackVars, simVars, globVars
  <2>2. InLeave' = InLeave
    BY ZenonT(40), <2>1 DEF InLeave, Top
  <2>3. QED
    BY SMTT(40), <2>1, <2>2 DEF IInv, TypeOK, Untouched, SegmentInside, ShadowInSync, SegmentTracked,
       MovedValueKept, SameExceptMoved
<1>2. CASE Running /\ Next
  <2>1. phase = "run" /\ phase \notin Terminal
    BY ZenonT(40), <1>2 DEF Running, Terminal
  <2>2. ~Begin /\ ~NoRewrite /\ ~Finished
    BY ZenonT(40), <2>1 DEF Begin, BeginMove, BeginPopToDrop, BeginIgnore, BeginSwapToDrop, BeginCutUnder,
       BeginRoll, BeginDelGen, BeginDropFirst, BeginDropMore, StartSimulator, NoRewrite, Finished
  <2>3. EndOfCode => IInv'
    BY ZenonT(40), <1>2, RejectInv, OverIInv DEF EndOfCode
  <2>4. QED
    BY ZenonT(40), <1>2, <2>2, <2>3, SimulateLeafInv, SimulateBodyInv DEF Next
<1>3. CASE Waiting /\ Next
  <2>1. Begin => IInv'
    BY ZenonT(40), <1>3, BeginInv
  <2>2. NoRewrite => IInv'
    BY ZenonT(40), <1>3, RejectInv, OverIInv DEF NoRewrite
  <2>3. phase = "idle"
    BY ZenonT(40), <1>3 DEF Waiting
  <2>4. QED
    BY ZenonT(40), <1>3, <2>1, <2>2, <2>3, OnlyWhenRunning DEF Next, Finished, Terminal
<1>4. CASE Over /\ Next
  <2>1. phase \in Terminal /\ phase \notin {"idle", "run"}
    BY ZenonT(40), <1>4 DEF Over, Terminal
  <2>2. ~Begin /\ ~NoRewrite
    BY ZenonT(40), <2>1 DEF Begin, BeginMove, BeginPopToDrop, BeginIgnore, BeginSwapToDrop, BeginCutUnder,
       BeginRoll, BeginDelGen, BeginDropFirst, BeginDropMore, StartSimulator, NoRewrite
  <2>3. QED
    BY ZenonT(40), <1>1, <1>4, <2>1, <2>2, OnlyWhenRunning DEF Next, Finished
<1>5. QED
  BY ZenonT(40), <1>1, <1>2, <1>3, <1>4, IInvCases

(* Two stacks with the same values are the same. *)
LEMMA SameStacks ==
    ASSUME NEW d, NEW r, NEW s, IsStack(r, d), IsStack(s, d),
           \A x \in 0..(d - 1) : s[x] = r[x]
    PROVE  s = r
<1>1. d - 1 \in Int /\ r \in [0..(d - 1) -> Val] /\ s \in [0..(d - 1) -> Val]
  BY SMTT(40), BoundsAssumption DEF IsStack
<1>2. QED
  BY ZenonT(40), <1>1, SameValues

-----------------------------------------------------------------------------
(* IInv holds in every state: while a Simulator of successfullyUpdate runs *)
(* the rewritten program's stack is the original one but for the segment.  *)
THEOREM Invariance == Spec => []IInv
BY InitIInv, NextIInv, PTL DEF Spec

(* The state of the optimizer and of the two programs has its type. *)
THEOREM TypeCorrect == Spec => []TypeOK
<1>1. IInv => TypeOK
  BY ZenonT(40) DEF IInv
<1>2. QED
  BY <1>1, Invariance, PTL

(* The assertions of Simulator::run and Simulator::rest never fail.        *)
THEOREM SegmentStaysInside == Spec => []SegmentInside
<1>1. IInv => SegmentInside
  BY ZenonT(40) DEF IInv
<1>2. QED
  BY <1>1, Invariance, PTL

(* The Simulator's view of the stack, m_stackSize and m_segment, is right  *)
(* after every instruction it converts.                                    *)
THEOREM ShadowStaysInSync == Spec => []ShadowInSync
<1>1. IInv => ShadowInSync
  BY ZenonT(40) DEF IInv
<1>2. QED
  BY <1>1, Invariance, PTL

(* No instruction of a rewritten program takes other values than it took   *)
(* in the original one, and its stack never underflows.                    *)
THEOREM ArgumentsAreKept == Spec => []SameArguments
<1>1. IInv => SameArguments
  BY ZenonT(40) DEF IInv, SameArguments
<1>2. QED
  BY <1>1, Invariance, PTL

(* No assertion of the make* constructors fails in the Simulator: every    *)
(* instruction it puts into the rewritten program has indices that the     *)
(* constructor accepts.                                                    *)
THEOREM EmissionsWellFormed == Spec => []EmitsWellFormed
<1>1. IInv => EmitsWellFormed
  BY ZenonT(40) DEF IInv, EmitsWellFormed
<1>2. QED
  BY <1>1, Invariance, PTL

(* The assertion that is commented out in Simulator::trySimulate holds for *)
(* every body whose code keeps the contract of the code generator.         *)
THEOREM BodyEndsWithItsSize == Spec => []BodyEndSize
<1>1. IInv => BodyEndSize
  <2> SUFFICES ASSUME IInv, phase = "run", frames # <<>>, ~InLeave, BodyDone
               PROVE  size = Top.size0 + Top.ret
    BY ZenonT(40) DEF BodyEndSize
  <2>1. Running
    BY ZenonT(40), IInvCases DEF Over, Waiting, Terminal
  <2>2. Top.kind \in BodyKinds
    BY ZenonT(40), <2>1, TopType DEF Running, Top
  <2>3. Top.kind \in BodyKinds \ {"leave"}
    BY ZenonT(40), <2>2 DEF InLeave
  <2>4. AtBodyEnd(Top.kind)
    BY ZenonT(40) DEF AtBodyEnd
  <2>5. QED
    BY ZenonT(40), <2>1, <2>3, <2>4, AtBodyEndFacts
<1>2. QED
  BY <1>1, Invariance, PTL

(* Whatever calls there are and whatever changes the seed, a rewrite that  *)
(* is kept can change only the value of a GETGLOB or RANDSEED it moves.    *)
THEOREM OnlyMovedReadDiffers == Spec => []OnlyMovedValueDiffers
<1>1. IInv => OnlyMovedValueDiffers
  BY ZenonT(40) DEF IInv, SameExceptMoved, OnlyMovedValueDiffers
<1>2. QED
  BY <1>1, Invariance, PTL

(* If every call is spelled CALL and no RANDSEED is moved, a rewrite that  *)
(* is kept leaves the stack of the original program, whether the run goes  *)
(* on behind the rewritten code or leaves the block by return, break or    *)
(* continue.                                                               *)
THEOREM KeptRewritesAreRight ==
    ASSUME ~SilentCalls, ~RandSeed PROVE Spec => []SameStack
<1>1. IInv => SameStack
  <2> SUFFICES ASSUME IInv, phase \in {"committed", "left"}
               PROVE  sdepth = depth /\ shadow = real
    BY ZenonT(40) DEF SameStack
  <2>1. sdepth = depth /\ \A x \in 0..(depth - 1) : shadow[x] = real[x]
    BY ZenonT(40) DEF IInv, TypeOK, Reads, SameExceptMoved
  <2>2. IsStack(real, depth) /\ IsStack(shadow, depth)
    BY ZenonT(40), <2>1 DEF IInv, TypeOK, Stacks
  <2>3. shadow = real
    BY ZenonT(40), <2>1, <2>2, SameStacks
  <2>4. QED
    BY ZenonT(40), <2>1, <2>3
<1>2. QED
  BY <1>1, Invariance, PTL
=============================================================================
