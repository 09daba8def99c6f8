-------------------------- MODULE ControlFlowProofs --------------------------
(***************************************************************************)
(* The jumps of ControlFlow arrive, with the right stack, in every         *)
(* function: for every number of parameters and results, every nesting of  *)
(* statements and every depth of the stack.                                *)
(***************************************************************************)
EXTENDS ControlFlow, SequenceTheorems, WellFoundedInduction, TLAPS

-----------------------------------------------------------------------------
(* The inductive invariant.                                                *)

Kind == {"function", "block", "if"} \cup LoopKind
FrameSet == [kind : Kind, can : SUBSET Exit, flag : BOOLEAN, jmp : BOOLEAN,
             size : Nat, saved : Nat, vars : Nat]
Value == {"variable", "named", "result"} \cup Flag

\* The function's own frame: its size is that of the arguments and of the allocated results.
FunctionFrame(f) ==
    /\ f.kind = "function" /\ ~f.flag
    /\ f.can \subseteq {"return"}
    /\ f.size = ArgQty + f.vars
    /\ f.vars \in {0, RetQty}
    /\ ~f.jmp => f.vars = RetQty

\* The statement at i was opened inside the ones before it.
Opened(fs, i) ==
    /\ fs[i].kind # "function"
    /\ \A j \in 1..(i - 1) : fs[j].size <= fs[i].saved
    /\ fs[i].kind \in {"block", "if"} =>
         /\ fs[i].can \subseteq fs[i - 1].can
         /\ fs[i].size = fs[i].saved + OneIf(fs[i].flag)
    /\ fs[i].kind = "block" => ~fs[i].flag
    /\ fs[i].kind = "if" =>
         fs[i].flag = IfNeedsFlag(fs[i].can, fs[i].jmp, \E j \in 1..(i - 1) : IsLoop(fs[j]))
    /\ IsLoop(fs[i]) =>
         /\ "return" \in fs[i].can => "return" \in fs[i - 1].can
         /\ fs[i].flag = LoopNeedsFlag(fs[i].can)
         /\ fs[i].size = fs[i].saved + fs[i].vars + OneIf(fs[i].flag)
         /\ LoopVarQty(fs[i]) = fs[i].vars
         /\ "continue" \in fs[i].can /\ (\E j \in 1..(i - 1) : fs[j].flag) => "return" \in fs[i].can

Nested(fs) ==
    /\ fs \in Seq(FrameSet) /\ Len(fs) >= 1
    /\ FunctionFrame(fs[1])
    /\ \A i \in 2..Len(fs) : Opened(fs, i)

\* The flag of the statement at i is where it was pushed.
FlagAt(fs, s, i) ==
    fs[i].flag =>
      \/ s[fs[i].size] = "noFlag"
      \/ s[fs[i].size] = "continueFlag" /\ IsLoop(fs[i]) /\ "continue" \in fs[i].can

\* The allocated results are where they were pushed.
NamedThere(fs, s) == \A i \in (ArgQty + 1)..fs[1].size : s[i] = "named"

\* No jump is under way, or a break that has left its loop.
Going(p, fs, s, sz) ==
    /\ p \in {"body", "next", "head", "afterIf", "afterLoop"}
    /\ Len(s) = sz /\ sz >= fs[Len(fs)].size
    /\ p # "body" => sz = fs[Len(fs)].size
    /\ \A i \in 1..Len(fs) : FlagAt(fs, s, i)
    /\ NamedThere(fs, s)
    /\ p = "afterIf" => fs[Len(fs)].kind = "if"
    /\ p \in {"next", "head", "afterLoop"} => IsLoop(fs[Len(fs)])

\* l is the loop that a continue in the innermost statement means.
LoopOf(exit, fs, l) ==
    /\ l \in 1..Len(fs) /\ IsLoop(fs[l])
    /\ \A i \in l..Len(fs) : exit \in fs[i].can
    /\ \A i \in (l + 1)..Len(fs) : ~IsLoop(fs[i])

\* A continue is on its way to the loop at l.
Continuing(p, fs, s, l) ==
    /\ p = "afterIf" /\ fs[Len(fs)].kind = "if" /\ fs[Len(fs)].flag
    /\ LoopOf("continue", fs, l)
    /\ Len(s) = fs[l].size - OneIf(fs[l].flag) + 1
    /\ s[Len(s)] = "continueFlag"
    /\ \A i \in 1..(l - 1) : FlagAt(fs, s, i)
    /\ NamedThere(fs, s)

\* A return is on its way out of the function.
Returning(p, fs, s) ==
    /\ \/ p = "afterIf" /\ fs[Len(fs)].kind = "if" /\ ~hasLoop(fs)
       \/ p = "afterLoop" /\ IsLoop(fs[Len(fs)])
    /\ fs[Len(fs)].flag
    /\ \A i \in 1..Len(fs) : "return" \in fs[i].can
    /\ s = Append(Copies("result", RetQty), "returnFlag")

Good(p, fs, s, sz, g) ==
    /\ Nested(fs)
    /\ s \in Seq(Value) /\ sz \in Nat
    /\ \/ g = NoGoal /\ Going(p, fs, s, sz)
       \/ /\ g = [to |-> "break", at |-> Len(fs)]
          /\ p = "afterLoop" /\ Going(p, fs, s, sz)
       \/ \E l \in 1..Len(fs) : g = [to |-> "continue", at |-> l] /\ Continuing(p, fs, s, l)
       \/ g = [to |-> "return", at |-> 1] /\ Returning(p, fs, s)
       \/ /\ g = NoGoal /\ p = "done"
          /\ s \in {Copies(v, RetQty) : v \in {"result", "named"}}

IInv == Good(pc, frames, stack, size, goal)

-----------------------------------------------------------------------------
(* Sequences.                                                              *)

LEMMA LastExists ==
  ASSUME NEW n \in Nat, NEW S, S \subseteq 1..n, S # {}
  PROVE  LastOf(S) \in S /\ \A j \in S : j <= LastOf(S)
<1> DEFINE T == {m \in Nat : n - m \in S}
           R == OpToRel(<, Nat)
<1>1. T \subseteq Nat /\ T # {}
  <2>1. PICK i \in S : TRUE
    BY ZenonT(40)
  <2>2. i \in 1..n /\ n - i \in Nat /\ n - (n - i) = i
    BY <2>1
  <2> QED
    BY ZenonT(40), <2>1, <2>2
<1>2. \E x \in T : \A y \in T : ~ (<<y, x>> \in R)
  <2> HIDE DEF T, R
  <2>1. IsWellFoundedOn(R, Nat)
    BY ZenonT(40), NatLessThanWellFounded DEF R
  <2> QED
    BY ZenonT(40), <1>1, <2>1, WFMin
<1>3. PICK x \in T : \A y \in T : ~ (y < x)
  BY ZenonT(40), <1>1, <1>2 DEF OpToRel
<1>4. n - x \in S
  BY ZenonT(40)
<1>5. ASSUME NEW j \in S PROVE j <= n - x
  <2>1. j \in 1..n /\ n - j \in Nat /\ n - (n - j) = j
    OBVIOUS
  <2>2. n - j \in T /\ x \in Nat
    BY ZenonT(40), <2>1
  <2> HIDE DEF T, R
  <2> QED
    BY <1>3, <2>1, <2>2
<1> QED
  BY ZenonT(40), <1>4, <1>5 DEF LastOf

LEMMA PrefixIs ==
  ASSUME NEW T, NEW s \in Seq(T), NEW n \in 0..Len(s)
  PROVE  /\ SubSeq(s, 1, n) \in Seq(T)
         /\ Len(SubSeq(s, 1, n)) = n
         /\ \A i \in 1..n : SubSeq(s, 1, n)[i] = s[i]
  BY SubSeqProperties, ElementOfSeq

LEMMA Associative ==
  ASSUME NEW s \in Seq(Value), NEW t \in Seq(Value), NEW u \in Seq(Value)
  PROVE  (s \o t) \o u = s \o (t \o u)
  BY SMTT(40), ConcatAssociative

LEMMA FlagValues == Value = {"variable", "named", "result", "noFlag", "continueFlag", "returnFlag"}
  BY ZenonT(40) DEF Value, Flag

LEMMA CopiesIs ==
  ASSUME NEW v \in Value, NEW n \in Nat
  PROVE  /\ Copies(v, n) \in Seq(Value)
         /\ Len(Copies(v, n)) = n
         /\ \A i \in 1..n : Copies(v, n)[i] = v
  BY DEF Copies

-----------------------------------------------------------------------------
(* Nesting.                                                                *)

LEMMA PrefixNested ==
  ASSUME NEW fs, Nested(fs), NEW k \in 1..Len(fs)
  PROVE  Nested(SubSeq(fs, 1, k))
<1> DEFINE gs == SubSeq(fs, 1, k)
<1>1. gs \in Seq(FrameSet) /\ Len(gs) = k /\ \A i \in 1..k : gs[i] = fs[i]
  BY PrefixIs DEF Nested
<1>2. ASSUME NEW i \in 2..k PROVE Opened(gs, i)
  <2> HIDE DEF gs
  <2>1. Opened(fs, i) /\ gs[i] = fs[i] /\ gs[i - 1] = fs[i - 1] /\ \A j \in 1..(i - 1) : gs[j] = fs[j]
    BY <1>1 DEF Nested
  <2> QED
    BY ZenonT(40), <2>1 DEF Opened
<1>3. Nested(gs)
  <2> HIDE DEF gs
  <2> QED
    BY <1>1, <1>2 DEF Nested
<1> QED
  BY ZenonT(40), <1>3

LEMMA AppendNested ==
  ASSUME NEW fs, Nested(fs), NEW f \in FrameSet, Opened(Append(fs, f), Len(fs) + 1)
  PROVE  Nested(Append(fs, f))
<1> DEFINE gs == Append(fs, f)
<1>1. gs \in Seq(FrameSet) /\ Len(gs) = Len(fs) + 1 /\ \A i \in 1..Len(fs) : gs[i] = fs[i]
  BY AppendProperties DEF Nested
<1>2. ASSUME NEW i \in 2..Len(fs) PROVE Opened(gs, i)
  <2> HIDE DEF gs
  <2>1. Opened(fs, i) /\ gs[i] = fs[i] /\ gs[i - 1] = fs[i - 1] /\ \A j \in 1..(i - 1) : gs[j] = fs[j]
    BY <1>1 DEF Nested
  <2> QED
    BY ZenonT(40), <2>1 DEF Opened
<1>3. Opened(gs, Len(gs))
  BY ZenonT(40), <1>1
<1>4. Nested(gs)
  <2> HIDE DEF gs
  <2> QED
    BY <1>1, <1>2, <1>3 DEF Nested
<1> QED
  BY ZenonT(40), <1>4

\* A return may be in every statement around one it may be in.
LEMMA ReturnOutside ==
  ASSUME NEW fs, Nested(fs), "return" \in fs[Len(fs)].can
  PROVE  \A i \in 1..Len(fs) : "return" \in fs[i].can
<1> DEFINE S == {i \in 1..Len(fs) : "return" \notin fs[i].can}
<1> SUFFICES ASSUME S # {} PROVE FALSE
  BY ZenonT(40)
<1>1. Len(fs) \in Nat /\ S \subseteq 1..Len(fs)
  BY DEF Nested
<1>2. PICK m \in S : \A j \in S : j <= m
  <2> HIDE DEF S
  <2> QED
    BY ZenonT(40), <1>1, LastExists
<1>3. m \in 1..Len(fs) /\ m # Len(fs) /\ m + 1 \in 2..Len(fs) /\ "return" \in fs[m + 1].can
  BY <1>1, <1>2
<1>4. fs[m + 1] \in FrameSet /\ Opened(fs, m + 1) /\ (m + 1) - 1 = m
  BY <1>3 DEF Nested
<1>5. "return" \in fs[m].can
  BY ZenonT(40), <1>3, <1>4 DEF Opened, FrameSet, Kind, IsLoop
<1> QED
  BY ZenonT(40), <1>2, <1>5

\* A break or a continue is inside a loop that knows of it.
LEMMA LoopAround ==
  ASSUME NEW fs, Nested(fs), NEW exit \in {"break", "continue"}, exit \in fs[Len(fs)].can
  PROVE  /\ LoopOf(exit, fs, LastOf({i \in 1..Len(fs) : IsLoop(fs[i])}))
         /\ \A l : LoopOf(exit, fs, l) => l = LastOf({i \in 1..Len(fs) : IsLoop(fs[i])})
<1> DEFINE S == {i \in 1..Len(fs) : IsLoop(fs[i]) \/ exit \notin fs[i].can}
           K == {i \in 1..Len(fs) : IsLoop(fs[i])}
<1>1. Len(fs) \in Nat \ {0} /\ FunctionFrame(fs[1]) /\ fs \in Seq(FrameSet)
  BY DEF Nested
<1>2. S \subseteq 1..Len(fs) /\ 1 \in S
  BY <1>1 DEF FunctionFrame
<1>3. PICK m \in S : \A j \in S : j <= m
  <2> HIDE DEF S
  <2> QED
    BY ZenonT(40), <1>1, <1>2, LastExists
<1>4. \A i \in (m + 1)..Len(fs) : ~IsLoop(fs[i]) /\ exit \in fs[i].can
  BY <1>1, <1>3
<1>5. exit \in fs[m].can
  <2>1. CASE m = Len(fs)
    BY ZenonT(40), <2>1
  <2>2. CASE m # Len(fs)
    <3>1. m + 1 \in 2..Len(fs) /\ (m + 1) - 1 = m /\ fs[m + 1] \in FrameSet
      BY <1>1, <2>2
    <3>2. Opened(fs, m + 1) /\ ~IsLoop(fs[m + 1]) /\ exit \in fs[m + 1].can
      BY <1>4, <3>1 DEF Nested
    <3> QED
      BY ZenonT(40), <3>1, <3>2 DEF Opened, FrameSet, Kind, IsLoop
  <2> QED
    BY ZenonT(40), <2>1, <2>2
<1>6. IsLoop(fs[m])
  BY ZenonT(40), <1>3, <1>5
<1>7. LoopOf(exit, fs, m)
  BY <1>1, <1>3, <1>4, <1>5, <1>6 DEF LoopOf
<1>8. ASSUME NEW l, LoopOf(exit, fs, l) PROVE l = LastOf(K)
  <2>1. l \in K /\ \A j \in K : j <= l
    BY <1>1, <1>8 DEF LoopOf
  <2> HIDE DEF K
  <2>2. K \subseteq 1..Len(fs)
    BY ZenonT(40) DEF K
  <2>3. LastOf(K) \in K /\ \A j \in K : j <= LastOf(K)
    BY ZenonT(40), <1>1, <2>1, <2>2, LastExists
  <2>4. l \in Int /\ LastOf(K) \in Int
    <3>1. l \in 1..Len(fs) /\ LastOf(K) \in 1..Len(fs)
      BY ZenonT(40), <2>1, <2>2, <2>3
    <3> QED
      BY <3>1, <1>1
  <2>5. l <= LastOf(K) /\ LastOf(K) <= l
    BY ZenonT(40), <2>1, <2>3
  <2> QED
    BY <2>4, <2>5
<1> QED
  BY ZenonT(40), <1>7, <1>8

-----------------------------------------------------------------------------
(* RET and RETALT.                                                         *)

LastCalled(fs) == LastOf({i \in 1..Len(fs) : Called(fs[i])})

\* Between the innermost called continuation and the code that runs there are no loops and no flags.
LEMMA CalledLast ==
  ASSUME NEW fs, Nested(fs)
  PROVE  /\ LastCalled(fs) \in 1..Len(fs) /\ Called(fs[LastCalled(fs)])
         /\ \A i \in (LastCalled(fs) + 1)..Len(fs) : ~fs[i].flag /\ ~IsLoop(fs[i]) /\ ~Called(fs[i])
<1> DEFINE S == {i \in 1..Len(fs) : Called(fs[i])}
           k == LastOf(S)
<1>1. Len(fs) \in Nat \ {0} /\ fs \in Seq(FrameSet)
  BY DEF Nested
<1>2. 1 \in S /\ S \subseteq 1..Len(fs)
  BY <1>1 DEF Nested, FunctionFrame, Called
<1>3. k \in S /\ \A j \in S : j <= k
  <2> HIDE DEF S
  <2> QED
    BY ZenonT(40), <1>1, <1>2, LastExists
<1>4. ASSUME NEW i \in (k + 1)..Len(fs) PROVE ~fs[i].flag /\ ~IsLoop(fs[i]) /\ ~Called(fs[i])
  <2>1. i \in 2..Len(fs) /\ i \notin S
    <3> HIDE DEF S, k
    <3> QED
      BY <1>1, <1>2, <1>3
  <2>2. ~Called(fs[i]) /\ Opened(fs, i) /\ fs[i] \in FrameSet
    BY <1>1, <2>1 DEF Nested
  <2> QED
    BY ZenonT(40), <2>2 DEF Called, Opened, IfNeedsFlag, FrameSet, Kind, IsLoop
<1> QED
  BY ZenonT(40), <1>3, <1>4 DEF LastCalled

LEMMA PrefixFrames ==
  ASSUME NEW fs, Nested(fs), NEW k \in 1..Len(fs)
  PROVE  /\ Nested(SubSeq(fs, 1, k)) /\ Len(SubSeq(fs, 1, k)) = k
         /\ \A i \in 1..k : SubSeq(fs, 1, k)[i] = fs[i]
         /\ \A i \in 1..Len(fs) : fs[i] \in FrameSet /\ fs[i].size \in Nat
         /\ \A i \in 1..k : fs[i].size <= fs[k].size
<1>1. fs \in Seq(FrameSet) /\ \A i \in 1..Len(fs) : fs[i] \in FrameSet /\ fs[i].size \in Nat /\ fs[i].saved \in Nat
                                                    /\ fs[i].vars \in Nat
  <2>1. fs \in Seq(FrameSet) /\ \A i \in 1..Len(fs) : fs[i] \in FrameSet
    BY DEF Nested
  <2> QED
    BY ZenonT(40), <2>1 DEF FrameSet
<1>2. ASSUME NEW i \in 1..k PROVE fs[i].size <= fs[k].size
  <2>1. CASE i = k
    BY <1>1, <2>1
  <2>2. CASE i # k
    <3>1. k \in 2..Len(fs) /\ i \in 1..(k - 1)
      BY <2>2 DEF Nested
    <3>2. Opened(fs, k) /\ fs[k] \in FrameSet
      BY ZenonT(40), <1>1, <3>1 DEF Nested
    <3>3. fs[i].size <= fs[k].saved
      BY ZenonT(40), <3>1, <3>2 DEF Opened
    <3>4. fs[k].saved <= fs[k].size
      BY SMTT(40), <1>1, <3>2 DEF Opened, OneIf, FrameSet, Kind, IsLoop
    <3> QED
      BY <1>1, <3>3, <3>4
  <2> QED
    BY ZenonT(40), <2>1, <2>2
<1> QED
  BY <1>1, <1>2, PrefixIs, PrefixNested

LEMMA ResultsTyped ==
  /\ Copies("result", RetQty) \in Seq(Value)
  /\ Append(Copies("result", RetQty), "returnFlag") \in Seq(Value)
  /\ Len(Append(Copies("result", RetQty), "returnFlag")) = RetQty + 1
  /\ Append(Copies("result", RetQty), "returnFlag")[RetQty + 1] = "returnFlag"
  /\ SubSeq(Append(Copies("result", RetQty), "returnFlag"), 1, RetQty) = Copies("result", RetQty)
<1> DEFINE c == Copies("result", RetQty)
<1>1. c \in Seq(Value) /\ Len(c) = RetQty /\ \A i \in 1..RetQty : c[i] = "result"
  BY ControlFlowAssumption DEF Copies, Value
<1> HIDE DEF c
<1>2. "returnFlag" \in Value
  BY ZenonT(40) DEF Value, Flag
<1>3. /\ Append(c, "returnFlag") \in Seq(Value) /\ Len(Append(c, "returnFlag")) = RetQty + 1
      /\ Append(c, "returnFlag")[RetQty + 1] = "returnFlag"
      /\ \A i \in 1..RetQty : Append(c, "returnFlag")[i] = c[i]
  BY <1>1, <1>2, AppendProperties
<1>4. SubSeq(Append(c, "returnFlag"), 1, RetQty) = c
  <2> DEFINE d == SubSeq(Append(c, "returnFlag"), 1, RetQty)
  <2>1. d \in Seq(Value) /\ Len(d) = RetQty /\ \A i \in 1..RetQty : d[i] = c[i]
    BY <1>3, PrefixIs, ControlFlowAssumption
  <2> HIDE DEF d
  <2>2. d = c
    BY ZenonT(40), <1>1, <2>1, SeqEqual
  <2> QED
    BY ZenonT(40), <2>2 DEF d
<1> QED
  BY ZenonT(40), <1>1, <1>3, <1>4 DEF c

\* The stack of a return on its way, where the code around it is fs.
ReturnStack(fs) == IF lastAnalyzeFlag(fs) THEN Append(Copies("result", RetQty), "returnFlag")
                                          ELSE Copies("result", RetQty)

\* Outside loops a return ends the function or stops behind an if that looks at the flag.
LEMMA RetReturns ==
  ASSUME NEW fs, Nested(fs), \A i \in 1..Len(fs) : "return" \in fs[i].can, ~hasLoop(fs),
         RET(fs, ReturnStack(fs), [to |-> "return", at |-> 1])
  PROVE  IInv' /\ pc' # "body"
<1> DEFINE k == LastCalled(fs)
           gs == SubSeq(fs, 1, k)
           s == ReturnStack(fs)
           g == [to |-> "return", at |-> 1]
<1>1. /\ k \in 1..Len(fs) /\ Called(fs[k])
      /\ \A i \in (k + 1)..Len(fs) : ~fs[i].flag /\ ~IsLoop(fs[i])
  BY ZenonT(40), CalledLast
<1>2. /\ Nested(gs) /\ Len(gs) = k /\ \A i \in 1..k : gs[i] = fs[i]
      /\ fs[k] \in FrameSet /\ fs[k].size \in Nat
  BY ZenonT(40), <1>1, PrefixFrames
<1>3. s \in Seq(Value)
  BY ZenonT(40), ResultsTyped DEF ReturnStack
<1>4. frames' = gs /\ stack' = s /\ size' = fs[k].size /\ goal' = (IF Reached(g, pc', gs) THEN NoGoal ELSE g)
  BY ZenonT(40) DEF RET, Goto, LastCalled
<1>5. ~IsLoop(fs[k])
  BY ZenonT(40), <1>1 DEF hasLoop
<1>6. pc' = IF fs[k].kind = "function" THEN "done" ELSE "afterIf"
  BY ZenonT(40), <1>1, <1>5 DEF RET, Goto, LastCalled, Called
<1>7. CASE k = 1
  <2>1. fs[1].kind = "function" /\ ~fs[1].flag
    BY ZenonT(40) DEF Nested, FunctionFrame
  <2>2. ~lastAnalyzeFlag(fs)
    BY <1>1, <1>7, <2>1 DEF lastAnalyzeFlag, Nested
  <2>3. pc' = "done" /\ s = Copies("result", RetQty)
    BY ZenonT(40), <1>6, <1>7, <2>1, <2>2 DEF ReturnStack
  <2>4. Reached(g, "done", gs)
    BY ZenonT(40) DEF Reached
  <2> HIDE DEF gs, s, k, g
  <2> QED
    BY ZenonT(40), <1>2, <1>3, <1>4, <2>3, <2>4 DEF IInv, Good
<1>8. CASE k # 1
  <2>1. k \in 2..Len(fs) /\ Opened(fs, k)
    BY <1>1, <1>8 DEF Nested
  <2>2. fs[k].kind = "if" /\ ~fs[k].jmp
    BY ZenonT(40), <1>1, <1>5, <2>1 DEF Opened, Called
  <2>3. ~\E j \in 1..(k - 1) : IsLoop(fs[j])
    BY <2>1 DEF hasLoop, Nested
  <2>4. fs[k].flag
    BY ZenonT(40), <1>1, <2>1, <2>2, <2>3 DEF Opened, IfNeedsFlag
  <2>5. s = Append(Copies("result", RetQty), "returnFlag")
    BY ZenonT(40), <1>1, <2>4 DEF ReturnStack, lastAnalyzeFlag
  <2>6. pc' = "afterIf" /\ ~Reached(g, "afterIf", gs)
    BY ZenonT(40), <1>6, <2>2 DEF Reached
  <2>7. ~hasLoop(gs) /\ \A i \in 1..k : "return" \in gs[i].can
    BY SMTT(40), <1>1, <1>2 DEF hasLoop, Nested
  <2> HIDE DEF gs, s, k
  <2>8. Returning(pc', gs, s)
    BY <1>1, <1>2, <2>2, <2>4, <2>5, <2>6, <2>7 DEF Returning
  <2> QED
    BY ZenonT(40), <1>2, <1>3, <1>4, <2>6, <2>8 DEF IInv, Good
<1> QED
  BY ZenonT(40), <1>7, <1>8

\* In a loop a return stops behind it.
LEMMA RetAltReturns ==
  ASSUME NEW fs, Nested(fs), \A i \in 1..Len(fs) : "return" \in fs[i].can, hasLoop(fs),
         RETALT(fs, ReturnStack(fs), [to |-> "return", at |-> 1])
  PROVE  IInv' /\ pc' # "body"
<1> DEFINE K == {i \in 1..Len(fs) : IsLoop(fs[i]) /\ Brk(fs[i])}
           k == LastOf(K)
           gs == SubSeq(fs, 1, k)
           s == ReturnStack(fs)
           g == [to |-> "return", at |-> 1]
<1>1. K # {} /\ K \subseteq 1..Len(fs) /\ Len(fs) \in Nat
  BY DEF hasLoop, Brk, Nested
<1>2. k \in 1..Len(fs) /\ IsLoop(fs[k])
  <2>1. k \in K
    <3> HIDE DEF K
    <3> QED
      BY ZenonT(40), <1>1, LastExists
  <2> QED
    BY ZenonT(40), <2>1
<1>3. /\ Nested(gs) /\ Len(gs) = k /\ \A i \in 1..k : gs[i] = fs[i]
      /\ fs[k] \in FrameSet /\ fs[k].size \in Nat
  BY ZenonT(40), <1>2, PrefixFrames
<1>4. /\ frames' = gs /\ stack' = s /\ size' = fs[k].size /\ pc' = "afterLoop"
      /\ goal' = (IF Reached(g, "afterLoop", gs) THEN NoGoal ELSE g)
  BY ZenonT(40), <1>1 DEF RETALT, Goto
<1>5. ~Reached(g, "afterLoop", gs)
  BY ZenonT(40) DEF Reached
<1>6. fs[k].flag
  <2>1. k # 1 /\ k \in 2..Len(fs)
    BY <1>2 DEF Nested, FunctionFrame, IsLoop, LoopKind
  <2> QED
    BY ZenonT(40), <1>2, <2>1 DEF Nested, Opened, LoopNeedsFlag
<1>7. s = Append(Copies("result", RetQty), "returnFlag")
  BY ZenonT(40), <1>2, <1>6 DEF ReturnStack, lastAnalyzeFlag
<1>8. \A i \in 1..k : "return" \in gs[i].can
  BY <1>1, <1>2, <1>3
<1> HIDE DEF gs, s, k
<1>9. Returning("afterLoop", gs, s)
  BY <1>2, <1>3, <1>6, <1>7, <1>8 DEF Returning
<1>10. s \in Seq(Value)
  BY ZenonT(40), <1>7, ResultsTyped
<1> QED
  BY ZenonT(40), <1>3, <1>4, <1>5, <1>9, <1>10 DEF IInv, Good

\* The stack of a continue on its way to the loop at l, where the code around it is fs.
ContinueStack(fs, s, l) ==
    /\ s \in Seq(Value)
    /\ \A i \in 1..(l - 1) : FlagAt(fs, s, i)
    /\ NamedThere(fs, s)
    /\ IF \E i \in (l + 1)..Len(fs) : fs[i].flag
       THEN Len(s) = fs[l].size - OneIf(fs[l].flag) + 1 /\ s[Len(s)] = "continueFlag"
       ELSE Len(s) = fs[l].size /\ FlagAt(fs, s, l)

\* A continue goes on with its loop or stops behind an if in it that looks at the flag.
LEMMA RetContinues ==
  ASSUME NEW fs, Nested(fs), NEW l, LoopOf("continue", fs, l), NEW s, ContinueStack(fs, s, l),
         RET(fs, s, [to |-> "continue", at |-> l])
  PROVE  IInv' /\ pc' # "body"
<1> DEFINE k == LastCalled(fs)
           gs == SubSeq(fs, 1, k)
           g == [to |-> "continue", at |-> l]
<1>1. /\ k \in 1..Len(fs) /\ Called(fs[k])
      /\ \A i \in (k + 1)..Len(fs) : ~fs[i].flag /\ ~Called(fs[i])
  BY ZenonT(40), CalledLast
<1>2. /\ Nested(gs) /\ Len(gs) = k /\ \A i \in 1..k : gs[i] = fs[i]
      /\ fs[k] \in FrameSet /\ fs[k].size \in Nat
  BY ZenonT(40), <1>1, PrefixFrames
<1>3. frames' = gs /\ stack' = s /\ size' = fs[k].size /\ goal' = (IF Reached(g, pc', gs) THEN NoGoal ELSE g)
  BY ZenonT(40) DEF RET, Goto, LastCalled
<1>4. l \in 1..Len(fs) /\ IsLoop(fs[l]) /\ l <= k /\ "continue" \in fs[k].can /\ Len(fs) \in Nat
  <2>1. l \in 1..Len(fs) /\ IsLoop(fs[l]) /\ Len(fs) \in Nat
    BY DEF LoopOf, Nested
  <2>2. Called(fs[l])
    BY ZenonT(40), <2>1 DEF Called
  <2>3. l <= k
    <3> HIDE DEF k
    <3> QED
      BY <1>1, <2>1, <2>2
  <2> QED
    BY <1>1, <2>1, <2>3 DEF LoopOf
<1>5. s \in Seq(Value) /\ NamedThere(gs, s) /\ \A i \in 1..(l - 1) : FlagAt(gs, s, i)
  <2> HIDE DEF gs, k
  <2>1. /\ s \in Seq(Value) /\ \A i \in (ArgQty + 1)..fs[1].size : s[i] = "named"
        /\ \A i \in 1..(l - 1) : FlagAt(fs, s, i)
    BY ZenonT(40) DEF ContinueStack, NamedThere
  <2>2. gs[1] = fs[1] /\ \A i \in 1..(l - 1) : gs[i] = fs[i]
    BY SMTT(40), <1>1, <1>2, <1>4
  <2> QED
    BY ZenonT(40), <2>1, <2>2 DEF NamedThere, FlagAt
<1>6. CASE k = l
  <2>1. ~\E i \in (l + 1)..Len(fs) : fs[i].flag
    BY ZenonT(40), <1>1, <1>6
  <2>2. Len(s) = fs[l].size /\ FlagAt(gs, s, l)
    <3> HIDE DEF gs, k
    <3> QED
      BY SMTT(40), <1>2, <1>4, <1>6, <2>1 DEF ContinueStack, FlagAt
  <2>3. pc' = IF fs[l].kind \in {"while", "repeat"} THEN "head" ELSE "next"
    <3>1. /\ fs[l].kind \in LoopKind
          /\ Wrapped(fs[l]) <=> fs[l].kind \in {"until", "for", "foreach"}
      BY ZenonT(40), <1>4, <1>6 DEF Wrapped, IsLoop, LoopKind
    <3> QED
      BY ZenonT(40), <1>4, <1>6, <3>1 DEF RET, Goto, LastCalled, IsLoop, LoopKind
  <2>4. Reached(g, pc', gs)
    BY SMTT(40), <1>2, <1>4, <1>6, <2>3 DEF Reached
  <2>5. Going(pc', gs, s, fs[k].size)
    <3> HIDE DEF gs, k
    <3>1. \A i \in 1..Len(gs) : FlagAt(gs, s, i)
      BY SMTT(40), <1>2, <1>4, <1>5, <1>6, <2>2
    <3> QED
      BY SMTT(40), <1>2, <1>4, <1>5, <1>6, <2>2, <2>3, <3>1 DEF Going
  <2> HIDE DEF gs, k
  <2> QED
    BY ZenonT(40), <1>2, <1>3, <1>5, <2>3, <2>4, <2>5 DEF IInv, Good
<1>7. CASE k # l
  <2>1. k \in 2..Len(fs) /\ Opened(fs, k) /\ ~IsLoop(fs[k]) /\ k \in (l + 1)..Len(fs)
    BY SMTT(40), <1>1, <1>4, <1>7 DEF Nested, LoopOf
  <2>2. fs[k].kind = "if" /\ ~fs[k].jmp
    BY ZenonT(40), <1>1, <2>1 DEF Opened, Called
  <2>3. fs[k].flag
    BY ZenonT(40), <1>4, <2>1, <2>2 DEF Opened, IfNeedsFlag
  <2>4. Len(s) = fs[l].size - OneIf(fs[l].flag) + 1 /\ s[Len(s)] = "continueFlag"
    BY ZenonT(40), <2>1, <2>3 DEF ContinueStack
  <2>5. pc' = "afterIf" /\ ~Reached(g, "afterIf", gs)
    <3>1. pc' = "afterIf"
      BY ZenonT(40), <2>1, <2>2 DEF RET, Goto, LastCalled
    <3>2. ~Reached(g, "afterIf", gs)
      <4> HIDE DEF gs, k
      <4> QED
        BY ZenonT(40), <1>2, <1>7 DEF Reached
    <3> QED
      BY ZenonT(40), <3>1, <3>2
  <2>6. LoopOf("continue", gs, l)
    <3> HIDE DEF gs, k
    <3> QED
      BY SMTT(40), <1>2, <1>4, <2>1 DEF LoopOf
  <2>7. Continuing("afterIf", gs, s, l)
    <3> HIDE DEF gs, k
    <3> QED
      BY <1>2, <1>4, <1>5, <2>1, <2>2, <2>3, <2>4, <2>6 DEF Continuing
  <2>8. l \in 1..Len(gs)
    BY ZenonT(40), <2>6 DEF LoopOf
  <2> HIDE DEF gs, k
  <2> QED
    BY ZenonT(40), <1>2, <1>3, <1>5, <2>5, <2>7, <2>8 DEF IInv, Good
<1> QED
  BY ZenonT(40), <1>6, <1>7

-----------------------------------------------------------------------------
(* The steps.                                                              *)

\* Goto with a stack that is good there.
LEMMA GotoGood ==
  ASSUME NEW p, NEW fs, NEW s, NEW sz, Goto(p, fs, s, sz, NoGoal), Good(p, fs, s, sz, NoGoal)
  PROVE  IInv'
<1>1. pc' = p /\ frames' = fs /\ stack' = s /\ size' = sz /\ goal' = NoGoal
  BY ZenonT(40) DEF Goto
<1> QED
  BY ZenonT(40), <1>1 DEF IInv

\* The slot of a flag.
LEMMA FlagSlot ==
  ASSUME NEW fs, Nested(fs), NEW i \in 1..Len(fs), fs[i].flag
  PROVE  i >= 2 /\ fs[i].size \in Nat \ {0}
<1>1. i \in 2..Len(fs) /\ Opened(fs, i)
  BY DEF Nested, FunctionFrame
<1>2. fs[i] \in FrameSet
  BY DEF Nested
<1>3. fs[i].saved \in Nat /\ fs[i].vars \in Nat /\ fs[i].kind \in Kind
  BY ZenonT(40), <1>2 DEF FrameSet
<1>4. fs[i].kind = "if" \/ IsLoop(fs[i])
  BY ZenonT(40), <1>1, <1>3 DEF Opened, Kind, IsLoop
<1>5. fs[i].kind = "if" => fs[i].size = fs[i].saved + 1
  BY ZenonT(40), <1>1 DEF Opened, OneIf
<1>6. IsLoop(fs[i]) => fs[i].size = fs[i].saved + fs[i].vars + 1
  BY ZenonT(40), <1>1 DEF Opened, OneIf
<1> QED
  BY <1>1, <1>3, <1>4, <1>5, <1>6

\* What is known of the flags and of the allocated results depends only on the part of the stack that belongs
\* to the open statements.
LEMMA Transfer ==
  ASSUME NEW fs, Nested(fs), NEW k \in 1..Len(fs), NEW gs, \A i \in 1..k : gs[i] = fs[i],
         NEW s, NEW t, \A i \in 1..fs[k].size : t[i] = s[i],
         \A i \in 1..k : FlagAt(fs, s, i), NamedThere(fs, s)
  PROVE  (\A i \in 1..k : FlagAt(gs, t, i)) /\ NamedThere(gs, t)
<1>1. \A i \in 1..k : fs[i].size \in Nat /\ fs[i].size <= fs[k].size
  BY PrefixFrames
<1>2. fs[k].size \in Nat /\ 1 \in 1..k
  BY <1>1
<1>3. ASSUME NEW i \in 1..k PROVE FlagAt(gs, t, i)
  <2>1. CASE fs[i].flag
    <3>1. fs[i].size \in 1..fs[k].size
      BY SMTT(40), <1>1, <1>2, <2>1, FlagSlot
    <3> QED
      BY <3>1 DEF FlagAt
  <2>2. CASE ~fs[i].flag
    BY ZenonT(40), <2>2 DEF FlagAt
  <2> QED
    BY ZenonT(40), <2>1, <2>2
<1>4. NamedThere(gs, t)
  <2>1. \A i \in (ArgQty + 1)..fs[1].size : i \in 1..fs[k].size
    BY SMTT(40), <1>1, <1>2, ControlFlowAssumption
  <2> QED
    BY ZenonT(40), <1>2, <2>1 DEF NamedThere
<1> QED
  BY ZenonT(40), <1>3, <1>4

\* In a body, a condition or a loop expression no jump is under way.
LEMMA InBody ==
  ASSUME IInv, pc \in {"body", "next", "head"}
  PROVE  /\ Nested(frames) /\ stack \in Seq(Value) /\ size \in Nat /\ goal = NoGoal
         /\ Going(pc, frames, stack, size)
         /\ Len(frames) \in 1..Len(frames) /\ Inner \in FrameSet /\ Inner.size \in Nat
<1>1. Nested(frames) /\ stack \in Seq(Value) /\ size \in Nat /\ goal = NoGoal /\ Going(pc, frames, stack, size)
  BY ZenonT(40) DEF IInv, Good, Continuing, Returning
<1>2. Len(frames) \in 1..Len(frames)
  BY <1>1 DEF Nested
<1> QED
  BY ZenonT(40), <1>1, <1>2, PrefixFrames DEF Inner

\* Statements that open nothing and go on in the same one.
LEMMA DeclarationStep == ASSUME IInv, VariableDeclarationStatement PROVE IInv'
<1>1. /\ Nested(frames) /\ stack \in Seq(Value) /\ size \in Nat /\ goal = NoGoal
      /\ Going("body", frames, stack, size)
      /\ Len(frames) \in 1..Len(frames) /\ Inner.size \in Nat
  BY ZenonT(40), InBody DEF VariableDeclarationStatement
<1> DEFINE s == Append(stack, "variable")
<1>2. /\ s \in Seq(Value) /\ Len(s) = size + 1 /\ \A i \in 1..size : s[i] = stack[i]
  BY <1>1, AppendProperties DEF Going, Value
<1>3. stack' = s /\ size' = size + 1 /\ frames' = frames /\ pc' = "body" /\ goal' = NoGoal
  BY ZenonT(40), <1>1 DEF VariableDeclarationStatement
<1> HIDE DEF s
<1>4. (\A i \in 1..Len(frames) : FlagAt(frames, s, i)) /\ NamedThere(frames, s)
  <2>1. \A i \in 1..frames[Len(frames)].size : s[i] = stack[i]
    BY <1>1, <1>2 DEF Going, Inner
  <2> QED
    BY ZenonT(40), <1>1, <2>1, Transfer DEF Going
<1>5. Going("body", frames, s, size + 1)
  BY SMTT(40), <1>1, <1>2, <1>4 DEF Going, Inner
<1> QED
  BY <1>1, <1>2, <1>3, <1>5 DEF IInv, Good

\* A statement f is opened: its frame fits, and on the stack are its variables and its flag.
LEMMA OpenStep ==
  ASSUME IInv, pc = "body", NEW f \in FrameSet, Opened(Append(frames, f), Len(frames) + 1),
         NEW p \in {"body", "head", "afterIf"},
         p = "afterIf" => f.kind = "if", p = "head" => IsLoop(f),
         NEW t \in Seq(Value), Len(t) = f.size - size, f.size >= size,
         f.flag => Len(t) > 0 /\ t[Len(t)] = "noFlag",
         frames' = Append(frames, f), stack' = stack \o t, size' = f.size, pc' = p, goal' = goal
  PROVE  IInv'
<1>1. /\ Nested(frames) /\ stack \in Seq(Value) /\ size \in Nat /\ goal = NoGoal
      /\ Going("body", frames, stack, size)
      /\ Len(frames) \in 1..Len(frames) /\ Inner.size \in Nat /\ f.size \in Nat /\ frames \in Seq(FrameSet)
      /\ Len(frames) \in Nat
  BY InBody DEF FrameSet, Nested
<1> DEFINE s == stack \o t
           gs == Append(frames, f)
           n == Len(frames)
<1>2. /\ s \in Seq(Value) /\ Len(s) = f.size /\ \A i \in 1..size : s[i] = stack[i]
      /\ Len(t) > 0 => s[f.size] = t[Len(t)]
  <2>1. Len(stack) = size /\ Len(t) \in Nat
    BY <1>1 DEF Going
  <2>2. /\ s \in Seq(Value) /\ Len(s) = size + Len(t)
        /\ \A i \in 1..(size + Len(t)) : s[i] = IF i <= size THEN stack[i] ELSE t[i - size]
    BY ZenonT(40), <1>1, <2>1, ConcatProperties
  <2>3. Len(s) = f.size
    BY SMTT(40), <1>1, <2>1, <2>2
  <2> HIDE DEF s
  <2>4. ASSUME NEW i \in 1..size PROVE s[i] = stack[i]
    <3>1. i \in 1..(size + Len(t)) /\ i <= size
      BY SMTT(40), <1>1, <2>1
    <3> QED
      BY ZenonT(40), <2>2, <3>1
  <2>5. Len(t) > 0 => f.size \in 1..(size + Len(t)) /\ ~(f.size <= size) /\ f.size - size = Len(t)
    BY SMTT(40), <1>1, <2>1
  <2> QED
    BY ZenonT(40), <2>2, <2>3, <2>4, <2>5
<1>3. /\ gs \in Seq(FrameSet) /\ Len(gs) = n + 1 /\ gs[n + 1] = f
      /\ \A i \in 1..n : gs[i] = frames[i]
  BY <1>1, AppendProperties
<1>4. Nested(gs)
  BY ZenonT(40), <1>1, AppendNested
<1> HIDE DEF s, gs
<1>5. (\A i \in 1..n : FlagAt(gs, s, i)) /\ NamedThere(gs, s)
  <2>0. frames[n].size \in Nat /\ frames[n].size <= size
    BY ZenonT(40), <1>1 DEF Going, Inner
  <2>1. \A i \in 1..frames[n].size : s[i] = stack[i]
    BY SMTT(40), <1>1, <1>2, <2>0
  <2> HIDE DEF n
  <2>2. n \in 1..Len(frames) /\ \A i \in 1..n : FlagAt(frames, stack, i)
    BY ZenonT(40), <1>1 DEF n, Going
  <2>3. NamedThere(frames, stack)
    BY ZenonT(40), <1>1 DEF Going
  <2> QED
    BY ZenonT(40), <1>1, <1>3, <2>1, <2>2, <2>3, Transfer
<1>6. FlagAt(gs, s, n + 1)
  BY ZenonT(40), <1>2, <1>3 DEF FlagAt
<1>7. \A i \in 1..Len(gs) : FlagAt(gs, s, i)
  BY SMTT(40), <1>1, <1>3, <1>5, <1>6
<1>8. Going(p, gs, s, f.size)
  BY SMTT(40), <1>1, <1>2, <1>3, <1>5, <1>7 DEF Going
<1>9. frames' = gs /\ stack' = s
  BY ZenonT(40) DEF gs, s
<1> QED
  BY ZenonT(40), <1>1, <1>2, <1>4, <1>8, <1>9 DEF IInv, Good

LEMMA BlockStep == ASSUME IInv, Block PROVE IInv'
<1> DEFINE f == Frame("block", Inner.can, FALSE, FALSE, size, size, 0)
           gs == Append(frames, f)
           n == Len(frames)
<1>1. /\ pc = "body" /\ Nested(frames) /\ size \in Nat /\ Going("body", frames, stack, size)
      /\ n \in 1..Len(frames) /\ n \in Nat /\ Inner \in FrameSet /\ frames \in Seq(FrameSet) /\ stack \in Seq(Value)
  BY InBody DEF Block, Nested
<1>2. f \in FrameSet
  BY ZenonT(40), <1>1 DEF FrameSet, Frame, Kind
<1>3. gs[n + 1] = f /\ \A i \in 1..n : gs[i] = frames[i]
  <2> HIDE DEF f
  <2> QED
    BY SMTT(40), <1>1, <1>2, AppendProperties
<1>4. \A j \in 1..n : gs[j].size <= size
  BY SMTT(40), <1>1, <1>3, PrefixFrames DEF Going
<1>5. Opened(gs, n + 1)
  <2>1. f.kind = "block" /\ f.saved = size /\ f.size = size /\ f.flag = FALSE /\ f.can = frames[n].can
    BY ZenonT(40) DEF Frame, Inner
  <2> HIDE DEF f, gs
  <2> QED
    BY <1>1, <1>3, <1>4, <2>1 DEF Opened, OneIf, IsLoop, LoopKind
<1>6. << >> \in Seq(Value) /\ Len(<< >>) = 0 /\ stack \o << >> = stack
  BY ZenonT(40), <1>1, EmptySeq, ConcatEmptySeq
<1>7. f.size = size /\ ~f.flag /\ f.kind = "block"
  BY ZenonT(40) DEF Frame
<1>8. frames' = Append(frames, f) /\ stack' = stack \o << >> /\ size' = f.size /\ pc' = "body" /\ goal' = goal
  BY ZenonT(40), <1>1, <1>6, <1>7 DEF Block
<1>9. Len(<< >>) = f.size - size /\ f.size >= size
  <2> HIDE DEF f
  <2> QED
    BY <1>1, <1>6, <1>7
<1> HIDE DEF f
<1>10. ASSUME NEW t \in Seq(Value), t = << >> PROVE IInv'
  <2>1. Len(t) = f.size - size /\ stack' = stack \o t
    BY ZenonT(40), <1>8, <1>9, <1>10
  <2> QED
    BY ZenonT(40), <1>1, <1>2, <1>5, <1>7, <1>8, <1>9, <2>1, OpenStep
<1> QED
  BY ZenonT(40), <1>6, <1>10

LEMMA IfStep ==
  ASSUME IInv, NEW can \in SUBSET Exit, NEW jmp \in BOOLEAN, NEW enter \in BOOLEAN, IfStatement(can, jmp, enter)
  PROVE  IInv'
<1> DEFINE flag == IfNeedsFlag(can, jmp, hasLoop(frames))
           f == Frame("if", can, flag, jmp, size + OneIf(flag), size, 0)
           gs == Append(frames, f)
           n == Len(frames)
           t == Copies("noFlag", OneIf(flag))
           p == IF enter THEN "body" ELSE "afterIf"
<1>1. /\ pc = "body" /\ Nested(frames) /\ size \in Nat /\ Going("body", frames, stack, size)
      /\ n \in 1..Len(frames) /\ n \in Nat /\ Inner \in FrameSet /\ frames \in Seq(FrameSet) /\ stack \in Seq(Value)
      /\ can \subseteq frames[n].can
  BY SMTT(40), InBody DEF IfStatement, Nested, Inner
<1>2. flag \in BOOLEAN /\ OneIf(flag) \in Nat
  BY ZenonT(40) DEF IfNeedsFlag, OneIf
<1>3. f \in FrameSet
  BY SMTT(40), <1>1, <1>2 DEF FrameSet, Frame, Kind
<1>4. gs[n + 1] = f /\ \A i \in 1..n : gs[i] = frames[i]
  <2> HIDE DEF f
  <2> QED
    BY <1>1, <1>3, AppendProperties
<1>5. \A j \in 1..n : gs[j].size <= size
  BY <1>1, <1>4, PrefixFrames DEF Going
<1>6. /\ f.kind = "if" /\ f.saved = size /\ f.size = size + OneIf(flag) /\ f.flag = flag /\ f.can = can /\ f.jmp = jmp
  BY ZenonT(40) DEF Frame
<1>7. flag = IfNeedsFlag(can, jmp, \E j \in 1..n : IsLoop(gs[j]))
  <2>1. hasLoop(frames) = \E j \in 1..n : IsLoop(gs[j])
    BY ZenonT(40), <1>4 DEF hasLoop
  <2> QED
    BY ZenonT(40), <2>1
<1>8. Opened(gs, n + 1)
  <2> HIDE DEF f, gs, flag
  <2> QED
    BY SMTT(40), <1>1, <1>4, <1>5, <1>6, <1>7 DEF Opened, IsLoop, LoopKind
<1>9. t \in Seq(Value) /\ Len(t) = OneIf(flag) /\ (flag => t[1] = "noFlag")
  <2>1. t \in Seq(Value) /\ Len(t) = OneIf(flag) /\ \A i \in 1..OneIf(flag) : t[i] = "noFlag"
    BY ZenonT(40), <1>2, FlagValues, CopiesIs
  <2> HIDE DEF t
  <2> QED
    BY <2>1 DEF OneIf
<1>10. frames' = Append(frames, f) /\ stack' = stack \o t /\ size' = f.size /\ pc' = p /\ goal' = goal
  BY ZenonT(40), <1>6 DEF IfStatement
<1>11. Len(t) = f.size - size /\ f.size >= size /\ (f.flag => Len(t) > 0 /\ t[Len(t)] = "noFlag")
  <2> HIDE DEF f, t, flag
  <2> QED
    BY <1>1, <1>2, <1>6, <1>9 DEF OneIf
<1>12. p \in {"body", "head", "afterIf"} /\ p # "head"
  BY ZenonT(40)
<1> HIDE DEF f, t, p
<1> QED
  BY ZenonT(40), <1>1, <1>3, <1>6, <1>8, <1>9, <1>10, <1>11, <1>12, OpenStep

LEMMA LoopStep ==
  ASSUME ~ContinueUnderFlag, LoopVarQtys \subseteq {0, 1},
         IInv, NEW kind \in Loops, NEW can \in SUBSET Exit, NEW n \in VarQtys(kind, LoopVarQtys),
         LoopStatement(kind, can, n)
  PROVE  IInv'
<1> DEFINE flag == LoopNeedsFlag(can)
           f == Frame(kind, can, flag, FALSE, size + n + OneIf(flag), size, n)
           gs == Append(frames, f)
           m == Len(frames)
           t == Copies("variable", n) \o Copies("noFlag", OneIf(flag))
           p == IF kind = "until" THEN "body" ELSE "head"
<1>1. /\ pc = "body" /\ Nested(frames) /\ size \in Nat /\ Going("body", frames, stack, size)
      /\ m \in 1..Len(frames) /\ m \in Nat /\ Inner \in FrameSet /\ frames \in Seq(FrameSet) /\ stack \in Seq(Value)
      /\ "return" \in can => "return" \in frames[m].can
      /\ "continue" \in can /\ lastAnalyzeFlag(frames) => "return" \in can
  <2>1. /\ pc = "body" /\ ("return" \in can => "return" \in Inner.can)
        /\ "continue" \in can /\ lastAnalyzeFlag(frames) => "return" \in can
    BY ZenonT(40) DEF LoopStatement
  <2>2. /\ Nested(frames) /\ stack \in Seq(Value) /\ size \in Nat /\ Going("body", frames, stack, size)
        /\ m \in 1..Len(frames) /\ Inner \in FrameSet
    BY ZenonT(40), <2>1, InBody
  <2>3. frames \in Seq(FrameSet)
    BY ZenonT(40), <2>2 DEF Nested
  <2>4. m \in Nat
    BY <2>3
  <2> QED
    BY ZenonT(40), <2>1, <2>2, <2>3, <2>4 DEF Inner
<1>2. flag \in BOOLEAN /\ OneIf(flag) \in Nat
  BY DEF LoopNeedsFlag, OneIf
<1>3. kind \in LoopKind /\ n \in Nat /\ (kind = "for" => n \in {0, 1})
  <2>1. kind \in LoopKind
    BY ZenonT(40), ControlFlowAssumption
  <2> QED
    BY <2>1 DEF VarQtys, LoopKind
<1>4. f \in FrameSet
  <2>1. size + n + OneIf(flag) \in Nat /\ kind \in Kind
    BY <1>1, <1>2, <1>3 DEF Kind
  <2> HIDE DEF flag
  <2> QED
    BY ZenonT(40), <1>1, <1>2, <1>3, <2>1 DEF FrameSet, Frame
<1>5. gs[m + 1] = f /\ \A i \in 1..m : gs[i] = frames[i]
  <2> HIDE DEF f
  <2> QED
    BY SMTT(40), <1>1, <1>4, AppendProperties
<1>6. \A j \in 1..m : gs[j].size <= size
  BY <1>1, <1>5, PrefixFrames DEF Going
<1>7. /\ f.kind = kind /\ f.saved = size /\ f.size = size + n + OneIf(flag) /\ f.flag = flag /\ f.can = can
      /\ f.vars = n
  BY ZenonT(40) DEF Frame
<1>8. LoopVarQty(f) = f.vars
  <2> HIDE DEF f
  <2> QED
    BY ZenonT(40), <1>3, <1>7 DEF LoopVarQty, OneIf
<1>9. (\E j \in 1..m : gs[j].flag) => lastAnalyzeFlag(frames)
  BY ZenonT(40), <1>5 DEF lastAnalyzeFlag
<1>10. Opened(gs, m + 1)
  <2>1. kind \notin {"function", "block", "if"}
    BY ZenonT(40), <1>3 DEF LoopKind
  <2>2. /\ f.kind \notin {"function", "block", "if"} /\ f.flag = LoopNeedsFlag(f.can)
        /\ f.size = f.saved + f.vars + OneIf(f.flag)
    <3> HIDE DEF f
    <3> QED
      BY ZenonT(40), <1>7, <2>1
  <2> HIDE DEF f, gs, flag
  <2>3. /\ \A j \in 1..((m + 1) - 1) : gs[j].size <= f.saved
        /\ "return" \in f.can => "return" \in gs[(m + 1) - 1].can
        /\ "continue" \in f.can /\ (\E j \in 1..((m + 1) - 1) : gs[j].flag) => "return" \in f.can
    BY <1>1, <1>5, <1>6, <1>7, <1>9
  <2> QED
    BY ZenonT(40), <1>5, <1>8, <2>2, <2>3 DEF Opened
<1>11. t \in Seq(Value) /\ Len(t) = n + OneIf(flag) /\ (flag => t[Len(t)] = "noFlag")
  <2> DEFINE a == Copies("variable", n)
             b == Copies("noFlag", OneIf(flag))
  <2>1. a \in Seq(Value) /\ Len(a) = n
    BY ZenonT(40), <1>3, FlagValues, CopiesIs
  <2>2. b \in Seq(Value) /\ Len(b) = OneIf(flag) /\ \A i \in 1..OneIf(flag) : b[i] = "noFlag"
    BY ZenonT(40), <1>2, FlagValues, CopiesIs
  <2> HIDE DEF a, b
  <2>3. /\ a \o b \in Seq(Value) /\ Len(a \o b) = n + OneIf(flag)
        /\ \A i \in 1..(n + OneIf(flag)) : (a \o b)[i] = IF i <= n THEN a[i] ELSE b[i - n]
    <3>1. /\ a \o b \in Seq(Value) /\ Len(a \o b) = Len(a) + Len(b)
          /\ \A i \in 1..(Len(a) + Len(b)) : (a \o b)[i] = IF i <= Len(a) THEN a[i] ELSE b[i - Len(a)]
      BY ZenonT(40), <2>1, <2>2, ConcatProperties
    <3> QED
      BY ZenonT(40), <2>1, <2>2, <3>1
  <2>4. flag => (a \o b)[n + 1] = "noFlag" /\ OneIf(flag) = 1
    BY <1>3, <2>2, <2>3 DEF OneIf
  <2> QED
    BY ZenonT(40), <2>3, <2>4 DEF a, b
<1>12. /\ frames' = Append(frames, f) /\ stack' = stack \o t /\ size' = f.size /\ pc' = p /\ goal' = goal
  <2>1. (stack \o Copies("variable", n)) \o Copies("noFlag", OneIf(flag)) = stack \o t
    <3>1. Copies("variable", n) \in Seq(Value) /\ Copies("noFlag", OneIf(flag)) \in Seq(Value)
      BY ZenonT(40), <1>2, <1>3, FlagValues, CopiesIs
    <3>2. ASSUME NEW a \in Seq(Value), NEW b \in Seq(Value) PROVE (stack \o a) \o b = stack \o (a \o b)
      BY ZenonT(40), <1>1, Associative
    <3> QED
      BY ZenonT(40), <3>1, <3>2
  <2> QED
    BY ZenonT(40), <1>7, <2>1 DEF LoopStatement
<1>13. Len(t) = f.size - size /\ f.size >= size /\ (f.flag => Len(t) > 0 /\ t[Len(t)] = "noFlag")
  <2> HIDE DEF f, t, flag
  <2> QED
    BY SMTT(40), <1>1, <1>2, <1>3, <1>7, <1>11 DEF OneIf
<1>14. p \in {"body", "head", "afterIf"} /\ p # "afterIf" /\ IsLoop(f)
  BY ZenonT(40), <1>3, <1>7 DEF IsLoop
<1> HIDE DEF f, t, p
<1> QED
  BY ZenonT(40), <1>1, <1>4, <1>10, <1>11, <1>12, <1>13, <1>14, OpenStep

\* Back to an open statement, with the stack cut down to what belongs to it.
LEMMA Back ==
  ASSUME NEW fs, Nested(fs), NEW s \in Seq(Value), NEW k \in 1..Len(fs), NEW n \in 0..Len(s), n >= fs[k].size,
         \A i \in 1..k : FlagAt(fs, s, i), NamedThere(fs, s),
         NEW gs, Nested(gs), Len(gs) = k, \A i \in 1..k : gs[i] = fs[i],
         NEW p \in {"body", "next", "head", "afterIf", "afterLoop"},
         p # "body" => n = fs[k].size,
         p = "afterIf" => fs[k].kind = "if",
         p \in {"next", "head", "afterLoop"} => IsLoop(fs[k])
  PROVE  Going(p, gs, SubSeq(s, 1, n), n) /\ SubSeq(s, 1, n) \in Seq(Value)
<1> DEFINE t == SubSeq(s, 1, n)
<1>1. t \in Seq(Value) /\ Len(t) = n /\ \A i \in 1..n : t[i] = s[i]
  BY ZenonT(40), PrefixIs
<1> HIDE DEF t
<1>2. fs[k].size \in Nat /\ gs[k] = fs[k] /\ Len(s) \in Nat
  BY PrefixFrames
<1>3. \A i \in 1..fs[k].size : t[i] = s[i]
  BY <1>1, <1>2
<1>4. (\A i \in 1..k : FlagAt(gs, t, i)) /\ NamedThere(gs, t)
  BY ZenonT(40), <1>3, Transfer
<1>5. Going(p, gs, t, n) /\ t \in Seq(Value)
  BY ZenonT(40), <1>1, <1>2, <1>4 DEF Going
<1> QED
  BY ZenonT(40), <1>5 DEF t

LEMMA EndBodyStep == ASSUME IInv, EndIf \/ EndBody PROVE IInv'
<1> DEFINE p == IF EndIf THEN "afterIf" ELSE "next"
           n == Inner.size
           k == Len(frames)
<1>1. /\ Nested(frames) /\ stack \in Seq(Value) /\ size \in Nat /\ goal = NoGoal
      /\ Going("body", frames, stack, size) /\ k \in 1..Len(frames) /\ n \in Nat
  BY ZenonT(40), InBody DEF EndIf, EndBody
<1>2. Len(stack) = size /\ n <= size /\ n = frames[k].size /\ Len(stack) - (size - n) = n
  BY <1>1 DEF Going, Inner
<1>3. /\ Goto(p, frames, SubSeq(stack, 1, n), n, NoGoal)
      /\ p = "afterIf" => Inner.kind = "if"
      /\ p = "next" => IsLoop(Inner)
  BY ZenonT(40), <1>1, <1>2 DEF EndIf, EndBody, Drop
<1>4. p \in {"next", "afterIf"}
  BY ZenonT(40)
<1> HIDE DEF p, n, k
<1>5. Going(p, frames, SubSeq(stack, 1, n), n) /\ SubSeq(stack, 1, n) \in Seq(Value)
  <2>1. n \in 0..Len(stack) /\ n >= frames[k].size
    BY <1>1, <1>2
  <2>2. /\ Len(frames) = k /\ p \in {"body", "next", "head", "afterIf", "afterLoop"}
        /\ p = "afterIf" => frames[k].kind = "if"
        /\ p \in {"next", "head", "afterLoop"} => IsLoop(frames[k])
    BY ZenonT(40), <1>3, <1>4 DEF k, Inner
  <2>3. (\A i \in 1..k : FlagAt(frames, stack, i)) /\ NamedThere(frames, stack)
    BY ZenonT(40), <1>1 DEF Going, k
  <2> QED
    BY SMTT(40), <1>1, <1>2, <2>1, <2>2, <2>3, Back
<1> QED
  BY ZenonT(40), <1>1, <1>3, <1>5, GotoGood DEF Good

\* The statement before the last one, when the last one is done.
LEMMA Outer ==
  ASSUME NEW fs, Nested(fs), fs[Len(fs)].kind # "function"
  PROVE  /\ Len(fs) - 1 \in 1..Len(fs) /\ Len(fs) \in 2..Len(fs) /\ Opened(fs, Len(fs))
         /\ fs[Len(fs)] \in FrameSet /\ fs[Len(fs)].saved \in Nat
         /\ fs[Len(fs) - 1].size \in Nat /\ fs[Len(fs) - 1].size <= fs[Len(fs)].saved
         /\ Nested(Drop(fs, 1)) /\ Len(Drop(fs, 1)) = Len(fs) - 1
         /\ \A i \in 1..(Len(fs) - 1) : Drop(fs, 1)[i] = fs[i]
<1>1. Len(fs) \in Nat /\ Len(fs) # 1 /\ Len(fs) >= 1
  BY DEF Nested, FunctionFrame
<1>2. Len(fs) - 1 \in 1..Len(fs) /\ Len(fs) \in 2..Len(fs) /\ Len(fs) - 1 \in 1..(Len(fs) - 1)
  BY SMTT(40), <1>1
<1>3. Opened(fs, Len(fs)) /\ fs[Len(fs)] \in FrameSet
  BY <1>2 DEF Nested
<1>4. fs[Len(fs)].saved \in Nat /\ fs[Len(fs) - 1].size \in Nat
  BY ZenonT(40), <1>2, <1>3, PrefixFrames DEF FrameSet
<1>5. fs[Len(fs) - 1].size <= fs[Len(fs)].saved
  BY ZenonT(40), <1>2, <1>3 DEF Opened
<1> QED
  BY ZenonT(40), <1>2, <1>3, <1>4, <1>5, PrefixFrames DEF Drop

\* A statement is done: its variables and its flag are dropped, and the one around it goes on.
LEMMA CloseStep ==
  ASSUME Nested(frames), stack \in Seq(Value), size \in Nat, Len(stack) = size,
         \A i \in 1..Len(frames) : FlagAt(frames, stack, i), NamedThere(frames, stack),
         Inner.kind # "function", Inner.saved <= size,
         NEW g, g = NoGoal \/ g = [to |-> "break", at |-> Len(frames)],
         Goto("body", Drop(frames, 1), SubSeq(stack, 1, Inner.saved), Inner.saved, g)
  PROVE  IInv' /\ size' = Inner.saved
<1> DEFINE k == Len(frames) - 1
           gs == Drop(frames, 1)
           n == Inner.saved
<1>1. /\ k \in 1..Len(frames) /\ n \in Nat /\ frames[k].size \in Nat /\ frames[k].size <= n
      /\ Nested(gs) /\ Len(gs) = k /\ \A i \in 1..k : gs[i] = frames[i]
  BY ZenonT(40), Outer DEF Inner
<1> HIDE DEF gs, n
<1>2. Going("body", gs, SubSeq(stack, 1, n), n) /\ SubSeq(stack, 1, n) \in Seq(Value)
  <2>1. n \in 0..Len(stack) /\ n >= frames[k].size
    BY SMTT(40), <1>1 DEF n
  <2>2. \A i \in 1..k : FlagAt(frames, stack, i)
    BY <1>1
  <2> HIDE DEF k
  <2> QED
    BY ZenonT(40), <1>1, <2>1, <2>2, Back
<1>3. Reached(g, "body", gs)
  BY SMTT(40), <1>1 DEF Reached, NoGoal
<1>4. pc' = "body" /\ frames' = gs /\ stack' = SubSeq(stack, 1, n) /\ size' = n /\ goal' = NoGoal
  BY ZenonT(40), <1>3 DEF Goto, gs, n
<1> QED
  BY ZenonT(40), <1>1, <1>2, <1>4 DEF IInv, Good, n

LEMMA EndBlockStep == ASSUME IInv, EndBlock PROVE IInv'
<1>1. /\ Nested(frames) /\ stack \in Seq(Value) /\ size \in Nat /\ goal = NoGoal
      /\ Going("body", frames, stack, size) /\ Inner.size \in Nat
  BY ZenonT(40), InBody DEF EndBlock
<1>2. Inner.kind = "block" /\ Inner.saved \in Nat /\ Opened(frames, Len(frames))
  BY ZenonT(40), <1>1, Outer DEF EndBlock, Inner
<1>3. Inner.size = Inner.saved
  BY SMTT(40), <1>1, <1>2 DEF Opened, OneIf, Inner
<1>4. Len(stack) = size /\ Inner.saved <= size /\ Len(stack) - (size - Inner.size) = Inner.saved
  BY <1>1, <1>2, <1>3 DEF Going, Inner
<1>5. Goto("body", Drop(frames, 1), SubSeq(stack, 1, Inner.saved), Inner.saved, NoGoal)
  <2>1. SubSeq(stack, 1, Len(stack) - (size - Inner.size)) = SubSeq(stack, 1, Inner.saved)
    BY ZenonT(40), <1>4
  <2> QED
    BY ZenonT(40), <1>1, <1>3, <2>1 DEF EndBlock, Drop
<1> QED
  BY ZenonT(40), <1>1, <1>2, <1>4, <1>5, CloseStep DEF Going

LEMMA LoopCodeStep ==
  ASSUME IInv, LoopNext \/ \E enter \in BOOLEAN : LoopHead(enter)
  PROVE  IInv'
<1>1. /\ Nested(frames) /\ stack \in Seq(Value) /\ size \in Nat /\ goal = NoGoal
      /\ Going(pc, frames, stack, size)
  BY ZenonT(40), InBody DEF LoopNext, LoopHead
<1>2. /\ pc \in {"next", "head"} /\ pc' \in {"head", "body", "afterLoop"}
      /\ frames' = frames /\ stack' = stack /\ size' = size /\ goal' = goal
  BY ZenonT(40) DEF LoopNext, LoopHead
<1>3. Going(pc', frames, stack, size)
  BY ZenonT(40), <1>1, <1>2 DEF Going
<1> QED
  BY ZenonT(40), <1>1, <1>2, <1>3 DEF IInv, Good

\* The statements around the last one, where a return comes through.
LEMMA ReturnAround ==
  ASSUME Nested(frames), stack = Append(Copies("result", RetQty), "returnFlag")
  PROVE  ReturnStack(Drop(frames, 1)) = IF lastAnalyzeFlag(Drop(frames, 1)) THEN stack ELSE Drop(stack, 1)
<1>1. Len(stack) = RetQty + 1 /\ SubSeq(stack, 1, RetQty) = Copies("result", RetQty)
  BY ZenonT(40), ResultsTyped
<1>2. Len(stack) - 1 = RetQty
  BY <1>1, ControlFlowAssumption
<1> QED
  BY ZenonT(40), <1>1, <1>2 DEF ReturnStack, Drop

LEMMA AfterIfStep ==
  ASSUME IInv, AfterIf
  PROVE  IInv' /\ (pc' = "body" => size' = Inner.saved)
<1> DEFINE outer == Drop(frames, 1)
           n == Len(frames)
<1>1. pc = "afterIf" /\ Nested(frames) /\ stack \in Seq(Value) /\ size \in Nat /\ n \in 1..Len(frames) /\ n \in Nat
  BY SMTT(40) DEF IInv, Good, AfterIf, Nested
<1>2. Inner.kind = "if"
  BY ZenonT(40), <1>1 DEF IInv, Good, Going, Continuing, Returning, Inner
<1>3. /\ n - 1 \in 1..Len(frames) /\ n \in 2..Len(frames) /\ Opened(frames, n)
      /\ Inner \in FrameSet /\ Inner.saved \in Nat
      /\ Nested(outer) /\ Len(outer) = n - 1
      /\ \A i \in 1..(n - 1) : outer[i] = frames[i]
  BY ZenonT(40), <1>1, <1>2, Outer DEF Inner
<1>4. Inner.size = Inner.saved + OneIf(Inner.flag) /\ Inner.flag \in BOOLEAN
  BY ZenonT(40), <1>2, <1>3 DEF Opened, Inner, FrameSet
<1>5. CASE goal = NoGoal /\ Going("afterIf", frames, stack, size)
  <2>1. Len(stack) = size /\ size = Inner.size
    BY ZenonT(40), <1>1, <1>5 DEF Going, Inner
  <2>2. Inner.flag => stack[Len(stack)] = "noFlag"
    BY ZenonT(40), <1>1, <1>2, <1>5, <2>1 DEF Going, FlagAt, Inner, IsLoop, LoopKind
  <2>3. Goto("body", outer, SubSeq(stack, 1, Inner.saved), Inner.saved, NoGoal)
    <3>1. CASE ~Inner.flag
      <4>1. Inner.saved = size
        <5>1. OneIf(Inner.flag) = 0
          BY ZenonT(40), <3>1 DEF OneIf
        <5> QED
          BY <1>3, <1>4, <2>1, <5>1
      <4>2. SubSeq(stack, 1, Inner.saved) = stack
        BY <1>1, <2>1, <4>1
      <4> QED
        BY ZenonT(40), <1>5, <3>1, <4>1, <4>2 DEF AfterIf
    <3>2. CASE Inner.flag
      <4>1. Inner.saved = size - 1
        BY SMTT(40), <1>1, <1>3, <1>4, <2>1, <3>2 DEF OneIf
      <4>2. SubSeq(stack, 1, Inner.saved) = Drop(stack, 1)
        BY ZenonT(40), <2>1, <4>1 DEF Drop
      <4> QED
        BY ZenonT(40), <1>5, <2>2, <3>2, <4>1, <4>2 DEF AfterIf
    <3> QED
      BY ZenonT(40), <1>4, <3>1, <3>2
  <2>4. Inner.saved <= size
    BY SMTT(40), <1>3, <1>4, <2>1 DEF OneIf
  <2> QED
    BY ZenonT(40), <1>1, <1>2, <1>5, <2>1, <2>3, <2>4, CloseStep DEF Going
<1>6. CASE \E l \in 1..n : goal = [to |-> "continue", at |-> l] /\ Continuing("afterIf", frames, stack, l)
  <2>1. PICK l \in 1..n : goal = [to |-> "continue", at |-> l] /\ Continuing("afterIf", frames, stack, l)
    BY ZenonT(40), <1>6
  <2> DEFINE s == IF lastAnalyzeFlag(outer) THEN stack ELSE Drop(stack, 1)
  <2>2. /\ Inner.flag /\ stack[Len(stack)] = "continueFlag" /\ LoopOf("continue", frames, l)
        /\ Len(stack) = frames[l].size - OneIf(frames[l].flag) + 1
        /\ \A i \in 1..(l - 1) : FlagAt(frames, stack, i)
        /\ NamedThere(frames, stack)
    BY ZenonT(40), <2>1 DEF Continuing, Inner
  <2>3. RET(outer, s, [to |-> "continue", at |-> l])
    BY ZenonT(40), <2>1, <2>2 DEF AfterIf
  <2>4. l \in 1..(n - 1) /\ l \in 2..Len(frames) /\ Opened(frames, l) /\ IsLoop(frames[l]) /\ "continue" \in frames[l].can
    <3>1. IsLoop(frames[l]) /\ ~IsLoop(frames[n]) /\ frames[1].kind = "function" /\ "continue" \in frames[l].can
      BY SMTT(40), <1>1, <1>2, <2>2 DEF LoopOf, Inner, IsLoop, LoopKind, Nested, FunctionFrame
    <3>2. l # n /\ l # 1
      BY ZenonT(40), <3>1 DEF IsLoop, LoopKind
    <3>3. l \in 1..(n - 1) /\ l \in 2..Len(frames)
      BY <1>1, <3>2
    <3> QED
      BY ZenonT(40), <1>1, <3>1, <3>3 DEF Nested
  <2>5. LoopOf("continue", outer, l)
    <3> HIDE DEF outer
    <3> QED
      <4>1. \A i \in l..(n - 1) : i \in 1..(n - 1) /\ i \in l..Len(frames) /\ outer[i] = frames[i]
        BY SMTT(40), <1>1, <1>3, <2>4
      <4>2. \A i \in (l + 1)..(n - 1) : i \in (l + 1)..Len(frames) /\ outer[i] = frames[i]
        BY SMTT(40), <1>1, <1>3, <2>4
      <4> QED
        BY ZenonT(40), <1>3, <2>2, <2>4, <4>1, <4>2 DEF LoopOf
  <2>6. frames[l].size \in Nat /\ frames[l].flag \in BOOLEAN /\ (frames[l].flag => frames[l].size >= 1)
    <3>1. frames[l] \in FrameSet /\ frames[l].size \in Nat
      BY ZenonT(40), <1>1, PrefixFrames
    <3> QED
      BY <1>1, <3>1, FlagSlot DEF FrameSet
  <2>7. frames[l].flag <=> \E i \in 1..l : frames[i].flag
    BY <1>1, <2>4, <2>6 DEF Opened, LoopNeedsFlag
  <2>8. ContinueStack(outer, s, l)
    <3> HIDE DEF outer
    <3>1. lastAnalyzeFlag(outer) <=> frames[l].flag \/ \E i \in (l + 1)..Len(outer) : outer[i].flag
      <4>1. /\ \A i \in 1..Len(outer) : i \in 1..l \/ i \in (l + 1)..Len(outer)
            /\ \A i \in (l + 1)..Len(outer) : i \in 1..Len(outer)
        BY SMTT(40), <1>1, <1>3, <2>4
      <4>2. \A i \in 1..l : i \in 1..Len(outer) /\ outer[i] = frames[i]
        BY SMTT(40), <1>1, <1>3, <2>4
      <4> QED
        BY ZenonT(40), <2>7, <4>1, <4>2 DEF lastAnalyzeFlag
    <3>2. Len(stack) \in Nat /\ Len(stack) >= 1
      BY SMTT(40), <1>1, <2>2, <2>6 DEF OneIf
    <3>3. /\ Drop(stack, 1) \in Seq(Value) /\ Len(Drop(stack, 1)) = Len(stack) - 1
          /\ \A i \in 1..(Len(stack) - 1) : Drop(stack, 1)[i] = stack[i]
      <4>1. Len(stack) - 1 \in 0..Len(stack)
        BY <3>2
      <4> QED
        BY ZenonT(40), <1>1, <4>1, PrefixIs DEF Drop
    <3>4. s \in Seq(Value) /\ \A i \in 1..(Len(stack) - 1) : s[i] = stack[i]
      BY ZenonT(40), <1>1, <3>3
    <3>5. (\A i \in 1..(l - 1) : FlagAt(outer, s, i)) /\ NamedThere(outer, s)
      <4>1. l - 1 \in 1..Len(frames) /\ \A i \in 1..(l - 1) : outer[i] = frames[i]
        BY SMTT(40), <1>1, <1>3, <2>4
      <4>2. frames[l - 1].size \in Nat /\ frames[l - 1].size <= Len(stack) - 1
        <5>1. frames[l - 1].size <= frames[l].saved
          BY SMTT(40), <1>1, <2>4 DEF Opened
        <5>2. frames[l].size = frames[l].saved + frames[l].vars + OneIf(frames[l].flag)
          BY ZenonT(40), <2>4 DEF Opened
        <5>3. frames[l] \in FrameSet /\ frames[l - 1].size \in Nat
          BY ZenonT(40), <1>1, <4>1, PrefixFrames
        <5>4. frames[l].saved \in Nat /\ frames[l].vars \in Nat
          BY ZenonT(40), <5>3 DEF FrameSet
        <5> QED
          <6>1. OneIf(frames[l].flag) \in Nat
            BY ZenonT(40) DEF OneIf
          <6>2. Len(stack) = frames[l].size - OneIf(frames[l].flag) + 1
            BY ZenonT(40), <2>2
          <6>3. Len(stack) - 1 = frames[l].saved + frames[l].vars
            BY SMTT(40), <2>6, <5>2, <5>4, <6>1, <6>2
          <6>4. frames[l].saved <= Len(stack) - 1 /\ Len(stack) - 1 \in Int
            BY SMTT(40), <5>4, <6>3
          <6> QED
            BY SMTT(40), <5>1, <5>3, <5>4, <6>4
      <4> HIDE DEF s
      <4>3. \A i \in 1..frames[l - 1].size : i \in 1..(Len(stack) - 1)
        BY <3>2, <4>2
      <4>31. \A i \in 1..frames[l - 1].size : s[i] = stack[i]
        BY ZenonT(40), <3>4, <4>3
      <4> QED
        BY ZenonT(40), <1>1, <2>2, <4>1, <4>31, Transfer
    <3>6. CASE \E i \in (l + 1)..Len(outer) : outer[i].flag
      <4>1. s = stack
        BY ZenonT(40), <3>1, <3>6
      <4>2. outer[l] = frames[l]
        BY ZenonT(40), <1>3, <2>4
      <4> HIDE DEF s
      <4> QED
        BY ZenonT(40), <1>1, <2>2, <3>5, <3>6, <4>1, <4>2 DEF ContinueStack
    <3>7. CASE ~\E i \in (l + 1)..Len(outer) : outer[i].flag
      <4>1. outer[l] = frames[l]
        BY ZenonT(40), <1>3, <2>4
      <4>2. Len(s) = frames[l].size /\ FlagAt(outer, s, l)
        <5>1. CASE frames[l].flag
          <6>1. s = stack /\ Len(stack) = frames[l].size
            BY SMTT(40), <2>2, <2>6, <3>1, <5>1 DEF OneIf
          <6> QED
            BY ZenonT(40), <2>2, <2>4, <4>1, <6>1 DEF FlagAt
        <5>2. CASE ~frames[l].flag
          <6>1. s = Drop(stack, 1) /\ Len(stack) = frames[l].size + 1
            BY SMTT(40), <2>2, <2>6, <3>1, <3>7, <5>2 DEF OneIf
          <6> QED
            BY SMTT(40), <2>6, <3>3, <4>1, <5>2, <6>1 DEF FlagAt
        <5> QED
          BY ZenonT(40), <2>6, <5>1, <5>2
      <4> HIDE DEF s
      <4> QED
        BY ZenonT(40), <3>4, <3>5, <3>7, <4>1, <4>2 DEF ContinueStack
    <3> QED
      BY ZenonT(40), <3>6, <3>7
  <2> HIDE DEF s, outer
  <2> QED
    BY ZenonT(40), <1>3, <2>3, <2>5, <2>8, RetContinues
<1>7. CASE goal = [to |-> "return", at |-> 1] /\ Returning("afterIf", frames, stack)
  <2>1. /\ Inner.flag /\ stack = Append(Copies("result", RetQty), "returnFlag") /\ ~hasLoop(frames)
        /\ \A i \in 1..Len(frames) : "return" \in frames[i].can
    BY ZenonT(40), <1>7 DEF Returning, Inner
  <2>2. stack[Len(stack)] = "returnFlag"
    BY ZenonT(40), <2>1, ResultsTyped
  <2>3. RET(outer, ReturnStack(outer), [to |-> "return", at |-> 1])
    BY ZenonT(40), <1>1, <1>7, <2>1, <2>2, ReturnAround DEF AfterIf
  <2>4. (\A i \in 1..Len(outer) : "return" \in outer[i].can) /\ ~hasLoop(outer)
    <3> HIDE DEF outer
    <3> QED
      <4>1. \A i \in 1..Len(outer) : i \in 1..Len(frames) /\ outer[i] = frames[i]
        BY <1>1, <1>3
      <4> QED
        BY ZenonT(40), <2>1, <4>1 DEF hasLoop
  <2> HIDE DEF outer
  <2> QED
    BY ZenonT(40), <1>3, <2>3, <2>4, RetReturns
<1> QED
  BY ZenonT(40), <1>1, <1>5, <1>6, <1>7 DEF IInv, Good

LEMMA AfterLoopStep ==
  ASSUME IInv, AfterLoop
  PROVE  IInv' /\ (pc' = "body" => size' = Inner.saved)
<1> DEFINE outer == Drop(frames, 1)
           n == Len(frames)
<1>1. pc = "afterLoop" /\ Nested(frames) /\ stack \in Seq(Value) /\ size \in Nat /\ n \in 1..Len(frames) /\ n \in Nat
  BY SMTT(40) DEF IInv, Good, AfterLoop, Nested
<1>2. IsLoop(Inner) /\ Inner.kind # "function"
  <2>1. IsLoop(Inner)
    BY ZenonT(40), <1>1 DEF IInv, Good, Going, Continuing, Returning, Inner
  <2> QED
    BY ZenonT(40), <2>1 DEF IsLoop, LoopKind
<1>3. /\ n \in 2..Len(frames) /\ Opened(frames, n)
      /\ Inner \in FrameSet /\ Inner.saved \in Nat
      /\ Nested(outer) /\ Len(outer) = n - 1
      /\ \A i \in 1..(n - 1) : outer[i] = frames[i]
  BY ZenonT(40), <1>1, <1>2, Outer DEF Inner
<1>4. /\ Inner.size = Inner.saved + Inner.vars + OneIf(Inner.flag) /\ LoopVarQty(Inner) = Inner.vars
      /\ Inner.vars \in Nat /\ OneIf(Inner.flag) \in Nat
  BY ZenonT(40), <1>2, <1>3 DEF Opened, Inner, FrameSet, OneIf
<1>5. CASE /\ goal = NoGoal \/ goal = [to |-> "break", at |-> Len(frames)]
           /\ Going("afterLoop", frames, stack, size)
  <2>1. Len(stack) = size /\ size = Inner.size
    BY ZenonT(40), <1>1, <1>5 DEF Going, Inner
  <2>2. Inner.flag => \/ stack[Len(stack)] = "noFlag"
                      \/ stack[Len(stack)] = "continueFlag" /\ "continue" \in Inner.can
    BY ZenonT(40), <1>1, <1>5, <2>1 DEF Going, FlagAt, Inner
  <2>3. Goto("body", outer, Drop(stack, Inner.vars + OneIf(Inner.flag)), size - Inner.vars - OneIf(Inner.flag), goal)
    BY ZenonT(40), <1>4, <2>2 DEF AfterLoop
  <2>4. size - Inner.vars - OneIf(Inner.flag) = Inner.saved /\ Inner.saved <= size
    BY SMTT(40), <1>3, <1>4, <2>1
  <2>5. Len(stack) - (Inner.vars + OneIf(Inner.flag)) = Inner.saved
    BY SMTT(40), <1>1, <1>3, <1>4, <2>1
  <2>6. Drop(stack, Inner.vars + OneIf(Inner.flag)) = SubSeq(stack, 1, Inner.saved)
    BY ZenonT(40), <2>5 DEF Drop
  <2>7. Goto("body", outer, SubSeq(stack, 1, Inner.saved), Inner.saved, goal)
    BY ZenonT(40), <2>3, <2>4, <2>6
  <2> QED
    BY ZenonT(40), <1>1, <1>2, <1>5, <2>1, <2>4, <2>7, CloseStep DEF Going
<1>6. CASE goal = [to |-> "return", at |-> 1] /\ Returning("afterLoop", frames, stack)
  <2>1. /\ Inner.flag /\ stack = Append(Copies("result", RetQty), "returnFlag")
        /\ \A i \in 1..Len(frames) : "return" \in frames[i].can
    BY ZenonT(40), <1>6 DEF Returning, Inner
  <2>2. stack[Len(stack)] = "returnFlag"
    BY ZenonT(40), <2>1, ResultsTyped
  <2>3. IF hasLoop(outer) THEN RETALT(outer, ReturnStack(outer), [to |-> "return", at |-> 1])
                          ELSE RET(outer, ReturnStack(outer), [to |-> "return", at |-> 1])
    <3>1. ReturnStack(outer) = IF lastAnalyzeFlag(outer) THEN stack ELSE Drop(stack, 1)
      BY ZenonT(40), <1>1, <2>1, ReturnAround
    <3> HIDE DEF outer
    <3> QED
      BY ZenonT(40), <1>6, <2>1, <2>2, <3>1 DEF AfterLoop, outer
  <2>4. \A i \in 1..Len(outer) : "return" \in outer[i].can
    <3> HIDE DEF outer
    <3>1. \A i \in 1..Len(outer) : i \in 1..Len(frames) /\ outer[i] = frames[i]
      BY SMTT(40), <1>1, <1>3
    <3> QED
      BY ZenonT(40), <2>1, <3>1
  <2> HIDE DEF outer
  <2>5. CASE hasLoop(outer)
    BY ZenonT(40), <1>3, <2>3, <2>4, <2>5, RetAltReturns
  <2>6. CASE ~hasLoop(outer)
    BY ZenonT(40), <1>3, <2>3, <2>4, <2>6, RetReturns
  <2> QED
    BY ZenonT(40), <2>5, <2>6
<1> QED
  BY ZenonT(40), <1>1, <1>5, <1>6 DEF IInv, Good, Continuing

-----------------------------------------------------------------------------
(* The jumps.                                                              *)

\* All but the n upper values are dropped.
LEMMA DropUnderIs ==
  ASSUME NEW t \in Seq(Value), NEW m \in Nat, NEW n \in Nat, Len(t) = m + n
  PROVE  /\ DropUnder(t, m, n) \in Seq(Value) /\ Len(DropUnder(t, m, n)) = n
         /\ \A i \in 1..n : DropUnder(t, m, n)[i] = t[m + i]
<1> DEFINE w == SubSeq(t, m + 1, m + n)
<1>1. \A i \in (m + 1)..(m + n) : t[i] \in Value
  BY SMTT(40), ElementOfSeq
<1>2. /\ w \in Seq(Value)
      /\ Len(w) = IF m + 1 <= m + n THEN (m + n) - (m + 1) + 1 ELSE 0
      /\ \A i \in 1..((m + n) - (m + 1) + 1) : w[i] = t[(m + 1) + i - 1]
  BY <1>1, SubSeqProperties
<1>3. DropUnder(t, m, n) = w
  <2>1. Len(t) - m - n = 0 /\ Len(t) - n + 1 = m + 1
    OBVIOUS
  <2>2. SubSeq(t, 1, 0) = << >>
    BY SubSeqEmpty
  <2>3. DropUnder(t, m, n) = << >> \o w
    BY ZenonT(40), <2>1, <2>2 DEF DropUnder
  <2> HIDE DEF w
  <2>4. << >> \o w = w
    BY ZenonT(40), <1>2, ConcatEmptySeq
  <2> QED
    BY ZenonT(40), <2>3, <2>4
<1> HIDE DEF w
<1>4. Len(w) = n /\ (m + n) - (m + 1) + 1 = n /\ \A i \in 1..n : (m + 1) + i - 1 = m + i
  BY <1>2
<1> QED
  BY ZenonT(40), <1>2, <1>3, <1>4

\* The values that remain are copies of v.
LEMMA AllCopies ==
  ASSUME NEW v \in Value, NEW n \in Nat, NEW s \in Seq(Value), Len(s) = n, \A i \in 1..n : s[i] = v
  PROVE  s = Copies(v, n)
  BY CopiesIs, SeqEqual

LEMMA UnderResults ==
  ASSUME NEW s \in Seq(Value), NEW n, n = Len(s)
  PROVE  DropUnder(s \o Copies("result", RetQty), n, RetQty) = Copies("result", RetQty)
<1> DEFINE c == Copies("result", RetQty)
           t == s \o c
<1>1. c \in Seq(Value) /\ Len(c) = RetQty /\ RetQty \in Nat /\ n \in Nat /\ \A i \in 1..RetQty : c[i] = "result"
  BY SMTT(40), ControlFlowAssumption, CopiesIs, FlagValues
<1> HIDE DEF c
<1>2. /\ t \in Seq(Value) /\ Len(t) = Len(s) + Len(c)
      /\ \A i \in 1..(Len(s) + Len(c)) : t[i] = IF i <= Len(s) THEN s[i] ELSE c[i - Len(s)]
  BY ZenonT(40), <1>1, ConcatProperties
<1> HIDE DEF t
<1>3. ASSUME NEW i \in 1..RetQty PROVE t[n + i] = "result"
  <2>1. n + i \in 1..(Len(s) + Len(c)) /\ ~(n + i <= Len(s)) /\ (n + i) - Len(s) = i
    BY <1>1
  <2> QED
    BY ZenonT(40), <1>1, <1>2, <2>1
<1>4. Len(t) = n + RetQty
  BY ZenonT(40), <1>1, <1>2
<1>5. /\ DropUnder(t, n, RetQty) \in Seq(Value) /\ Len(DropUnder(t, n, RetQty)) = RetQty
      /\ \A i \in 1..RetQty : DropUnder(t, n, RetQty)[i] = "result"
  <2>1. /\ DropUnder(t, n, RetQty) \in Seq(Value) /\ Len(DropUnder(t, n, RetQty)) = RetQty
        /\ \A i \in 1..RetQty : DropUnder(t, n, RetQty)[i] = t[n + i]
    BY ZenonT(60), <1>1, <1>2, <1>4, DropUnderIs
  <2> QED
    BY ZenonT(40), <1>3, <2>1
<1>6. DropUnder(t, n, RetQty) = Copies("result", RetQty)
  BY ZenonT(40), <1>1, <1>5, AllCopies, FlagValues
<1> QED
  BY ZenonT(40), <1>6 DEF t, c

LEMMA ReturnStep == ASSUME IInv, Return PROVE IInv'
<1> DEFINE g == [to |-> "return", at |-> 1]
<1>1. /\ Nested(frames) /\ stack \in Seq(Value) /\ size \in Nat /\ Len(stack) = size
      /\ "return" \in frames[Len(frames)].can
  BY ZenonT(40), InBody DEF Return, Allowed, Inner, Going
<1>2. DropUnder(stack \o Copies("result", RetQty), size, RetQty) = Copies("result", RetQty)
  BY ZenonT(40), <1>1, UnderResults
<1>3. Copies("result", RetQty) \o Copies("returnFlag", OneIf(lastAnalyzeFlag(frames))) = ReturnStack(frames)
  <2> DEFINE c == Copies("result", RetQty)
  <2>1. c \in Seq(Value)
    BY ZenonT(40), ControlFlowAssumption, CopiesIs, FlagValues
  <2> HIDE DEF c
  <2>2. CASE lastAnalyzeFlag(frames)
    <3>1. Copies("returnFlag", OneIf(lastAnalyzeFlag(frames))) = <<"returnFlag">>
      BY <2>2 DEF Copies, OneIf
    <3>2. Append(c, "returnFlag") = c \o <<"returnFlag">>
      BY ZenonT(40), <2>1, AppendIsConcat, FlagValues
    <3> QED
      BY ZenonT(40), <2>2, <3>1, <3>2 DEF ReturnStack, c
  <2>3. CASE ~lastAnalyzeFlag(frames)
    <3>1. Copies("returnFlag", OneIf(lastAnalyzeFlag(frames))) = << >>
      BY <2>3 DEF Copies, OneIf
    <3>2. c \o << >> = c
      BY ZenonT(40), <2>1, ConcatEmptySeq
    <3> QED
      BY ZenonT(40), <2>3, <3>1, <3>2 DEF ReturnStack, c
  <2> QED
    BY ZenonT(40), <2>2, <2>3
<1>4. IF hasLoop(frames) THEN RETALT(frames, ReturnStack(frames), g) ELSE RET(frames, ReturnStack(frames), g)
  BY ZenonT(40), <1>2, <1>3 DEF Return
<1>5. \A i \in 1..Len(frames) : "return" \in frames[i].can
  BY ZenonT(40), <1>1, ReturnOutside
<1>6. CASE hasLoop(frames)
  BY ZenonT(40), <1>1, <1>4, <1>5, <1>6, RetAltReturns
<1>7. CASE ~hasLoop(frames)
  BY ZenonT(40), <1>1, <1>4, <1>5, <1>7, RetReturns
<1> QED
  BY ZenonT(40), <1>6, <1>7

LEMMA BreakStep == ASSUME IInv, Break PROVE IInv'
<1> DEFINE l == lastLoop
           n == frames[l].size
           gs == SubSeq(frames, 1, l)
           K == {i \in 1..Len(frames) : IsLoop(frames[i]) /\ Brk(frames[i])}
           g == [to |-> "break", at |-> l]
<1>1. /\ Nested(frames) /\ stack \in Seq(Value) /\ size \in Nat /\ Len(stack) = size
      /\ "break" \in frames[Len(frames)].can /\ Going("body", frames, stack, size)
      /\ Len(frames) \in Nat /\ frames[Len(frames)].size <= size
  BY SMTT(40), InBody DEF Break, Allowed, Inner, Going, Nested
<1>2. LoopOf("break", frames, l)
  BY ZenonT(40), <1>1, LoopAround DEF lastLoop
<1>3. l \in 1..Len(frames) /\ IsLoop(frames[l]) /\ Brk(frames[l])
  BY SMTT(40), <1>2 DEF LoopOf, Brk
<1> HIDE DEF l
<1>4. K \subseteq 1..Len(frames) /\ l \in K /\ \A j \in K : j <= l
  BY <1>1, <1>2, <1>3 DEF LoopOf
<1>5. LastOf(K) = l
  <2> HIDE DEF K
  <2>1. LastOf(K) \in K /\ \A j \in K : j <= LastOf(K)
    BY ZenonT(40), <1>1, <1>4, LastExists
  <2>2. LastOf(K) \in Int /\ l \in Int
    <3>1. LastOf(K) \in 1..Len(frames) /\ l \in 1..Len(frames)
      BY ZenonT(40), <1>4, <2>1
    <3> QED
      BY <1>1, <3>1
  <2>3. l <= LastOf(K) /\ LastOf(K) <= l
    BY ZenonT(40), <1>4, <2>1
  <2> QED
    BY <2>2, <2>3
<1>6. /\ Nested(gs) /\ Len(gs) = l /\ (\A i \in 1..l : gs[i] = frames[i]) /\ n \in Nat
      /\ n <= frames[Len(frames)].size /\ frames[Len(frames)].size \in Nat
  <2>1. Len(frames) \in 1..Len(frames)
    BY SMTT(40), <1>1 DEF Nested
  <2> QED
    BY ZenonT(40), <1>1, <1>3, <2>1, PrefixFrames
<1>7. n <= size /\ Len(stack) - (size - n) = n
  BY SMTT(40), <1>1, <1>6
<1>8. RETALT(frames, SubSeq(stack, 1, n), g)
  BY ZenonT(40), <1>7 DEF Break, Drop, l
<1>9. Goto("afterLoop", gs, SubSeq(stack, 1, n), n, g)
  BY ZenonT(40), <1>4, <1>5, <1>8 DEF RETALT
<1>10. ~Reached(g, "afterLoop", gs)
  BY ZenonT(40) DEF Reached
<1> HIDE DEF gs, n
<1>11. Going("afterLoop", gs, SubSeq(stack, 1, n), n) /\ SubSeq(stack, 1, n) \in Seq(Value)
  <2>1. n \in 0..Len(stack) /\ n = frames[l].size /\ n >= frames[l].size
    BY SMTT(40), <1>1, <1>6, <1>7 DEF n
  <2>2. (\A i \in 1..l : FlagAt(frames, stack, i)) /\ NamedThere(frames, stack)
    BY <1>1, <1>3 DEF Going
  <2> QED
    BY ZenonT(40), <1>1, <1>3, <1>6, <2>1, <2>2, Back
<1>12. pc' = "afterLoop" /\ frames' = gs /\ stack' = SubSeq(stack, 1, n) /\ size' = n /\ goal' = g
  BY ZenonT(40), <1>9, <1>10 DEF Goto
<1> QED
  BY ZenonT(40), <1>6, <1>11, <1>12 DEF IInv, Good

LEMMA ContinueStep == ASSUME IInv, Continue PROVE IInv'
<1> DEFINE l == lastLoop
           n == frames[l].size
           one == OneIf(frames[l].flag)
           c == SubSeq(stack, 1, n - one)
           s == IF lastAnalyzerBeforeLoop THEN Append(c, "continueFlag") ELSE SubSeq(stack, 1, n)
           g == [to |-> "continue", at |-> l]
<1>1. /\ Nested(frames) /\ stack \in Seq(Value) /\ size \in Nat /\ Len(stack) = size
      /\ "continue" \in frames[Len(frames)].can /\ Going("body", frames, stack, size)
      /\ Len(frames) \in Nat /\ frames[Len(frames)].size <= size
  BY SMTT(40), InBody DEF Continue, Allowed, Inner, Going, Nested
<1>2. LoopOf("continue", frames, l)
  BY ZenonT(40), <1>1, LoopAround DEF lastLoop
<1>3. l \in 2..Len(frames) /\ IsLoop(frames[l]) /\ Opened(frames, l)
  <2>1. l \in 1..Len(frames) /\ IsLoop(frames[l])
    BY ZenonT(40), <1>2 DEF LoopOf
  <2>2. l # 1
    BY ZenonT(40), <1>1, <2>1 DEF Nested, FunctionFrame, IsLoop, LoopKind
  <2> QED
    BY <1>1, <2>1, <2>2 DEF Nested
<1>4. /\ n \in Nat /\ n <= frames[Len(frames)].size /\ frames[Len(frames)].size \in Nat
      /\ frames[l] \in FrameSet /\ frames[l - 1].size \in Nat
  <2>1. Len(frames) \in 1..Len(frames) /\ l \in 1..Len(frames) /\ l - 1 \in 1..Len(frames)
    BY SMTT(40), <1>1, <1>3
  <2> QED
    BY ZenonT(40), <1>1, <2>1, PrefixFrames
<1>5. one \in Nat /\ frames[l - 1].size <= n - one
  <2>1. one \in Nat /\ frames[l].saved \in Nat /\ frames[l].vars \in Nat
    BY ZenonT(40), <1>4 DEF OneIf, FrameSet
  <2>2. n = frames[l].saved + frames[l].vars + one
    BY ZenonT(40), <1>3 DEF Opened
  <2>3. frames[l - 1].size <= frames[l].saved
    BY SMTT(40), <1>1, <1>3 DEF Opened
  <2> HIDE DEF n, one
  <2>4. n - one = frames[l].saved + frames[l].vars
    BY SMTT(40), <2>1, <2>2
  <2> QED
    BY SMTT(40), <1>4, <2>1, <2>3, <2>4
<1>6. n <= size /\ Len(stack) - (size - n) = n
  BY <1>1, <1>4
<1>7. /\ SubSeq(stack, 1, n) \in Seq(Value) /\ Len(SubSeq(stack, 1, n)) = n
      /\ \A i \in 1..n : SubSeq(stack, 1, n)[i] = stack[i]
  <2>1. n \in 0..Len(stack)
    BY <1>1, <1>4, <1>6
  <2> HIDE DEF n
  <2> QED
    BY ZenonT(40), <1>1, <2>1, PrefixIs
<1>8. /\ c \in Seq(Value) /\ Len(c) = n - one /\ \A i \in 1..(n - one) : c[i] = stack[i]
  <2> HIDE DEF n, one
  <2>1. n - one \in 0..Len(stack)
    BY SMTT(40), <1>1, <1>4, <1>5, <1>6
  <2> QED
    BY ZenonT(40), <1>1, <2>1, PrefixIs
<1>9. Drop(SubSeq(stack, 1, n), one) = c
  <2> HIDE DEF n, one
  <2>1. Drop(SubSeq(stack, 1, n), one) = SubSeq(SubSeq(stack, 1, n), 1, n - one)
    BY ZenonT(40), <1>7 DEF Drop
  <2> DEFINE d == SubSeq(SubSeq(stack, 1, n), 1, n - one)
  <2>2. n - one \in 0..n
    BY <1>4, <1>5
  <2>3. d \in Seq(Value) /\ Len(d) = n - one /\ \A i \in 1..(n - one) : d[i] = stack[i]
    <3> DEFINE e == SubSeq(stack, 1, n)
    <3>1. n - one \in 0..Len(e) /\ e \in Seq(Value)
      BY ZenonT(40), <1>7, <2>2
    <3> HIDE DEF e
    <3>2. SubSeq(e, 1, n - one) \in Seq(Value) /\ Len(SubSeq(e, 1, n - one)) = n - one
          /\ \A i \in 1..(n - one) : SubSeq(e, 1, n - one)[i] = e[i]
      BY ZenonT(40), <3>1, PrefixIs
    <3>3. \A i \in 1..(n - one) : e[i] = stack[i]
      BY SMTT(40), <1>4, <1>5, <1>7, <2>2 DEF e
    <3> QED
      BY ZenonT(40), <3>2, <3>3 DEF e
  <2> HIDE DEF d, c
  <2>4. d = c
    BY ZenonT(40), <1>8, <2>3, SeqEqual
  <2> QED
    BY ZenonT(40), <2>1, <2>4 DEF d
<1>10. RET(frames, s, g)
  <2>1. Drop(stack, size - n) = SubSeq(stack, 1, n)
    BY ZenonT(40), <1>6 DEF Drop
  <2> QED
    BY ZenonT(40), <1>9, <2>1 DEF Continue
<1> HIDE DEF l, n, one, c
<1>11. s \in Seq(Value) /\ \A i \in 1..(n - one) : s[i] = stack[i]
  <2>1. CASE lastAnalyzerBeforeLoop
    BY SMTT(40), <1>8, <2>1, AppendProperties, FlagValues
  <2>2. CASE ~lastAnalyzerBeforeLoop
    <3>1. \A i \in 1..(n - one) : i \in 1..n
      BY <1>4, <1>5
    <3> QED
      BY ZenonT(40), <1>7, <2>2, <3>1
  <2> QED
    BY ZenonT(40), <2>1, <2>2
<1>12. (\A i \in 1..(l - 1) : FlagAt(frames, s, i)) /\ NamedThere(frames, s)
  <2>1. \A i \in 1..frames[l - 1].size : s[i] = stack[i]
    <3>1. \A i \in 1..frames[l - 1].size : i \in 1..(n - one)
      BY SMTT(40), <1>4, <1>5
    <3> QED
      BY ZenonT(40), <1>11, <3>1
  <2>2. l - 1 \in 1..Len(frames) /\ (\A i \in 1..(l - 1) : FlagAt(frames, stack, i)) /\ NamedThere(frames, stack)
    BY <1>1, <1>3 DEF Going
  <2> HIDE DEF s
  <2> QED
    BY ZenonT(40), <1>1, <2>1, <2>2, Transfer
<1>13. ContinueStack(frames, s, l)
  <2>1. CASE lastAnalyzerBeforeLoop
    <3>1. \E i \in (l + 1)..Len(frames) : frames[i].flag
      BY ZenonT(40), <2>1 DEF lastAnalyzerBeforeLoop, l
    <3>2. s = Append(c, "continueFlag") /\ Len(s) = n - one + 1 /\ s[n - one + 1] = "continueFlag"
      BY SMTT(40), <1>8, <2>1, AppendProperties, FlagValues
    <3> HIDE DEF s
    <3> QED
      BY ZenonT(40), <1>11, <1>12, <3>1, <3>2 DEF ContinueStack, n, one
  <2>2. CASE ~lastAnalyzerBeforeLoop
    <3>1. ~\E i \in (l + 1)..Len(frames) : frames[i].flag
      BY ZenonT(40), <2>2 DEF lastAnalyzerBeforeLoop, l
    <3>2. Len(s) = n /\ \A i \in 1..n : s[i] = stack[i]
      BY ZenonT(40), <1>7, <2>2
    <3> HIDE DEF s
    <3>3. FlagAt(frames, s, l)
      <4>1. FlagAt(frames, stack, l) /\ l \in 1..Len(frames)
        BY SMTT(40), <1>1, <1>3 DEF Going
      <4>2. frames[l].flag => n \in 1..n
        BY SMTT(40), <1>1, <4>1, FlagSlot DEF n
      <4> QED
        BY ZenonT(40), <3>2, <4>1, <4>2 DEF FlagAt, n
    <3> QED
      BY ZenonT(40), <1>11, <1>12, <3>1, <3>2, <3>3 DEF ContinueStack, n
  <2> QED
    BY ZenonT(40), <2>1, <2>2
<1> HIDE DEF s
<1> QED
  BY ZenonT(40), <1>1, <1>2, <1>10, <1>13, RetContinues

-----------------------------------------------------------------------------
(* The ends of the function.                                               *)

LEMMA EndFunctionStep == ASSUME IInv, EndFunction PROVE IInv'
<1> DEFINE f == frames[1]
           n == f.size
           t == SubSeq(stack, 1, n)
           s == DropUnder(t, ArgQty, RetQty)
<1>1. /\ Nested(frames) /\ stack \in Seq(Value) /\ size \in Nat /\ Len(stack) = size /\ goal = NoGoal
      /\ Going("body", frames, stack, size) /\ Len(frames) = 1 /\ Inner = f /\ n \in Nat /\ n <= size
  BY ZenonT(40), InBody DEF EndFunction, Inner, Going
<1>2. f.vars = RetQty /\ n = ArgQty + RetQty /\ ArgQty \in Nat /\ RetQty \in Nat
  BY ZenonT(40), <1>1, ControlFlowAssumption DEF EndFunction, Nested, FunctionFrame
<1>3. size - ArgQty - RetQty = size - n /\ Len(stack) - (size - n) = n
  BY <1>1, <1>2
<1>4. t \in Seq(Value) /\ Len(t) = n /\ \A i \in 1..n : t[i] = stack[i]
  <2>1. n \in 0..Len(stack)
    BY <1>1
  <2> HIDE DEF n
  <2> QED
    BY ZenonT(40), <1>1, <2>1, PrefixIs
<1>5. Goto("done", frames, s, RetQty, NoGoal)
  <2>1. Drop(stack, size - ArgQty - RetQty) = t
    BY ZenonT(40), <1>3 DEF Drop
  <2> HIDE DEF t, n, f
  <2> QED
    BY ZenonT(40), <1>1, <1>2, <2>1 DEF EndFunction
<1>6. \A i \in 1..RetQty : t[ArgQty + i] = "named"
  <2>1. \A i \in 1..RetQty : ArgQty + i \in (ArgQty + 1)..n /\ ArgQty + i \in 1..n
    <3> HIDE DEF n
    <3> QED
      BY SMTT(40), <1>2
  <2>2. \A i \in (ArgQty + 1)..n : stack[i] = "named"
    BY ZenonT(40), <1>1 DEF Going, NamedThere
  <2> HIDE DEF t, n
  <2> QED
    BY ZenonT(40), <1>4, <2>1, <2>2
<1> HIDE DEF t, n
<1>7. s \in Seq(Value) /\ Len(s) = RetQty /\ \A i \in 1..RetQty : s[i] = "named"
  <2>1. s \in Seq(Value) /\ Len(s) = RetQty /\ \A i \in 1..RetQty : s[i] = t[ArgQty + i]
    <3>1. Len(t) = ArgQty + RetQty
      BY ZenonT(40), <1>2, <1>4
    <3> QED
      BY ZenonT(40), <1>2, <1>4, <3>1, DropUnderIs
  <2> QED
    BY ZenonT(40), <1>6, <2>1
<1> HIDE DEF s
<1>8. s = Copies("named", RetQty)
  BY ZenonT(40), <1>2, <1>7, AllCopies, FlagValues
<1>9. pc' = "done" /\ frames' = frames /\ stack' = s /\ size' = RetQty /\ goal' = NoGoal
  BY ZenonT(40), <1>5 DEF Goto
<1> QED
  BY ZenonT(40), <1>1, <1>2, <1>7, <1>8, <1>9 DEF IInv, Good

LEMMA LastReturnStep == ASSUME IInv, LastReturn PROVE IInv'
<1> DEFINE c == Copies("result", RetQty)
<1>1. Nested(frames) /\ stack \in Seq(Value) /\ size \in Nat /\ Len(stack) = size /\ goal = NoGoal
  BY ZenonT(40), InBody DEF LastReturn, Going
<1>2. DropUnder(stack \o c, size, RetQty) = c
  BY ZenonT(40), <1>1, UnderResults
<1>3. pc' = "done" /\ frames' = frames /\ stack' = c /\ size' = RetQty /\ goal' = NoGoal
  BY ZenonT(40), <1>1, <1>2 DEF LastReturn, Goto
<1>4. c \in Seq(Value) /\ RetQty \in Nat
  BY ZenonT(40), ResultsTyped, ControlFlowAssumption
<1> QED
  BY ZenonT(40), <1>1, <1>3, <1>4 DEF IInv, Good

LEMMA InitGood == Init => IInv
<1> SUFFICES ASSUME Init PROVE IInv
  BY ZenonT(40)
<1>1. PICK where \in {"noReturn", "Last", "Anywhere"}, named \in BOOLEAN :
        /\ where # "Last" => named
        /\ LET n == IF named THEN RetQty ELSE 0
               can == IF where = "Anywhere" THEN {"return"} ELSE {}
           IN /\ frames = <<Frame("function", can, FALSE, where = "Last", ArgQty + n, 0, n)>>
              /\ stack = Copies("variable", ArgQty) \o Copies("named", n)
              /\ size = ArgQty + n
        /\ pc = "body" /\ goal = NoGoal
  BY ZenonT(40) DEF Init
<1> DEFINE n == IF named THEN RetQty ELSE 0
           can == IF where = "Anywhere" THEN {"return"} ELSE {}
           f == Frame("function", can, FALSE, where = "Last", ArgQty + n, 0, n)
           a == Copies("variable", ArgQty)
           b == Copies("named", n)
<1>2. n \in Nat /\ n \in {0, RetQty} /\ ArgQty \in Nat /\ ArgQty + n \in Nat /\ can \in SUBSET Exit
      /\ can \subseteq {"return"} /\ (where # "Last" => n = RetQty)
  BY <1>1, ControlFlowAssumption DEF Exit
<1>3. f \in FrameSet /\ FunctionFrame(f) /\ f.size = ArgQty + n
  <2> HIDE DEF n, can
  <2> QED
    BY ZenonT(40), <1>2 DEF FrameSet, Frame, Kind, FunctionFrame
<1>4. frames = <<f>> /\ stack = a \o b /\ size = ArgQty + n
  BY ZenonT(40), <1>1
<1>5. a \in Seq(Value) /\ Len(a) = ArgQty /\ b \in Seq(Value) /\ Len(b) = n /\ \A i \in 1..n : b[i] = "named"
  <2> HIDE DEF n
  <2> QED
    BY SMTT(40), <1>2, CopiesIs, FlagValues
<1> HIDE DEF f, n, a, b
<1>6. Nested(frames) /\ Len(frames) = 1 /\ frames[1] = f
  BY <1>3, <1>4 DEF Nested
<1>7. /\ stack \in Seq(Value) /\ Len(stack) = ArgQty + n
      /\ \A i \in 1..(ArgQty + n) : stack[i] = IF i <= ArgQty THEN a[i] ELSE b[i - ArgQty]
  <2>1. /\ a \o b \in Seq(Value) /\ Len(a \o b) = Len(a) + Len(b)
        /\ \A i \in 1..(Len(a) + Len(b)) : (a \o b)[i] = IF i <= Len(a) THEN a[i] ELSE b[i - Len(a)]
    BY ZenonT(40), <1>5, ConcatProperties
  <2> QED
    BY ZenonT(40), <1>4, <1>5, <2>1
<1>8. NamedThere(frames, stack)
  <2> SUFFICES ASSUME NEW i \in (ArgQty + 1)..(ArgQty + n) PROVE stack[i] = "named"
    BY ZenonT(40), <1>3, <1>6 DEF NamedThere
  <2>1. i \in 1..(ArgQty + n) /\ ~(i <= ArgQty) /\ i - ArgQty \in 1..n
    BY SMTT(40), <1>2
  <2> QED
    BY ZenonT(40), <1>5, <1>7, <2>1
<1>9. Going("body", frames, stack, size)
  BY SMTT(40), <1>2, <1>3, <1>4, <1>6, <1>7, <1>8 DEF Going, FlagAt, FunctionFrame
<1> QED
  BY ZenonT(40), <1>1, <1>2, <1>4, <1>6, <1>7, <1>9 DEF IInv, Good

-----------------------------------------------------------------------------
(* The theorems.  Two kinds of functions are left out, for which           *)
(* visit(Continue) and visit(ForStatement) generate wrong code: a continue *)
(* in a loop without a return that stands in a statement with a flag, and  *)
(* a for statement that declares several variables.                        *)

LEMMA StepKeeps ==
  ASSUME ~ContinueUnderFlag, LoopVarQtys \subseteq {0, 1}, IInv, [Next]_vars
  PROVE  IInv'
<1>1. CASE Statement
  BY ZenonT(40), <1>1, DeclarationStep, BlockStep, IfStep, LoopStep, ReturnStep, BreakStep, ContinueStep DEF Statement
<1>2. CASE Control
  BY ZenonT(40), <1>2, EndBlockStep, EndBodyStep, AfterIfStep, LoopCodeStep, AfterLoopStep, EndFunctionStep, LastReturnStep
     DEF Control
<1>3. CASE Finished \/ UNCHANGED vars
  BY ZenonT(40), <1>3 DEF Finished, vars, IInv
<1> QED
  BY ZenonT(40), <1>1, <1>2, <1>3 DEF Next

\* The invariant holds in every state: the flags of the open statements are where visit(IfStatement) and
\* pushControlFlowFlag have pushed them, and a jump under way has the stack that the code behind the next if
\* or loop expects.
\* Assumed: no loop with a continue and without a return stands in a statement with a flag (there
\* visit(IfStatement) leaves the flag behind), and a for declares at most one variable.
THEOREM Inductive ==
  ASSUME ~ContinueUnderFlag, LoopVarQtys \subseteq {0, 1}
  PROVE  Spec => []IInv
<1>1. IInv /\ [Next]_vars => IInv'
  BY ZenonT(40), StepKeeps
<1> QED
  BY InitGood, <1>1, PTL DEF Spec

\* What the invariant says about a state.
LEMMA GoodSafe ==
  ASSUME IInv
  PROVE  SizeIsDepth /\ JumpsArrive /\ LeavesOnlyResults /\ OnlyFlagsTested /\ NoFlagOnlyJumps
<1>1. SizeIsDepth
  BY ZenonT(40), InBody DEF SizeIsDepth, Going
<1>2. JumpsArrive
  BY ZenonT(40) DEF IInv, Good, Going, Continuing, Returning, JumpsArrive
<1>3. LeavesOnlyResults
  BY ZenonT(40) DEF IInv, Good, Going, Continuing, Returning, LeavesOnlyResults
<1>4. OnlyFlagsTested
  <2> SUFFICES ASSUME pc \in {"afterIf", "afterLoop"}, Inner.flag
               PROVE  Len(stack) > 0 /\ stack[Len(stack)] \in Flag
    BY ZenonT(40) DEF OnlyFlagsTested
  <2>1. Nested(frames) /\ stack \in Seq(Value) /\ Len(frames) \in 1..Len(frames) /\ Len(stack) \in Nat
    BY DEF IInv, Good, Nested
  <2>2. Inner.size \in Nat \ {0}
    BY ZenonT(40), <2>1, FlagSlot DEF Inner
  <2>3. CASE Going(pc, frames, stack, size)
    <3>1. Len(stack) = Inner.size /\ FlagAt(frames, stack, Len(frames))
      BY ZenonT(40), <2>1, <2>3 DEF Going, Inner
    <3> QED
      BY <2>2, <3>1 DEF FlagAt, Inner, Flag
  <2>4. CASE \E l \in 1..Len(frames) : Continuing(pc, frames, stack, l)
    <3>1. PICK l \in 1..Len(frames) : Continuing(pc, frames, stack, l)
      BY ZenonT(40), <2>4
    <3>2. /\ Len(stack) = frames[l].size - OneIf(frames[l].flag) + 1 /\ stack[Len(stack)] = "continueFlag"
      BY ZenonT(40), <3>1 DEF Continuing
    <3>3. frames[l].size \in Nat /\ (frames[l].flag => frames[l].size > 0)
      BY SMTT(40), <2>1, FlagSlot, PrefixFrames
    <3> QED
      BY <3>2, <3>3 DEF OneIf, Flag
  <2>5. CASE Returning(pc, frames, stack)
    <3>1. Len(stack) = RetQty + 1 /\ stack[RetQty + 1] = "returnFlag" /\ RetQty \in Nat
      BY ZenonT(40), <2>5, ResultsTyped, ControlFlowAssumption DEF Returning
    <3> QED
      BY SMTT(40), <3>1 DEF Flag
  <2> QED
    BY ZenonT(40), <2>3, <2>4, <2>5 DEF IInv, Good
<1>5. NoFlagOnlyJumps
  <2> SUFFICES ASSUME pc = "body", "return" \in Inner.can, ~lastAnalyzeFlag(frames), NEW i \in 2..Len(frames)
               PROVE  frames[i].kind = "block" \/ (frames[i].kind = "if" /\ frames[i].jmp)
    BY ZenonT(40) DEF NoFlagOnlyJumps
  <2>1. Nested(frames) /\ Len(frames) \in Nat
    BY SMTT(40), InBody DEF Nested
  <2>2. \A j \in 1..Len(frames) : "return" \in frames[j].can /\ ~frames[j].flag
    BY ZenonT(40), <2>1, ReturnOutside DEF Inner, lastAnalyzeFlag
  <2>3. ASSUME NEW j \in 2..Len(frames) PROVE frames[j] \in FrameSet /\ Opened(frames, j) /\ ~IsLoop(frames[j])
    <3>1. frames[j] \in FrameSet /\ Opened(frames, j) /\ "return" \in frames[j].can /\ ~frames[j].flag
      BY SMTT(40), <2>1, <2>2 DEF Nested
    <3> QED
      BY ZenonT(40), <3>1 DEF Opened, LoopNeedsFlag
  <2>4. ~IsLoop(frames[1])
    BY ZenonT(40), <2>1 DEF Nested, FunctionFrame, IsLoop, LoopKind
  <2>5. ~\E j \in 1..(i - 1) : IsLoop(frames[j])
    <3>1. \A j \in 1..(i - 1) : j = 1 \/ j \in 2..Len(frames)
      BY SMTT(40), <2>1
    <3> QED
      BY ZenonT(40), <2>3, <2>4, <3>1
  <2>6. /\ frames[i] \in FrameSet /\ Opened(frames, i) /\ ~IsLoop(frames[i]) /\ ~frames[i].flag
        /\ "return" \in frames[i].can /\ frames[i].jmp \in BOOLEAN
    BY SMTT(40), <2>1, <2>2, <2>3 DEF FrameSet
  <2>7. frames[i].kind \in {"block", "if"}
    BY ZenonT(40), <2>6 DEF FrameSet, Kind, IsLoop, Opened
  <2> QED
    BY ZenonT(40), <2>5, <2>6, <2>7 DEF Opened, IfNeedsFlag
<1> QED
  BY ZenonT(40), <1>1, <1>2, <1>3, <1>4, <1>5

\* visit(Return), visit(Break), visit(Continue): wherever statements, conditions and loop expressions are
\* executed, the code generator's stack size is the depth of the TVM's stack.
\* Assumed: no loop with a continue and without a return stands in a statement with a flag (there
\* visit(IfStatement) leaves the flag behind), and a for declares at most one variable.
THEOREM DepthIsKnown ==
  ASSUME ~ContinueUnderFlag, LoopVarQtys \subseteq {0, 1}
  PROVE  Spec => []SizeIsDepth
<1>1. IInv => SizeIsDepth
  BY ZenonT(40), GoodSafe
<1> QED
  BY <1>1, Inductive, PTL

\* visit(Return), visit(Break), visit(Continue): a jump executes nothing on its way, and never leaves to a
\* continuation of the caller.
\* Assumed: no loop with a continue and without a return stands in a statement with a flag (there
\* visit(IfStatement) leaves the flag behind), and a for declares at most one variable.
THEOREM JumpsAreRight ==
  ASSUME ~ContinueUnderFlag, LoopVarQtys \subseteq {0, 1}
  PROVE  Spec => []JumpsArrive
<1>1. IInv => JumpsArrive
  BY ZenonT(40), GoodSafe
<1> QED
  BY <1>1, Inductive, PTL

\* visit(Return), acceptBody: a function leaves its return values on the stack and nothing else.
\* Assumed: no loop with a continue and without a return stands in a statement with a flag (there
\* visit(IfStatement) leaves the flag behind), and a for declares at most one variable.
THEOREM ResultsAreLeft ==
  ASSUME ~ContinueUnderFlag, LoopVarQtys \subseteq {0, 1}
  PROVE  Spec => []LeavesOnlyResults
<1>1. IInv => LeavesOnlyResults
  BY ZenonT(40), GoodSafe
<1> QED
  BY <1>1, Inductive, PTL

\* visit(IfStatement), afterLoopCheck: the code behind an if and a loop looks at a flag, never at a variable.
\* Assumed: no loop with a continue and without a return stands in a statement with a flag (there
\* visit(IfStatement) leaves the flag behind), and a for declares at most one variable.
THEOREM FlagsAreTested ==
  ASSUME ~ContinueUnderFlag, LoopVarQtys \subseteq {0, 1}
  PROVE  Spec => []OnlyFlagsTested
<1>1. IInv => OnlyFlagsTested
  BY ZenonT(40), GoodSafe
<1> QED
  BY <1>1, Inductive, PTL

\* visit(Return): "all continuation are run by JMPX" where no flag is pushed.
\* Assumed: no loop with a continue and without a return stands in a statement with a flag (there
\* visit(IfStatement) leaves the flag behind), and a for declares at most one variable.
THEOREM JumpsWithoutFlag ==
  ASSUME ~ContinueUnderFlag, LoopVarQtys \subseteq {0, 1}
  PROVE  Spec => []NoFlagOnlyJumps
<1>1. IInv => NoFlagOnlyJumps
  BY ZenonT(40), GoodSafe
<1> QED
  BY <1>1, Inductive, PTL

\* ensureSize(saveStackSize) at the end of visit(IfStatement), visit(WhileStatement), visit(ForStatement) and
\* visit(ForEachStatement) never fails.
\* Assumed: no loop with a continue and without a return stands in a statement with a flag (there
\* visit(IfStatement) leaves the flag behind), and a for declares at most one variable.
THEOREM SizeRestored ==
  ASSUME ~ContinueUnderFlag, LoopVarQtys \subseteq {0, 1}
  PROVE  Spec => RestoresSize
<1>1. IInv /\ [Next]_vars => [(pc \in {"afterIf", "afterLoop"} /\ pc' = "body") => (size' = Inner.saved)]_vars
  <2> SUFFICES ASSUME IInv, Next, pc \in {"afterIf", "afterLoop"}, pc' = "body"
               PROVE  size' = Inner.saved
    BY ZenonT(40)
  <2>1. AfterIf \/ AfterLoop
    BY ZenonT(40) DEF Next, Statement, Control, Finished, VariableDeclarationStatement, Block, IfStatement, LoopStatement,
           Return, Break, Continue, Allowed, EndBlock, EndIf, LoopHead, EndBody, LoopNext, EndFunction, LastReturn
  <2> QED
    BY ZenonT(40), <2>1, AfterIfStep, AfterLoopStep
<1> QED
  BY <1>1, Inductive, PTL DEF Spec, RestoresSize
=============================================================================
