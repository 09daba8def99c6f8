-------------------------- MODULE ScopeSizesProofs --------------------------
(***************************************************************************)
(* The two passes of ScopeSizes agree on the size of the stack in every    *)
(* function without a throw or an if that always leaves inside a loop: for *)
(* every number of parameters and results, every nesting of statements and *)
(* every depth of the stack.                                               *)
(***************************************************************************)
EXTENDS ScopeSizes, TLAPS

-----------------------------------------------------------------------------
(* The inductive invariant.                                                *)

Kind == {"function", "if", "else"} \cup LoopKind
FrameSet == [kind : Kind, can : SUBSET Exit, exits : SUBSET Exit, always : SUBSET Exit,
             then : SUBSET Exit, flag : BOOLEAN, jmp : BOOLEAN, else : BOOLEAN,
             size : Nat, vars : Nat, live : BOOLEAN]

\* The statement at i was opened inside the ones before it.  An if with two branches that both leave
\* does not stand in a loop.
Opened(fs, i) ==
    /\ fs[i].kind # "function"
    /\ fs[i].exits \subseteq fs[i].can
    /\ fs[i].kind \in {"if", "else"} => fs[i].can \subseteq fs[i - 1].can
    /\ IsLoop(fs[i]) /\ "return" \in fs[i].can => "return" \in fs[i - 1].can
    /\ fs[i].size >= fs[i].vars + OneIf(fs[i].flag)
    /\ fs[i].jmp /\ (fs[i].else \/ fs[i].kind = "else") => \A j \in 1..(i - 1) : ~IsLoop(fs[j])

Nested(fs) ==
    /\ fs \in Seq(FrameSet) /\ Len(fs) >= 1
    /\ fs[1].kind = "function" /\ fs[1].exits \subseteq fs[1].can
    /\ \A i \in 2..Len(fs) : Opened(fs, i)

\* The scopes of a statement that is kept
ScopeQty(f) == IF Wrapped(f) THEN 2 ELSE 1

\* The statements 1..m are the ones that are kept, and the scope of the body of i is the one at at[i].
\* In the scopes around it the size is the generator's at the start of that body.
Scopes(m, at, fs, ss) ==
    /\ m \in 1..Len(fs)
    /\ \A i \in 1..Len(fs) : fs[i].live <=> i <= m
    /\ at \in [1..m -> Nat]
    /\ at[1] = 1 /\ at[m] = Len(ss)
    /\ \A i \in 2..m : at[i] = at[i - 1] + ScopeQty(fs[i])
    /\ \A i, j \in 1..m : i < j => at[i] < at[j]
    /\ \A i \in 2..m : \A j \in at[i - 1]..(at[i] - 1) : ss[j] = fs[i].size

\* Where the code of a loop has ended before its text, an exit ended it, and its visit has left an
\* empty scope.
Stopped(m, fs, ss) ==
    (\E j \in 1..m : IsLoop(fs[j])) => fs[m].can # {} /\ ss[Len(ss)] = fs[m].size

Matched(sz, ss, lv, fs, m, at) ==
    /\ Scopes(m, at, fs, ss)
    /\ lv => m = Len(fs) /\ ss[Len(ss)] = sz
    /\ ~lv => Stopped(m, fs, ss)

Good(sz, ss, lv, fs) ==
    /\ sz \in Nat
    /\ ss \in Seq(Nat) /\ ss # <<>>
    /\ lv \in BOOLEAN
    /\ Nested(fs)
    /\ \E m \in 1..Len(fs) : \E at \in [1..m -> Nat] : Matched(sz, ss, lv, fs, m, at)

IInv == Good(size, sizes, live, frames) /\ failed = FALSE

-----------------------------------------------------------------------------
(* Sequences.                                                              *)

LEMMA PrefixIs ==
  ASSUME NEW T, NEW s \in Seq(T), s # <<>>
  PROVE  /\ Front(s) \in Seq(T)
         /\ Len(Front(s)) = Len(s) - 1
         /\ \A i \in 1..(Len(s) - 1) : Front(s)[i] = s[i]
<1>1. Len(s) \in Nat /\ Len(s) >= 1 /\ Front(s) = [i \in 1..(Len(s) - 1) |-> s[i]]
  BY DEF Front
<1> QED
  BY <1>1

\* The operations on m_stackSize.
LEMMA DeltaIs ==
  ASSUME NEW ss \in Seq(Nat), ss # <<>>, NEW d \in Int, ss[Len(ss)] + d \in Nat
  PROVE  /\ delta(ss, d) \in Seq(Nat) /\ delta(ss, d) # <<>>
         /\ Len(delta(ss, d)) = Len(ss)
         /\ delta(ss, d)[Len(ss)] = ss[Len(ss)] + d
         /\ \A j \in 1..(Len(ss) - 1) : delta(ss, d)[j] = ss[j]
<1>1. Len(ss) \in Nat \ {0}
  OBVIOUS
<1>2. /\ Front(ss) \in Seq(Nat) /\ Len(Front(ss)) = Len(ss) - 1
      /\ \A j \in 1..(Len(ss) - 1) : Front(ss)[j] = ss[j]
  BY ZenonT(40), PrefixIs
<1> HIDE DEF Front
<1> QED
  BY SMTT(40), <1>1, <1>2 DEF delta, Last

LEMMA StartIs ==
  ASSUME NEW ss \in Seq(Nat), ss # <<>>
  PROVE  /\ startScope(ss) \in Seq(Nat) /\ startScope(ss) # <<>>
         /\ Len(startScope(ss)) = Len(ss) + 1
         /\ startScope(ss)[Len(ss) + 1] = ss[Len(ss)]
         /\ \A j \in 1..Len(ss) : startScope(ss)[j] = ss[j]
<1>1. Len(ss) \in Nat \ {0}
  OBVIOUS
<1> QED
  BY <1>1 DEF startScope, Last

LEMMA EndIs ==
  ASSUME NEW ss \in Seq(Nat), Len(ss) >= 2
  PROVE  /\ endScope(ss) \in Seq(Nat) /\ endScope(ss) # <<>>
         /\ Len(endScope(ss)) = Len(ss) - 1
         /\ \A j \in 1..(Len(ss) - 1) : endScope(ss)[j] = ss[j]
<1>1. Len(ss) \in Nat /\ 1 <= Len(ss) - 1
  OBVIOUS
<1>2. ss # <<>>
  BY <1>1
<1>3. /\ Front(ss) \in Seq(Nat) /\ Len(Front(ss)) = Len(ss) - 1
      /\ \A j \in 1..(Len(ss) - 1) : Front(ss)[j] = ss[j]
  BY ZenonT(40), <1>2, PrefixIs
<1> QED
  BY <1>1, <1>3 DEF endScope

-----------------------------------------------------------------------------
(* Frames.                                                                 *)

\* What the scopes depend on
Alike(fs, gs) ==
    /\ Len(gs) = Len(fs)
    /\ \A i \in 1..Len(fs) :
         /\ gs[i].can = fs[i].can /\ gs[i].size = fs[i].size /\ gs[i].live = fs[i].live
         /\ IsLoop(gs[i]) <=> IsLoop(fs[i])
         /\ ScopeQty(gs[i]) = ScopeQty(fs[i])

LEMMA AlikeScopes ==
  ASSUME NEW fs, NEW gs, Alike(fs, gs), NEW m, NEW at, NEW ss, Len(fs) \in Nat
  PROVE  /\ Scopes(m, at, fs, ss) => Scopes(m, at, gs, ss)
         /\ m \in 1..Len(fs) /\ Stopped(m, fs, ss) => Stopped(m, gs, ss)
<1>1. Scopes(m, at, fs, ss) => Scopes(m, at, gs, ss)
  <2> SUFFICES ASSUME Scopes(m, at, fs, ss)
               PROVE  Scopes(m, at, gs, ss)
    BY ZenonT(40)
  <2>1. m \in 1..Len(fs) /\ \A i \in 2..m : i \in 1..Len(fs)
    BY DEF Scopes
  <2>2. \A i \in 2..m : gs[i].size = fs[i].size /\ ScopeQty(gs[i]) = ScopeQty(fs[i])
    BY ZenonT(40), <2>1 DEF Alike
  <2>3. m \in 1..Len(gs) /\ \A i \in 1..Len(gs) : gs[i].live <=> i <= m
    BY ZenonT(40), <2>1 DEF Alike, Scopes
  <2>4. \A i \in 2..m : at[i] = at[i - 1] + ScopeQty(gs[i])
    BY ZenonT(40), <2>2 DEF Scopes
  <2>5. \A i \in 2..m : \A j \in at[i - 1]..(at[i] - 1) : ss[j] = gs[i].size
    BY ZenonT(40), <2>2 DEF Scopes
  <2> QED
    BY ZenonT(40), <2>3, <2>4, <2>5 DEF Scopes
<1>2. m \in 1..Len(fs) /\ Stopped(m, fs, ss) => Stopped(m, gs, ss)
  BY DEF Alike, Stopped
<1> QED
  BY ZenonT(40), <1>1, <1>2

\* The innermost statement, with more of its exits met.
Touched(fs, exits, always) ==
    [fs EXCEPT ![Len(fs)].exits = @ \cup exits, ![Len(fs)].always = @ \cup always]

LEMMA TouchedIs ==
  ASSUME NEW fs, Nested(fs), NEW exits, exits \subseteq fs[Len(fs)].can,
         NEW always \in SUBSET Exit
  PROVE  Nested(Touched(fs, exits, always)) /\ Alike(fs, Touched(fs, exits, always))
<1> DEFINE gs == Touched(fs, exits, always)
           n == Len(fs)
<1>1. n \in Nat \ {0} /\ fs \in Seq(FrameSet) /\ n \in 1..n
  BY DEF Nested
<1>2. fs[n] \in FrameSet
  BY <1>1
<1>3. /\ exits \subseteq Exit
      /\ fs[n].can \in SUBSET Exit /\ fs[n].exits \in SUBSET Exit /\ fs[n].always \in SUBSET Exit
  BY ZenonT(40), <1>2 DEF FrameSet
<1>4. fs[n].exits \subseteq fs[n].can
  <2>1. CASE n = 1
    BY ZenonT(40), <2>1 DEF Nested
  <2>2. CASE n >= 2
    <3>1. n \in 2..Len(fs)
      BY <1>1, <2>2
    <3> QED
      BY ZenonT(40), <3>1 DEF Nested, Opened
  <2>3. n = 1 \/ n >= 2
    <3> HIDE DEF n, gs
    <3> QED
      BY <1>1
  <2> HIDE DEF n
  <2> QED
    BY ZenonT(40), <2>1, <2>2, <2>3
<1>5. gs = [fs EXCEPT ![n] = [fs[n] EXCEPT !.exits = fs[n].exits \cup exits,
                                           !.always = fs[n].always \cup always]]
  BY ZenonT(40), <1>1, <1>2 DEF Touched, FrameSet
<1>6. /\ gs \in Seq(FrameSet) /\ Len(gs) = n
      /\ \A i \in 1..n : i # n => gs[i] = fs[i]
  <2> DEFINE g == [fs[n] EXCEPT !.exits = fs[n].exits \cup exits, !.always = fs[n].always \cup always]
  <2>1. g \in FrameSet
    BY ZenonT(40), <1>2, <1>3 DEF FrameSet
  <2>2. gs = [fs EXCEPT ![n] = g]
    BY ZenonT(40), <1>5
  <2> HIDE DEF g, gs
  <2> QED
    BY <1>1, <2>1, <2>2
<1>7. /\ gs[n].kind = fs[n].kind /\ gs[n].can = fs[n].can /\ gs[n].size = fs[n].size
      /\ gs[n].live = fs[n].live /\ gs[n].flag = fs[n].flag /\ gs[n].jmp = fs[n].jmp
      /\ gs[n].else = fs[n].else /\ gs[n].vars = fs[n].vars
      /\ gs[n].exits = fs[n].exits \cup exits
  BY <1>1, <1>2, <1>5 DEF FrameSet
<1> HIDE DEF gs
<1>8. /\ \A i \in 1..n : /\ gs[i].kind = fs[i].kind /\ gs[i].can = fs[i].can
                         /\ gs[i].size = fs[i].size /\ gs[i].live = fs[i].live
                         /\ gs[i].flag = fs[i].flag /\ gs[i].jmp = fs[i].jmp
                         /\ gs[i].else = fs[i].else /\ gs[i].vars = fs[i].vars
      /\ \A i \in 1..n : fs[i].exits \subseteq fs[i].can => gs[i].exits \subseteq gs[i].can
  BY ZenonT(40), <1>4, <1>6, <1>7
<1>9. Nested(gs)
  <2>1. ASSUME NEW i \in 2..n PROVE Opened(gs, i)
    <3>1. Opened(fs, i) /\ i \in 1..n /\ i - 1 \in 1..n /\ \A j \in 1..(i - 1) : j \in 1..n
      BY <1>1 DEF Nested
    <3> QED
      BY ZenonT(40), <1>8, <3>1 DEF Opened, IsLoop
  <2> QED
    BY <1>1, <1>6, <1>8, <2>1 DEF Nested
<1>10. Alike(fs, gs)
  BY ZenonT(40), <1>6, <1>8 DEF Alike, IsLoop, ScopeQty, Wrapped
<1> QED
  BY ZenonT(40), <1>9, <1>10 DEF gs

\* The innermost statement
LEMMA InnerIs ==
  ASSUME NEW fs, Nested(fs)
  PROVE  /\ fs \in Seq(FrameSet) /\ Len(fs) \in Nat \ {0}
         /\ fs[Len(fs)] \in FrameSet
         /\ Last(fs) = fs[Len(fs)]
         /\ fs[Len(fs)].kind # "function" => Len(fs) >= 2 /\ Opened(fs, Len(fs))
<1>1. fs \in Seq(FrameSet) /\ Len(fs) \in Nat \ {0} /\ Len(fs) \in 1..Len(fs)
  BY DEF Nested
<1>2. fs[Len(fs)] \in FrameSet
  BY <1>1
<1>3. Len(fs) = 1 \/ Len(fs) \in 2..Len(fs)
  <2> DEFINE n == Len(fs)
  <2>1. n \in Nat \ {0}
    BY ZenonT(40), <1>1
  <2> HIDE DEF n
  <2>2. n = 1 \/ n \in 2..n
    BY <2>1
  <2> QED
    BY ZenonT(40), <2>2 DEF n
<1> QED
  BY <1>1, <1>2, <1>3 DEF Nested, Last

LEMMA FrontNested ==
  ASSUME NEW fs, Nested(fs), Len(fs) >= 2
  PROVE  /\ Nested(Front(fs)) /\ Len(Front(fs)) = Len(fs) - 1
         /\ \A i \in 1..(Len(fs) - 1) : Front(fs)[i] = fs[i]
<1> DEFINE gs == Front(fs)
           n == Len(fs)
<1>1. fs \in Seq(FrameSet) /\ n \in Nat /\ fs # <<>>
  BY DEF Nested
<1>2. gs \in Seq(FrameSet) /\ Len(gs) = n - 1 /\ \A i \in 1..(n - 1) : gs[i] = fs[i]
  BY ZenonT(40), <1>1, PrefixIs
<1> HIDE DEF gs
<1>3. ASSUME NEW i \in 2..(n - 1) PROVE Opened(gs, i)
  <2>0. i \in 2..Len(fs) /\ i \in 1..(n - 1) /\ i - 1 \in 1..(n - 1)
        /\ \A j \in 1..(i - 1) : j \in 1..(n - 1)
    BY <1>1
  <2>1. Opened(fs, i) /\ gs[i] = fs[i] /\ gs[i - 1] = fs[i - 1] /\ \A j \in 1..(i - 1) : gs[j] = fs[j]
    BY ZenonT(40), <1>2, <2>0 DEF Nested
  <2> QED
    BY ZenonT(40), <2>1 DEF Opened
<1>4. Nested(gs)
  BY <1>1, <1>2, <1>3 DEF Nested
<1> QED
  BY ZenonT(40), <1>2, <1>4 DEF gs

LEMMA AppendNested ==
  ASSUME NEW fs, Nested(fs), NEW f \in FrameSet, Opened(Append(fs, f), Len(fs) + 1)
  PROVE  /\ Nested(Append(fs, f)) /\ Len(Append(fs, f)) = Len(fs) + 1
         /\ Append(fs, f)[Len(fs) + 1] = f
         /\ \A i \in 1..Len(fs) : Append(fs, f)[i] = fs[i]
<1> DEFINE gs == Append(fs, f)
<1>1. /\ gs \in Seq(FrameSet) /\ Len(gs) = Len(fs) + 1 /\ gs[Len(fs) + 1] = f
      /\ \A i \in 1..Len(fs) : gs[i] = fs[i]
  BY DEF Nested
<1>2. ASSUME NEW i \in 2..Len(fs) PROVE Opened(gs, i)
  <2> HIDE DEF gs
  <2>1. Opened(fs, i) /\ gs[i] = fs[i] /\ gs[i - 1] = fs[i - 1] /\ \A j \in 1..(i - 1) : gs[j] = fs[j]
    BY <1>1 DEF Nested
  <2> QED
    BY ZenonT(40), <2>1 DEF Opened
<1>3. Opened(gs, Len(gs))
  BY ZenonT(40), <1>1
<1>4. Nested(gs)
  <2> HIDE DEF gs
  <2> QED
    BY <1>1, <1>2, <1>3 DEF Nested
<1> QED
  BY ZenonT(40), <1>1, <1>4

-----------------------------------------------------------------------------
(* Scopes.                                                                 *)

\* Only the innermost scope changes its size.
LEMMA KeepScopes ==
  ASSUME NEW fs, Len(fs) \in Nat, NEW m, NEW at, NEW ss, NEW tt, Scopes(m, at, fs, ss),
         Len(ss) \in Nat, Len(tt) = Len(ss), \A j \in 1..(Len(ss) - 1) : tt[j] = ss[j]
  PROVE  Scopes(m, at, fs, tt)
<1>1. m \in 1..Len(fs) /\ m \in Nat
  BY DEF Scopes
<1>2. ASSUME NEW i \in 2..m, NEW j \in at[i - 1]..(at[i] - 1) PROVE tt[j] = fs[i].size
  <2>1. i - 1 \in 1..m /\ i \in 1..m /\ 1 \in 1..m /\ m \in 1..m
    BY <1>1
  <2>2. at[i - 1] \in Nat /\ at[i] \in Nat /\ at[1] = 1 /\ at[m] = Len(ss)
    BY ZenonT(40), <2>1 DEF Scopes
  <2>3. (1 < i - 1 => at[1] < at[i - 1]) /\ (i < m => at[i] < at[m])
    BY ZenonT(40), <2>1 DEF Scopes
  <2>4. at[i - 1] >= 1 /\ at[i] <= Len(ss)
    BY SMTT(40), <1>1, <2>2, <2>3
  <2>5. j \in 1..(Len(ss) - 1)
    BY SMTT(40), <2>2, <2>4
  <2> QED
    BY ZenonT(40), <2>5 DEF Scopes
<1> QED
  BY ZenonT(40), <1>2 DEF Scopes

\* A statement that is not kept has no scope.
LEMMA OpenDead ==
  ASSUME NEW fs, Len(fs) \in Nat, NEW gs, Len(gs) = Len(fs) + 1,
         \A i \in 1..Len(fs) : gs[i] = fs[i], ~gs[Len(fs) + 1].live,
         NEW m, NEW at, NEW ss
  PROVE  /\ Scopes(m, at, fs, ss) => Scopes(m, at, gs, ss)
         /\ m \in 1..Len(fs) /\ Stopped(m, fs, ss) => Stopped(m, gs, ss)
<1>1. Scopes(m, at, fs, ss) => Scopes(m, at, gs, ss)
  <2> SUFFICES ASSUME Scopes(m, at, fs, ss)
               PROVE  Scopes(m, at, gs, ss)
    BY ZenonT(40)
  <2>1. m \in 1..Len(fs) /\ \A i \in 2..m : i \in 1..Len(fs)
    BY DEF Scopes
  <2>2. \A i \in 2..m : gs[i] = fs[i]
    BY ZenonT(40), <2>1
  <2>3. m \in 1..Len(gs) /\ \A i \in 1..Len(gs) : gs[i].live <=> i <= m
    <3>1. \A i \in 1..Len(fs) : fs[i].live <=> i <= m
      BY ZenonT(40) DEF Scopes
    <3>2. \A i \in 1..Len(gs) : i \in 1..Len(fs) \/ i = Len(fs) + 1
      OBVIOUS
    <3> QED
      BY <2>1, <3>1, <3>2
  <2>4. \A i \in 2..m : at[i] = at[i - 1] + ScopeQty(gs[i])
    BY ZenonT(40), <2>2 DEF Scopes
  <2>5. \A i \in 2..m : \A j \in at[i - 1]..(at[i] - 1) : ss[j] = gs[i].size
    <3>1. \A i \in 2..m : \A j \in at[i - 1]..(at[i] - 1) : ss[j] = fs[i].size
      BY ZenonT(40) DEF Scopes
    <3> QED
      BY ZenonT(40), <2>2, <3>1
  <2> QED
    BY ZenonT(40), <2>3, <2>4, <2>5 DEF Scopes
<1>2. m \in 1..Len(fs) /\ Stopped(m, fs, ss) => Stopped(m, gs, ss)
  BY DEF Stopped
<1> QED
  BY ZenonT(40), <1>1, <1>2

LEMMA CloseDead ==
  ASSUME NEW fs, Len(fs) \in Nat, NEW gs, Len(gs) = Len(fs) - 1,
         \A i \in 1..Len(gs) : gs[i] = fs[i], NEW m, NEW at, NEW ss,
         Scopes(m, at, fs, ss), ~fs[Len(fs)].live
  PROVE  /\ m \in 1..Len(gs) /\ Scopes(m, at, gs, ss)
         /\ Stopped(m, fs, ss) => Stopped(m, gs, ss)
<1>1. m \in 1..Len(fs) /\ m # Len(fs)
  BY DEF Scopes
<1>2. m \in 1..Len(gs) /\ \A i \in 2..m : i \in 1..Len(gs)
  BY <1>1
<1>3. \A i \in 2..m : gs[i] = fs[i]
  BY ZenonT(40), <1>2
<1>4. \A i \in 1..Len(gs) : gs[i].live <=> i <= m
  <2>1. \A i \in 1..Len(fs) : fs[i].live <=> i <= m
    BY ZenonT(40) DEF Scopes
  <2>2. \A i \in 1..Len(gs) : i \in 1..Len(fs)
    OBVIOUS
  <2> QED
    BY ZenonT(40), <2>1, <2>2
<1>5. \A i \in 2..m : at[i] = at[i - 1] + ScopeQty(gs[i])
  BY ZenonT(40), <1>3 DEF Scopes
<1>6. \A i \in 2..m : \A j \in at[i - 1]..(at[i] - 1) : ss[j] = gs[i].size
  <2>1. \A i \in 2..m : \A j \in at[i - 1]..(at[i] - 1) : ss[j] = fs[i].size
    BY ZenonT(40) DEF Scopes
  <2> QED
    BY ZenonT(40), <1>3, <2>1
<1>7. Scopes(m, at, gs, ss)
  BY ZenonT(40), <1>2, <1>4, <1>5, <1>6 DEF Scopes
<1>8. Stopped(m, fs, ss) => Stopped(m, gs, ss)
  BY SMTT(40), <1>2 DEF Stopped
<1> QED
  BY ZenonT(40), <1>2, <1>7, <1>8

\* A statement whose code is kept is opened inside the n statements fs, with k scopes: gs are the
\* statements and tt the sizes then.
Opens(ss, fs, n, k, gs, tt) ==
    /\ n \in Nat \ {0} /\ Len(fs) = n /\ Len(gs) = n + 1
    /\ \A i \in 1..n : gs[i] = fs[i]
    /\ gs[n + 1].live
    /\ k \in Nat /\ Len(ss) = k /\ Len(tt) = k + ScopeQty(gs[n + 1])
    /\ \A j \in 1..(k - 1) : tt[j] = ss[j]
    /\ \A j \in k..(k + ScopeQty(gs[n + 1]) - 1) : tt[j] = gs[n + 1].size

LEMMA OpenScopes ==
  ASSUME NEW fs, NEW gs, NEW n, NEW k, NEW at, NEW ss, NEW tt,
         Scopes(n, at, fs, ss), Opens(ss, fs, n, k, gs, tt)
  PROVE  \E at2 \in [1..(n + 1) -> Nat] : Scopes(n + 1, at2, gs, tt)
<1> DEFINE q == ScopeQty(gs[n + 1])
<1>0. /\ n \in Nat \ {0} /\ Len(fs) = n /\ Len(gs) = n + 1
      /\ \A i \in 1..n : gs[i] = fs[i]
      /\ gs[n + 1].live
      /\ k \in Nat /\ Len(ss) = k /\ Len(tt) = k + q /\ q = ScopeQty(gs[n + 1]) /\ q \in {1, 2}
      /\ \A j \in 1..(k - 1) : tt[j] = ss[j]
      /\ \A j \in k..(k + q - 1) : tt[j] = gs[n + 1].size
  BY ZenonT(40) DEF Opens, ScopeQty
<1> HIDE DEF q
<1> USE <1>0
<1> DEFINE at2 == [i \in 1..(n + 1) |-> IF i <= n THEN at[i] ELSE k + q]
<1>1. /\ at \in [1..n -> Nat] /\ at[1] = 1 /\ at[n] = k
      /\ \A i \in 2..n : at[i] = at[i - 1] + ScopeQty(fs[i])
      /\ \A i, j \in 1..n : i < j => at[i] < at[j]
      /\ \A i \in 2..n : \A j \in at[i - 1]..(at[i] - 1) : ss[j] = fs[i].size
      /\ \A i \in 1..n : fs[i].live <=> i <= n
  BY ZenonT(40) DEF Scopes
<1>2. \A i \in 1..n : at[i] \in 1..k
  <2> TAKE i \in 1..n
  <2>1. (1 < i => at[1] < at[i]) /\ (i < n => at[i] < at[n]) /\ at[i] \in Nat
    BY <1>1
  <2>2. i = 1 \/ 1 < i
    OBVIOUS
  <2>3. i = n \/ i < n
    OBVIOUS
  <2>4. at[i] >= 1
    BY SMTT(40), <1>1, <2>1, <2>2
  <2>5. at[i] <= k
    BY <1>1, <2>1, <2>3
  <2> QED
    BY <2>1, <2>4, <2>5
<1>3. /\ at2 \in [1..(n + 1) -> Nat] /\ at2[n + 1] = k + q
      /\ \A i \in 1..n : at2[i] = at[i]
  BY <1>2
<1> HIDE DEF at2
<1>4. \A i \in 1..(n + 1) : i \in 1..n \/ i = n + 1
  OBVIOUS
<1>5. n + 1 \in 1..Len(gs) /\ \A i \in 1..Len(gs) : gs[i].live <=> i <= n + 1
  <2>1. \A i \in 1..n : gs[i].live
    BY SMTT(40), <1>1
  <2>2. \A i \in 1..(n + 1) : gs[i].live /\ i <= n + 1
    BY SMTT(40), <1>4, <2>1
  <2> QED
    BY <2>2
<1>6. at2[1] = 1 /\ at2[n + 1] = Len(tt)
  BY <1>1, <1>3
<1>7. ASSUME NEW i \in 2..(n + 1)
      PROVE  /\ at2[i] = at2[i - 1] + ScopeQty(gs[i])
             /\ \A j \in at2[i - 1]..(at2[i] - 1) : tt[j] = gs[i].size
  <2>1. CASE i = n + 1
    <3>1. at2[i] = k + q /\ at2[i - 1] = k
      BY <1>1, <1>3, <2>1
    <3> QED
      BY <2>1, <3>1
  <2>2. CASE i \in 2..n
    <3>1. i \in 1..n /\ i - 1 \in 1..n
      BY <2>2
    <3>2. at2[i] = at[i] /\ at2[i - 1] = at[i - 1] /\ gs[i] = fs[i]
      BY ZenonT(40), <1>3, <3>1
    <3>3. at[i] \in 1..k /\ at[i - 1] \in 1..k
      BY ZenonT(40), <1>2, <3>1
    <3>4. \A j \in at[i - 1]..(at[i] - 1) : j \in 1..(k - 1)
      BY SMTT(40), <3>3
    <3>5. \A j \in at[i - 1]..(at[i] - 1) : tt[j] = ss[j]
      BY ZenonT(40), <3>4
    <3>6. at[i] = at[i - 1] + ScopeQty(fs[i])
      BY ZenonT(40), <1>1, <2>2
    <3>7. \A j \in at[i - 1]..(at[i] - 1) : ss[j] = fs[i].size
      BY ZenonT(40), <1>1, <2>2
    <3> QED
      BY <3>2, <3>5, <3>6, <3>7
  <2> QED
    BY <1>4, <2>1, <2>2
<1>8. ASSUME NEW i \in 1..(n + 1), NEW j \in 1..(n + 1), i < j PROVE at2[i] < at2[j]
  <2>1. i \in 1..n /\ at2[i] = at[i]
    BY SMTT(40), <1>3, <1>8
  <2>2. CASE j = n + 1
    BY SMTT(40), <1>2, <1>3, <2>1, <2>2
  <2>3. CASE j \in 1..n
    BY ZenonT(40), <1>1, <1>3, <1>8, <2>1, <2>3
  <2> QED
    BY ZenonT(40), <1>4, <2>2, <2>3
<1>9. Scopes(n + 1, at2, gs, tt)
  BY ZenonT(40), <1>3, <1>5, <1>6, <1>7, <1>8 DEF Scopes
<1> QED
  BY ZenonT(40), <1>3, <1>9

\* The size in the scopes of the innermost statement, and in the one around them
TopIs(n, fs, at, ss, k) ==
  /\ k - ScopeQty(fs[n]) \in Nat \ {0}
  /\ at[n - 1] = k - ScopeQty(fs[n])
  /\ \A j \in (k - ScopeQty(fs[n]))..(k - 1) : ss[j] = fs[n].size

LEMMA TopScope ==
  ASSUME NEW n \in Nat, n >= 2, NEW fs, Len(fs) = n, NEW at, NEW ss,
         Scopes(n, at, fs, ss), NEW k \in Nat, Len(ss) = k
  PROVE  TopIs(n, fs, at, ss, k)
<1>1. n \in 2..n /\ n - 1 \in 1..n /\ 1 \in 1..n
  OBVIOUS
<1>2. /\ at[n] = at[n - 1] + ScopeQty(fs[n]) /\ at[n] = k
      /\ \A j \in at[n - 1]..(at[n] - 1) : ss[j] = fs[n].size
      /\ at[n - 1] \in Nat /\ at[1] = 1 /\ (1 < n - 1 => at[1] < at[n - 1])
  BY ZenonT(40), <1>1 DEF Scopes
<1>3. at[n - 1] >= 1
  BY <1>2
<1>4. ScopeQty(fs[n]) \in {1, 2}
  BY ZenonT(40) DEF ScopeQty
<1>5. at[n - 1] = k - ScopeQty(fs[n])
  BY <1>2, <1>4
<1> QED
  BY <1>2, <1>3, <1>5 DEF TopIs

\* ... and when it is closed
LEMMA CloseScopes ==
  ASSUME NEW n \in Nat, n >= 2, NEW fs, Len(fs) = n, NEW gs, Len(gs) = n - 1,
         \A i \in 1..(n - 1) : gs[i] = fs[i], NEW at, NEW ss, NEW tt,
         Scopes(n, at, fs, ss), Len(ss) \in Nat, Len(tt) = Len(ss) - ScopeQty(fs[n]),
         \A j \in 1..(Len(tt) - 1) : tt[j] = ss[j]
  PROVE  \E at2 \in [1..(n - 1) -> Nat] : Scopes(n - 1, at2, gs, tt)
<1> DEFINE at2 == [i \in 1..(n - 1) |-> at[i]]
<1>1. /\ at \in [1..n -> Nat] /\ at[1] = 1
      /\ \A i \in 2..n : at[i] = at[i - 1] + ScopeQty(fs[i])
      /\ \A i, j \in 1..n : i < j => at[i] < at[j]
      /\ \A i \in 2..n : \A j \in at[i - 1]..(at[i] - 1) : ss[j] = fs[i].size
      /\ \A i \in 1..n : fs[i].live <=> i <= n
  BY ZenonT(40) DEF Scopes
<1>2. at[n - 1] = Len(tt) /\ Len(tt) \in Nat
  <2> DEFINE k == Len(ss)
  <2>1. k \in Nat /\ Len(ss) = k /\ Len(tt) = k - ScopeQty(fs[n])
    BY ZenonT(40)
  <2> HIDE DEF k
  <2>2. TopIs(n, fs, at, ss, k)
    BY ZenonT(40), <2>1, TopScope
  <2> QED
    BY <2>1, <2>2 DEF TopIs
<1>3. \A i \in 1..(n - 1) : i \in 1..n
  OBVIOUS
<1>4. at2 \in [1..(n - 1) -> Nat] /\ \A i \in 1..(n - 1) : at2[i] = at[i]
  BY ZenonT(40), <1>1, <1>3
<1> HIDE DEF at2
<1>5. n - 1 \in 1..Len(gs) /\ \A i \in 1..Len(gs) : gs[i].live <=> i <= n - 1
  BY <1>1, <1>3
<1>6. at2[1] = 1 /\ at2[n - 1] = Len(tt)
  BY <1>1, <1>2, <1>4
<1>7. ASSUME NEW i \in 2..(n - 1)
      PROVE  /\ at2[i] = at2[i - 1] + ScopeQty(gs[i])
             /\ \A j \in at2[i - 1]..(at2[i] - 1) : tt[j] = gs[i].size
  <2>1. i \in 1..(n - 1) /\ i - 1 \in 1..(n - 1) /\ i \in 2..n /\ 1 \in 1..n /\ n - 1 \in 1..n
    OBVIOUS
  <2>2. at2[i] = at[i] /\ at2[i - 1] = at[i - 1] /\ gs[i] = fs[i]
    BY ZenonT(40), <1>4, <2>1
  <2>3. /\ at[i] \in Nat /\ at[i - 1] \in Nat
        /\ (1 < i - 1 => at[1] < at[i - 1]) /\ (i < n - 1 => at[i] < at[n - 1])
    BY ZenonT(40), <1>1, <1>3, <2>1
  <2>4. at[i - 1] >= 1 /\ at[i] <= Len(tt)
    <3>1. i - 1 = 1 \/ 1 < i - 1
      OBVIOUS
    <3>2. i = n - 1 \/ i < n - 1
      OBVIOUS
    <3>3. at[i - 1] >= 1
      BY SMTT(40), <1>1, <2>3, <3>1
    <3>4. at[i] <= at[n - 1] /\ at[n - 1] = Len(tt)
      BY <1>2, <2>3, <3>2
    <3> QED
      BY ZenonT(40), <3>3, <3>4
  <2>5. \A j \in at[i - 1]..(at[i] - 1) : j \in 1..(Len(tt) - 1)
    BY SMTT(40), <1>2, <2>3, <2>4
  <2>6. \A j \in at[i - 1]..(at[i] - 1) : tt[j] = ss[j]
    BY ZenonT(40), <2>5
  <2>7. at[i] = at[i - 1] + ScopeQty(fs[i])
    BY ZenonT(40), <1>1, <2>1
  <2>8. \A j \in at[i - 1]..(at[i] - 1) : ss[j] = fs[i].size
    BY ZenonT(40), <1>1, <2>1
  <2> QED
    BY ZenonT(40), <2>2, <2>6, <2>7, <2>8
<1>8. \A i, j \in 1..(n - 1) : i < j => at2[i] < at2[j]
  BY ZenonT(40), <1>1, <1>3, <1>4
<1>9. Scopes(n - 1, at2, gs, tt)
  BY ZenonT(40), <1>4, <1>5, <1>6, <1>7, <1>8 DEF Scopes
<1> QED
  BY ZenonT(40), <1>4, <1>9

-----------------------------------------------------------------------------
(* The steps.                                                              *)

\* Nothing but a return, break or continue ends the code of a loop.
ExitsOnly == EndInLoop \subseteq {"exit"}

LEMMA GoodIs ==
  ASSUME NEW sz \in Nat, NEW ss \in Seq(Nat), ss # <<>>, NEW lv \in BOOLEAN, NEW fs, Nested(fs),
         NEW m \in 1..Len(fs), NEW at \in [1..m -> Nat], Scopes(m, at, fs, ss),
         lv => m = Len(fs) /\ ss[Len(ss)] = sz, ~lv => Stopped(m, fs, ss)
  PROVE  Good(sz, ss, lv, fs)
<1>1. Matched(sz, ss, lv, fs, m, at)
  BY ZenonT(40) DEF Matched
<1> QED
  BY ZenonT(40), <1>1 DEF Good

LEMMA DeclarationStep ==
  ASSUME IInv, VariableDeclarationStatement
  PROVE  IInv'
<1>1. PICK m \in 1..Len(frames) : \E at \in [1..m -> Nat] : Matched(size, sizes, live, frames, m, at)
  BY ZenonT(40) DEF IInv, Good
<1>2. PICK at \in [1..m -> Nat] : Matched(size, sizes, live, frames, m, at)
  BY ZenonT(40), <1>1
<1>3. /\ size \in Nat /\ sizes \in Seq(Nat) /\ sizes # <<>> /\ live \in BOOLEAN /\ Nested(frames)
      /\ Len(frames) \in Nat /\ Len(sizes) \in Nat /\ failed = FALSE
  BY InnerIs DEF IInv, Good
<1>4. /\ size' = size + 1 /\ sizes' = (IF live THEN delta(sizes, 1) ELSE sizes)
      /\ live' = live /\ frames' = frames /\ failed' = failed
  BY ZenonT(40) DEF VariableDeclarationStatement, Visit
<1>5. CASE live
  <2>1. sizes[Len(sizes)] = size /\ m = Len(frames) /\ Scopes(m, at, frames, sizes)
    BY ZenonT(40), <1>2, <1>5 DEF Matched
  <2>2. /\ sizes' \in Seq(Nat) /\ sizes' # <<>> /\ Len(sizes') = Len(sizes)
        /\ sizes'[Len(sizes)] = size + 1
        /\ \A j \in 1..(Len(sizes) - 1) : sizes'[j] = sizes[j]
    <3>1. sizes' = delta(sizes, 1) /\ sizes[Len(sizes)] + 1 \in Nat /\ 1 \in Int
      BY <1>3, <1>4, <1>5, <2>1
    <3>2. /\ delta(sizes, 1) \in Seq(Nat) /\ delta(sizes, 1) # <<>>
          /\ Len(delta(sizes, 1)) = Len(sizes)
          /\ delta(sizes, 1)[Len(sizes)] = sizes[Len(sizes)] + 1
          /\ \A j \in 1..(Len(sizes) - 1) : delta(sizes, 1)[j] = sizes[j]
      BY ZenonT(40), <1>3, <3>1, DeltaIs
    <3> QED
      BY ZenonT(40), <2>1, <3>1, <3>2
  <2>3. Scopes(m, at, frames, sizes')
    BY ZenonT(40), <1>3, <2>1, <2>2, KeepScopes
  <2>4. Good(size', sizes', live', frames')
    <3>1. size' \in Nat /\ live' = TRUE /\ frames' = frames
      BY <1>3, <1>4, <1>5
    <3> QED
      BY ZenonT(40), <1>3, <1>4, <2>1, <2>2, <2>3, <3>1, GoodIs
  <2> QED
    BY ZenonT(40), <1>3, <1>4, <2>4 DEF IInv
<1>6. CASE ~live
  <2>1. Stopped(m, frames, sizes) /\ Scopes(m, at, frames, sizes)
    BY ZenonT(40), <1>2, <1>6 DEF Matched
  <2>2. Good(size', sizes', live', frames')
    BY SMTT(40), <1>3, <1>4, <1>6, <2>1, GoodIs
  <2> QED
    BY ZenonT(40), <1>3, <1>4, <2>2 DEF IInv
<1> QED
  BY ZenonT(40), <1>5, <1>6

LEMMA ThrowStep ==
  ASSUME ExitsOnly, IInv, Throw
  PROVE  IInv'
<1>1. PICK m \in 1..Len(frames) : \E at \in [1..m -> Nat] : Matched(size, sizes, live, frames, m, at)
  BY ZenonT(40) DEF IInv, Good
<1>2. PICK at \in [1..m -> Nat] : Matched(size, sizes, live, frames, m, at)
  BY ZenonT(40), <1>1
<1>3. /\ size \in Nat /\ sizes \in Seq(Nat) /\ sizes # <<>> /\ live \in BOOLEAN /\ Nested(frames)
      /\ Len(frames) \in Nat /\ Len(sizes) \in Nat /\ failed = FALSE
  BY InnerIs DEF IInv, Good
<1>4. ~hasLoop(frames)
  BY ZenonT(40) DEF ExitsOnly, Throw, EndsCode
<1>5. Scopes(m, at, frames, sizes) /\ Stopped(m, frames, sizes)
  <2>1. \A j \in 1..m : j \in 1..Len(frames)
    BY <1>3
  <2> QED
    BY ZenonT(40), <1>2, <1>4, <2>1 DEF Matched, Stopped, hasLoop
<1>6. Good(size', sizes', live', frames')
  BY ZenonT(40), <1>3, <1>5, GoodIs DEF Throw
<1> QED
  BY ZenonT(40), <1>3, <1>6 DEF IInv, Throw

LEMMA ExitStep ==
  ASSUME IInv, NEW exit \in Exit, ExitStatement(exit)
  PROVE  IInv'
<1> DEFINE n == Len(frames)
           k == Len(sizes)
           v == IF exit = "return" THEN RetQty ELSE 0
           gs == Touched(frames, {exit}, {exit})
<1>1. PICK m \in 1..Len(frames) : \E at \in [1..m -> Nat] : Matched(size, sizes, live, frames, m, at)
  BY ZenonT(40) DEF IInv, Good
<1>2. PICK at \in [1..m -> Nat] : Matched(size, sizes, live, frames, m, at)
  BY ZenonT(40), <1>1
<1>3. /\ size \in Nat /\ sizes \in Seq(Nat) /\ sizes # <<>> /\ live \in BOOLEAN /\ Nested(frames)
      /\ Inner = frames[n] /\ n \in Nat \ {0} /\ k \in Nat \ {0} /\ failed = FALSE
  BY SMTT(40), InnerIs DEF IInv, Good, Inner
<1>31. n \in Nat \ {0} /\ k \in Nat \ {0} /\ Len(frames) = n /\ Len(sizes) = k
  BY ZenonT(40), <1>3
<1>4. v \in Nat /\ exit \in frames[n].can
  BY ZenonT(40), <1>3, ScopeSizesAssumption DEF ExitStatement
<1>5. /\ size' = size + v /\ live' = FALSE /\ failed' = FALSE /\ frames' = gs
      /\ sizes' = IF live THEN visitRBC(delta(sizes, v)) ELSE sizes
  BY ZenonT(40), <1>3 DEF ExitStatement, Touched
<1>6. Nested(gs) /\ Alike(frames, gs)
  <2>1. {exit} \in SUBSET Exit
    BY ZenonT(40)
  <2> QED
    BY ZenonT(40), <1>3, <1>4, <2>1, TouchedIs
<1> HIDE DEF gs, v, n, k
<1>7. Len(gs) = n /\ Scopes(m, at, frames, sizes)
  BY ZenonT(40), <1>2, <1>31, <1>6 DEF Alike, Matched
<1>8. CASE live
  <2>1. sizes[k] = size /\ m = n
    BY ZenonT(40), <1>2, <1>31, <1>8 DEF Matched
  <2> DEFINE ss == delta(sizes, v)
             below == IF k = 1 THEN 0 ELSE sizes[k - 1]
  <2>2. /\ ss \in Seq(Nat) /\ ss # <<>> /\ Len(ss) = k /\ ss[k] = size + v
        /\ \A j \in 1..(k - 1) : ss[j] = sizes[j]
    <3>1. size + v \in Nat /\ v \in Int
      BY <1>3, <1>4
    <3> QED
      BY ZenonT(40), <1>3, <1>31, <2>1, <3>1, DeltaIs
  <2>3. below \in Nat
    <3>1. CASE k = 1
      BY ZenonT(40), <3>1
    <3>2. CASE k # 1
      <4>1. k - 1 \in 1..k
        BY <1>31, <3>2
      <4> QED
        BY <1>3, <1>31, <3>2, <4>1
    <3> QED
      BY ZenonT(40), <3>1, <3>2
  <2>4. scopeSize(ss) = size + v - below
    <3> HIDE DEF ss
    <3>1. CASE k = 1
      <4>1. Len(ss) = 1 /\ ss[Len(ss)] = size + v /\ below = 0
        BY ZenonT(40), <2>2, <3>1
      <4> QED
        BY SMTT(40), <1>3, <1>4, <4>1 DEF scopeSize, Last
    <3>2. CASE k # 1
      <4>1. k - 1 \in 1..(k - 1)
        BY <1>31, <3>2
      <4>2. ss[k - 1] = sizes[k - 1]
        BY ZenonT(40), <2>2, <4>1
      <4>3. Len(ss) # 1 /\ ss[Len(ss)] = size + v /\ ss[Len(ss) - 1] = below
        BY ZenonT(40), <2>2, <3>2, <4>2
      <4> HIDE DEF below
      <4> QED
        BY <1>3, <1>4, <2>3, <4>3 DEF scopeSize, Last
    <3> QED
      BY ZenonT(40), <3>1, <3>2
  <2> HIDE DEF ss, below
  <2>5. sizes' = delta(ss, -(size + v - below))
    BY ZenonT(40), <1>5, <1>8, <2>4 DEF visitRBC, ss
  <2>6. /\ sizes' \in Seq(Nat) /\ sizes' # <<>> /\ Len(sizes') = k /\ sizes'[k] = below
        /\ \A j \in 1..(k - 1) : sizes'[j] = sizes[j]
    <3>1. -(size + v - below) \in Int /\ (size + v) + (-(size + v - below)) = below
      BY <1>3, <1>4, <2>3
    <3> DEFINE e == -(size + v - below)
    <3>2. e \in Int /\ ss[Len(ss)] + e \in Nat /\ ss[Len(ss)] + e = below /\ sizes' = delta(ss, e)
      BY ZenonT(40), <2>2, <2>3, <2>5, <3>1
    <3> HIDE DEF e
    <3>3. /\ delta(ss, e) \in Seq(Nat) /\ delta(ss, e) # <<>>
          /\ Len(delta(ss, e)) = Len(ss)
          /\ delta(ss, e)[Len(ss)] = ss[Len(ss)] + e
          /\ \A j \in 1..(Len(ss) - 1) : delta(ss, e)[j] = ss[j]
      BY ZenonT(40), <2>2, <3>2, DeltaIs
    <3> QED
      BY ZenonT(40), <2>2, <3>2, <3>3
  <2>7. Scopes(m, at, frames, sizes')
    BY ZenonT(40), <1>31, <1>7, <2>6, KeepScopes
  <2>8. Stopped(m, frames, sizes')
    <3> SUFFICES ASSUME \E j \in 1..m : IsLoop(frames[j])
                 PROVE  frames[m].can # {} /\ sizes'[Len(sizes')] = frames[m].size
      BY ZenonT(40) DEF Stopped
    <3>1. n >= 2
      <4>1. PICK j \in 1..m : IsLoop(frames[j])
        BY ZenonT(40)
      <4>2. frames[1].kind = "function"
        BY ZenonT(40), <1>3 DEF Nested
      <4>3. j # 1
        BY ZenonT(40), <4>1, <4>2 DEF IsLoop, LoopKind
      <4> QED
        BY <1>31, <2>1, <4>3
    <3>2. /\ k - ScopeQty(frames[n]) \in Nat \ {0}
          /\ \A j \in (k - ScopeQty(frames[n]))..(k - 1) : sizes[j] = frames[n].size
      <4>1. Scopes(n, at, frames, sizes) /\ n \in Nat /\ Len(frames) = n /\ k \in Nat /\ Len(sizes) = k
        BY ZenonT(40), <1>31, <1>7, <2>1
      <4>2. TopIs(n, frames, at, sizes, k)
        BY ZenonT(40), <3>1, <4>1, TopScope
      <4> QED
        BY ZenonT(40), <4>2 DEF TopIs
    <3>3. ScopeQty(frames[n]) \in {1, 2}
      BY ZenonT(40) DEF ScopeQty
    <3>4. k # 1 /\ k - 1 \in (k - ScopeQty(frames[n]))..(k - 1)
      BY <1>31, <3>2, <3>3
    <3>5. below = frames[n].size
      BY ZenonT(40), <3>2, <3>4 DEF below
    <3> QED
      BY ZenonT(40), <1>4, <2>1, <2>6, <3>5
  <2>9. Scopes(m, at, gs, sizes') /\ Stopped(m, gs, sizes')
    BY ZenonT(40), <1>31, <1>6, <2>7, <2>8, AlikeScopes
  <2>10. size' \in Nat /\ m \in 1..Len(gs)
    BY <1>3, <1>31, <1>4, <1>5, <1>7
  <2>11. Good(size', sizes', live', frames')
    BY ZenonT(40), <1>5, <1>6, <2>6, <2>9, <2>10, GoodIs
  <2> QED
    BY ZenonT(40), <1>5, <2>11 DEF IInv
<1>9. CASE ~live
  <2>1. Stopped(m, frames, sizes)
    BY ZenonT(40), <1>2, <1>9 DEF Matched
  <2>2. Scopes(m, at, gs, sizes) /\ Stopped(m, gs, sizes)
    BY ZenonT(40), <1>31, <1>6, <1>7, <2>1, AlikeScopes
  <2>3. size' \in Nat /\ m \in 1..Len(gs)
    BY <1>3, <1>31, <1>4, <1>5, <1>7
  <2>4. Good(size', sizes', live', frames')
    BY ZenonT(40), <1>3, <1>5, <1>6, <1>9, <2>2, <2>3, GoodIs
  <2> QED
    BY ZenonT(40), <1>5, <2>4 DEF IInv
<1> QED
  BY ZenonT(40), <1>8, <1>9

\* A statement is opened: its scopes are opened with it if its code is kept.
LEMMA OpenGood ==
  ASSUME NEW sz, NEW ss, NEW lv, NEW fs, Good(sz, ss, lv, fs), NEW d \in Nat, NEW f \in FrameSet,
         f.size = sz + d, f.live = lv, Opened(Append(fs, f), Len(fs) + 1)
  PROVE  LET scope == startScope(delta(ss, d))
         IN  Good(sz + d, IF ~lv THEN ss ELSE IF Wrapped(f) THEN startScope(scope) ELSE scope,
                  lv, Append(fs, f))
<1> DEFINE gs == Append(fs, f)
           n == Len(fs)
           k == Len(ss)
           s1 == delta(ss, d)
           s2 == startScope(s1)
           s3 == startScope(s2)
<1>1. PICK m \in 1..Len(fs) : \E at \in [1..m -> Nat] : Matched(sz, ss, lv, fs, m, at)
  BY ZenonT(40) DEF Good
<1>2. PICK at \in [1..m -> Nat] : Matched(sz, ss, lv, fs, m, at)
  BY ZenonT(40), <1>1
<1>3. /\ sz \in Nat /\ ss \in Seq(Nat) /\ ss # <<>> /\ lv \in BOOLEAN /\ Nested(fs)
      /\ n \in Nat \ {0} /\ k \in Nat \ {0}
  BY InnerIs DEF Good
<1>4. Nested(gs) /\ Len(gs) = n + 1 /\ gs[n + 1] = f /\ \A i \in 1..n : gs[i] = fs[i]
  BY ZenonT(40), <1>3, AppendNested
<1>5. Scopes(m, at, fs, ss) /\ n = Len(fs) /\ k = Len(ss) /\ sz + d \in Nat
  BY <1>2, <1>3 DEF Matched
<1> HIDE DEF gs, n, k
<1>6. CASE lv
  <2>1. m = n /\ ss[k] = sz
    BY ZenonT(40), <1>2, <1>5, <1>6 DEF Matched
  <2>2. /\ s1 \in Seq(Nat) /\ s1 # <<>> /\ Len(s1) = k /\ s1[k] = sz + d
        /\ \A j \in 1..(k - 1) : s1[j] = ss[j]
    <3>1. d \in Int
      OBVIOUS
    <3> QED
      BY ZenonT(40), <1>3, <1>5, <2>1, <3>1, DeltaIs
  <2> HIDE DEF s1
  <2>3. /\ s2 \in Seq(Nat) /\ s2 # <<>> /\ Len(s2) = k + 1 /\ s2[k + 1] = sz + d
        /\ \A j \in 1..k : s2[j] = s1[j]
    BY ZenonT(40), <2>2, StartIs
  <2> HIDE DEF s2
  <2>4. /\ s3 \in Seq(Nat) /\ s3 # <<>> /\ Len(s3) = k + 1 + 1 /\ s3[k + 1 + 1] = sz + d
        /\ \A j \in 1..(k + 1) : s3[j] = s2[j]
    BY ZenonT(40), <2>3, StartIs
  <2> HIDE DEF s3
  <2>5. /\ s2[k] = sz + d /\ s3[k] = sz + d /\ s3[k + 1] = sz + d
        /\ \A j \in 1..(k - 1) : s2[j] = ss[j] /\ s3[j] = ss[j]
    <3>1. /\ k \in 1..k /\ k \in 1..(k + 1) /\ k + 1 \in 1..(k + 1)
          /\ \A j \in 1..(k - 1) : j \in 1..k /\ j \in 1..(k + 1)
      BY <1>3
    <3>2. s2[k] = sz + d /\ s3[k] = sz + d /\ s3[k + 1] = sz + d
      BY ZenonT(40), <2>2, <2>3, <2>4, <3>1
    <3>3. \A j \in 1..(k - 1) : s2[j] = ss[j] /\ s3[j] = ss[j]
      BY ZenonT(40), <2>2, <2>3, <2>4, <3>1
    <3> QED
      BY ZenonT(40), <3>2, <3>3
  <2>6. gs[n + 1].live /\ gs[n + 1].size = sz + d
    BY ZenonT(40), <1>4, <1>6
  <2>7. CASE Wrapped(f)
    <3>1. ScopeQty(gs[n + 1]) = 2
      BY ZenonT(40), <1>4, <2>7 DEF ScopeQty
    <3>2. Len(s3) = k + 2 /\ \A j \in k..(k + 2 - 1) : s3[j] = gs[n + 1].size
      <4>1. \A j \in k..(k + 2 - 1) : j = k \/ j = k + 1
        BY <1>3
      <4>2. Len(s3) = k + 2
        BY <1>3, <2>4
      <4> QED
        BY ZenonT(40), <2>5, <2>6, <4>1, <4>2
    <3>3. \E at2 \in [1..(n + 1) -> Nat] : Scopes(n + 1, at2, gs, s3)
      <4>1. Opens(ss, fs, n, k, gs, s3)
        BY ZenonT(40), <1>3, <1>4, <1>5, <2>5, <2>6, <3>1, <3>2 DEF Opens
      <4>2. Scopes(n, at, fs, ss)
        BY ZenonT(40), <1>5, <2>1
      <4> QED
        BY ZenonT(40), <4>1, <4>2, OpenScopes
    <3>4. PICK at2 \in [1..(n + 1) -> Nat] : Scopes(n + 1, at2, gs, s3)
      BY ZenonT(40), <3>3
    <3>5. n + 1 \in 1..Len(gs) /\ n + 1 = Len(gs) /\ s3[Len(s3)] = sz + d
      BY <1>3, <1>4, <2>4
    <3>6. Good(sz + d, s3, lv, gs)
      BY ZenonT(40), <1>3, <1>4, <1>5, <1>6, <2>4, <3>4, <3>5, GoodIs
    <3> QED
      BY ZenonT(40), <1>6, <2>7, <3>6 DEF gs, s1, s2, s3
  <2>8. CASE ~Wrapped(f)
    <3>1. ScopeQty(gs[n + 1]) = 1
      BY ZenonT(40), <1>4, <2>8 DEF ScopeQty
    <3>2. Len(s2) = k + 1 /\ \A j \in k..(k + 1 - 1) : s2[j] = gs[n + 1].size
      <4>1. \A j \in k..(k + 1 - 1) : j = k
        BY <1>3
      <4> QED
        BY ZenonT(40), <1>3, <2>3, <2>5, <2>6, <4>1
    <3>3. \E at2 \in [1..(n + 1) -> Nat] : Scopes(n + 1, at2, gs, s2)
      <4>1. Opens(ss, fs, n, k, gs, s2)
        BY ZenonT(40), <1>3, <1>4, <1>5, <2>5, <2>6, <3>1, <3>2 DEF Opens
      <4>2. Scopes(n, at, fs, ss)
        BY ZenonT(40), <1>5, <2>1
      <4> QED
        BY ZenonT(40), <4>1, <4>2, OpenScopes
    <3>4. PICK at2 \in [1..(n + 1) -> Nat] : Scopes(n + 1, at2, gs, s2)
      BY ZenonT(40), <3>3
    <3>5. n + 1 \in 1..Len(gs) /\ n + 1 = Len(gs) /\ s2[Len(s2)] = sz + d
      BY SMTT(40), <1>3, <1>4, <2>3
    <3>6. Good(sz + d, s2, lv, gs)
      BY ZenonT(40), <1>3, <1>4, <1>5, <1>6, <2>3, <3>4, <3>5, GoodIs
    <3> QED
      BY ZenonT(40), <1>6, <2>8, <3>6 DEF gs, s1, s2
  <2> QED
    BY ZenonT(40), <2>7, <2>8
<1>7. CASE ~lv
  <2>1. Stopped(m, fs, ss)
    BY ZenonT(40), <1>2, <1>7 DEF Matched
  <2>2. ~gs[n + 1].live
    BY ZenonT(40), <1>4, <1>7
  <2>3. Scopes(m, at, gs, ss) /\ Stopped(m, gs, ss)
    BY ZenonT(40), <1>3, <1>4, <1>5, <2>1, <2>2, OpenDead
  <2>4. m \in 1..Len(gs)
    BY <1>3, <1>4, <1>5
  <2>5. Good(sz + d, ss, lv, gs)
    BY ZenonT(40), <1>3, <1>4, <1>5, <1>7, <2>3, <2>4, GoodIs
  <2> QED
    BY ZenonT(40), <1>7, <2>5 DEF gs
<1> QED
  BY ZenonT(40), <1>3, <1>6, <1>7

LEMMA IfStep ==
  ASSUME ExitsOnly, IInv, NEW can \in SUBSET Exit, NEW jmp \in BOOLEAN, NEW else \in BOOLEAN,
         IfStatement(can, jmp, else)
  PROVE  IInv'
<1> DEFINE flag == IfNeedsFlag(can, jmp, hasLoop(frames))
           f == Frame("if", can, flag, jmp, else, size + OneIf(flag), 0)
           gs == Append(frames, f)
           n == Len(frames)
<1>1. /\ Good(size, sizes, live, frames) /\ size \in Nat /\ live \in BOOLEAN /\ Nested(frames)
      /\ Inner = frames[n] /\ n \in Nat \ {0} /\ failed = FALSE /\ frames \in Seq(FrameSet)
  BY ZenonT(40), InnerIs DEF IInv, Good, Inner
<1>2. /\ can \subseteq frames[n].can /\ (jmp /\ else => ~hasLoop(frames))
      /\ size' = size + OneIf(flag) /\ live' = live /\ failed' = FALSE
      /\ frames' = gs
      /\ sizes' = IF live THEN startScope(delta(sizes, OneIf(flag))) ELSE sizes
  BY ZenonT(40), <1>1 DEF IfStatement, EndsCode, ExitsOnly
<1>3. OneIf(flag) \in Nat /\ flag \in BOOLEAN
  BY ZenonT(40) DEF OneIf, IfNeedsFlag
<1> HIDE DEF flag
<1>4. /\ f \in FrameSet /\ f.kind = "if" /\ f.exits = {} /\ f.can = can /\ f.vars = 0
      /\ f.size = size + OneIf(flag) /\ f.flag = flag /\ f.jmp = jmp /\ f.else = else /\ f.live = live
  BY SMTT(40), <1>1, <1>3 DEF Frame, FrameSet, Kind
<1> HIDE DEF f
<1>5. Len(gs) = n + 1 /\ gs[n + 1] = f /\ \A i \in 1..n : gs[i] = frames[i]
  BY <1>1, <1>4
<1> HIDE DEF gs, n
<1>6. Opened(gs, n + 1)
  <2>1. (n + 1) - 1 = n /\ n \in 1..n
    BY <1>1
  <2>2. ~IsLoop(f)
    BY ZenonT(40), <1>4 DEF IsLoop, LoopKind
  <2>3. f.size >= f.vars + OneIf(f.flag)
    BY <1>1, <1>3, <1>4
  <2>4. jmp /\ else => \A j \in 1..n : ~IsLoop(gs[j])
    BY ZenonT(40), <1>2, <1>5 DEF hasLoop, n
  <2> QED
    BY ZenonT(40), <1>2, <1>4, <1>5, <2>1, <2>2, <2>3, <2>4 DEF Opened
<1>7. ~Wrapped(f)
  BY ZenonT(40), <1>4 DEF Wrapped
<1>8. Good(size + OneIf(flag), IF ~live THEN sizes ELSE startScope(delta(sizes, OneIf(flag))),
           live, gs)
  BY SMTT(40), <1>1, <1>3, <1>4, <1>6, <1>7, OpenGood DEF gs, n
<1>9. Good(size', sizes', live', frames')
  BY ZenonT(40), <1>1, <1>2, <1>8
<1> QED
  BY ZenonT(40), <1>2, <1>9 DEF IInv

LEMMA LoopStep ==
  ASSUME IInv, NEW kind \in Loops, NEW can \in SUBSET Exit, NEW v \in VarQtys(kind, {0, 1}),
         LoopStatement(kind, can, v)
  PROVE  IInv'
<1> DEFINE flag == LoopNeedsFlag(can)
           d == v + OneIf(flag)
           f == Frame(kind, can, flag, FALSE, FALSE, size + d, v)
           gs == Append(frames, f)
           n == Len(frames)
<1>1. /\ Good(size, sizes, live, frames) /\ size \in Nat /\ live \in BOOLEAN /\ Nested(frames)
      /\ Inner = frames[n] /\ n \in Nat \ {0} /\ failed = FALSE /\ frames \in Seq(FrameSet)
  BY ZenonT(40), InnerIs DEF IInv, Good, Inner
<1>2. /\ "return" \in can => "return" \in frames[n].can
      /\ size' = size + d /\ live' = live /\ failed' = FALSE
      /\ frames' = gs
      /\ sizes' = IF ~live THEN sizes
                  ELSE IF Wrapped(f) THEN startScope(startScope(delta(sizes, d)))
                  ELSE startScope(delta(sizes, d))
  BY ZenonT(40), <1>1 DEF LoopStatement
<1>3. OneIf(flag) \in Nat /\ flag \in BOOLEAN /\ v \in Nat /\ d \in Nat
  <2>1. v \in Nat
    BY DEF VarQtys
  <2> QED
    BY <2>1 DEF OneIf, LoopNeedsFlag
<1>30. kind \in LoopKind
  BY ZenonT(40), ScopeSizesAssumption
<1>31. size + d \in Nat /\ size + d >= d /\ d = v + OneIf(flag)
  BY SMTT(40), <1>1, <1>3
<1> HIDE DEF flag, d
<1>4. /\ f \in FrameSet /\ f.kind = kind /\ f.exits = {} /\ f.can = can /\ f.vars = v
      /\ f.size = size + d /\ f.flag = flag /\ f.jmp = FALSE /\ f.live = live
  BY ZenonT(40), <1>1, <1>3, <1>30, <1>31 DEF Frame, FrameSet, Kind
<1> HIDE DEF f
<1>5. Len(gs) = n + 1 /\ gs[n + 1] = f /\ \A i \in 1..n : gs[i] = frames[i]
  BY SMTT(40), <1>1, <1>4
<1> HIDE DEF gs, n
<1>6. Opened(gs, n + 1)
  <2>1. (n + 1) - 1 = n /\ n \in 1..n
    BY <1>1
  <2>2. f.kind \notin {"if", "else", "function"}
    BY ZenonT(40), <1>4, <1>30 DEF LoopKind
  <2>3. f.size >= f.vars + OneIf(f.flag)
    BY ZenonT(40), <1>31, <1>4
  <2> QED
    BY ZenonT(40), <1>2, <1>4, <1>5, <2>1, <2>2, <2>3 DEF Opened
<1>7. Good(size + d, IF ~live THEN sizes
                     ELSE IF Wrapped(f) THEN startScope(startScope(delta(sizes, d)))
                     ELSE startScope(delta(sizes, d)), live, gs)
  BY SMTT(40), <1>1, <1>3, <1>4, <1>6, OpenGood DEF gs, n
<1>8. Good(size', sizes', live', frames')
  BY ZenonT(40), <1>2, <1>7
<1> QED
  BY ZenonT(40), <1>2, <1>8 DEF IInv

\* The scopes of the innermost statement, when its code is kept
LEMMA KeptTop ==
  ASSUME NEW sz, NEW ss, NEW lv, NEW fs, Good(sz, ss, lv, fs), NEW n \in Nat, Len(fs) = n, n >= 2, fs[n].live,
         NEW k \in Nat, Len(ss) = k
  PROVE  /\ k - ScopeQty(fs[n]) \in Nat \ {0}
         /\ \A j \in (k - ScopeQty(fs[n]))..(k - 1) : ss[j] = fs[n].size
         /\ \E at \in [1..n -> Nat] : Scopes(n, at, fs, ss)
         /\ ~lv => Stopped(n, fs, ss)
<1>1. PICK m \in 1..Len(fs) : \E at \in [1..m -> Nat] : Matched(sz, ss, lv, fs, m, at)
  BY ZenonT(40) DEF Good
<1>2. PICK at \in [1..m -> Nat] : Matched(sz, ss, lv, fs, m, at)
  BY ZenonT(40), <1>1
<1>3. ss \in Seq(Nat) /\ Nested(fs) /\ n \in Nat /\ Len(ss) = k
  BY ZenonT(40), InnerIs DEF Good
<1>4. Scopes(m, at, fs, ss) /\ (~lv => Stopped(m, fs, ss))
  BY ZenonT(40), <1>2 DEF Matched
<1>5. m = n
  <2>1. n \in 1..Len(fs) /\ m \in 1..n
    BY <1>3
  <2>2. n <= m
    BY ZenonT(40), <1>4, <2>1 DEF Scopes
  <2> QED
    BY <1>3, <2>1, <2>2
<1>6. Scopes(n, at, fs, ss) /\ at \in [1..n -> Nat]
  BY ZenonT(40), <1>4, <1>5
<1>7. /\ k - ScopeQty(fs[n]) \in Nat \ {0}
      /\ \A j \in (k - ScopeQty(fs[n]))..(k - 1) : ss[j] = fs[n].size
  <2>1. n \in Nat /\ n >= 2 /\ Len(fs) = n /\ Len(ss) = k
    BY ZenonT(40), <1>3
  <2>2. Scopes(n, at, fs, ss)
    BY ZenonT(40), <1>6
  <2>3. TopIs(n, fs, at, ss, k)
    BY ZenonT(40), <2>1, <2>2, TopScope
  <2> QED
    BY ZenonT(40), <2>3 DEF TopIs
<1> QED
  BY ZenonT(40), <1>4, <1>5, <1>6, <1>7

\* The innermost of the statements fs, whose code is kept, is closed: gs is left of the statements,
\* and tt of the sizes, where the innermost one may have changed.
Closes(ss, fs, n, k, gs, tt) ==
    /\ n \in Nat /\ Len(fs) = n /\ n >= 2 /\ fs[n].live
    /\ k \in Nat /\ Len(ss) = k
    /\ Nested(gs) /\ Alike(Front(fs), gs)
    /\ tt \in Seq(Nat) /\ tt # <<>> /\ Len(tt) = k - ScopeQty(fs[n])
    /\ \A j \in 1..(Len(tt) - 1) : tt[j] = ss[j]

NoLoopAround(fs, n) == \A j \in 1..(n - 1) : ~IsLoop(fs[j])

LEMMA CloseGood ==
  ASSUME NEW sz, NEW ss, NEW lv, NEW fs, Good(sz, ss, lv, fs), NEW n, NEW k, NEW gs, NEW tt,
         Closes(ss, fs, n, k, gs, tt), NEW sz2 \in Nat
  PROVE  /\ tt[Len(tt)] = sz2 => Good(sz2, tt, TRUE, gs)
         /\ NoLoopAround(fs, n) => Good(sz2, tt, FALSE, gs)
<1> USE DEF Closes
<1>1. PICK at \in [1..n -> Nat] : Scopes(n, at, fs, ss)
  BY ZenonT(40), KeptTop
<1>2. ss \in Seq(Nat) /\ Nested(fs) /\ n \in Nat /\ Len(ss) \in Nat
  BY ZenonT(40), InnerIs DEF Good
<1> DEFINE hs == Front(fs)
<1>3. Len(hs) = n - 1 /\ \A i \in 1..(n - 1) : hs[i] = fs[i]
  BY ZenonT(40), <1>2, FrontNested
<1> HIDE DEF hs
<1>4. \E at2 \in [1..(n - 1) -> Nat] : Scopes(n - 1, at2, hs, tt)
  BY ZenonT(40), <1>1, <1>2, <1>3, CloseScopes
<1>5. PICK at2 \in [1..(n - 1) -> Nat] : Scopes(n - 1, at2, hs, tt)
  BY ZenonT(40), <1>4
<1>6. Alike(hs, gs) /\ n - 1 \in Nat /\ n - 1 \in 1..(n - 1)
  BY <1>2 DEF hs
<1>7. Scopes(n - 1, at2, gs, tt) /\ Len(gs) = n - 1
  BY ZenonT(40), <1>3, <1>5, <1>6, AlikeScopes DEF Alike
<1>8. NoLoopAround(fs, n) => Stopped(n - 1, gs, tt)
  <2>1. NoLoopAround(fs, n) => Stopped(n - 1, hs, tt)
    BY ZenonT(40), <1>3 DEF Stopped, NoLoopAround
  <2> QED
    BY ZenonT(40), <1>3, <1>6, <2>1, AlikeScopes
<1>9. tt[Len(tt)] = sz2 => Good(sz2, tt, TRUE, gs)
  BY ZenonT(40), <1>6, <1>7, GoodIs
<1>10. NoLoopAround(fs, n) => Good(sz2, tt, FALSE, gs)
  BY ZenonT(40), <1>6, <1>7, <1>8, GoodIs
<1> QED
  BY ZenonT(40), <1>9, <1>10

LEMMA CloseDeadGood ==
  ASSUME NEW sz, NEW ss, NEW lv, NEW fs, Good(sz, ss, lv, fs), NEW n \in Nat, Len(fs) = n, n >= 2, ~fs[n].live,
         NEW gs, Nested(gs), Alike(Front(fs), gs), NEW sz2 \in Nat
  PROVE  Good(sz2, ss, FALSE, gs)
<1>1. PICK m \in 1..Len(fs) : \E at \in [1..m -> Nat] : Matched(sz, ss, lv, fs, m, at)
  BY ZenonT(40) DEF Good
<1>2. PICK at \in [1..m -> Nat] : Matched(sz, ss, lv, fs, m, at)
  BY ZenonT(40), <1>1
<1>3. ss \in Seq(Nat) /\ ss # <<>> /\ Nested(fs) /\ n \in Nat /\ lv \in BOOLEAN
  BY ZenonT(40), InnerIs DEF Good
<1>4. Scopes(m, at, fs, ss) /\ (~lv => Stopped(m, fs, ss)) /\ (lv => m = n)
  BY ZenonT(40), <1>2 DEF Matched
<1> DEFINE hs == Front(fs)
<1>5. Len(hs) = n - 1 /\ \A i \in 1..(n - 1) : hs[i] = fs[i]
  BY ZenonT(40), <1>3, FrontNested
<1> HIDE DEF hs
<1>6. /\ m \in 1..Len(hs) /\ Scopes(m, at, hs, ss)
      /\ Stopped(m, fs, ss) => Stopped(m, hs, ss)
  BY ZenonT(40), <1>3, <1>4, <1>5, CloseDead
<1>7. ~lv
  BY <1>3, <1>4, <1>5, <1>6
<1>8. Alike(hs, gs) /\ Len(hs) \in Nat
  BY <1>3, <1>5 DEF hs
<1>9. Scopes(m, at, gs, ss) /\ Stopped(m, gs, ss) /\ m \in 1..Len(gs)
  BY ZenonT(40), <1>4, <1>6, <1>7, <1>8, AlikeScopes DEF Alike
<1> QED
  BY ZenonT(40), <1>3, <1>9, GoodIs

\* What the drop at the end of a body does to the size
LEMMA DropIs ==
  ASSUME IInv
  PROVE  /\ DropScope \in Seq(Nat) /\ DropScope # <<>>
         /\ Len(DropScope) = Len(sizes)
         /\ live => DropScope[Len(sizes)] = Inner.size
         /\ ~live => DropScope = sizes
         /\ \A j \in 1..(Len(sizes) - 1) : DropScope[j] = sizes[j]
<1>1. /\ Good(size, sizes, live, frames) /\ size \in Nat /\ sizes \in Seq(Nat) /\ sizes # <<>>
      /\ live \in BOOLEAN /\ Inner \in FrameSet
  BY ZenonT(40), InnerIs DEF IInv, Good, Inner
<1>2. Inner.size \in Nat
  BY ZenonT(40), <1>1 DEF FrameSet
<1>3. CASE live
  <2>1. sizes[Len(sizes)] = size
    BY ZenonT(40), <1>1, <1>3 DEF Good, Matched
  <2>2. DropScope = delta(sizes, Inner.size - size)
    BY ZenonT(40), <1>3 DEF DropScope, Visit
  <2> DEFINE d == Inner.size - size
  <2>3. d \in Int /\ sizes[Len(sizes)] + d = Inner.size
    BY <1>1, <1>2, <2>1
  <2> HIDE DEF d
  <2>4. /\ delta(sizes, d) \in Seq(Nat) /\ delta(sizes, d) # <<>>
        /\ Len(delta(sizes, d)) = Len(sizes)
        /\ delta(sizes, d)[Len(sizes)] = sizes[Len(sizes)] + d
        /\ \A j \in 1..(Len(sizes) - 1) : delta(sizes, d)[j] = sizes[j]
    BY ZenonT(40), <1>1, <1>2, <2>3, DeltaIs
  <2> QED
    BY ZenonT(40), <1>3, <2>2, <2>3, <2>4 DEF d
<1>4. CASE ~live
  BY ZenonT(40), <1>1, <1>4 DEF DropScope, Visit
<1> QED
  BY ZenonT(40), <1>1, <1>3, <1>4

\* The statements that are left
LEMMA PoppedIs ==
  ASSUME Nested(frames), NEW n \in Nat, Len(frames) = n, n >= 2,
         NEW exits, exits \subseteq frames[n - 1].can, NEW always \in SUBSET Exit
  PROVE  Nested(Popped(exits, always)) /\ Alike(Front(frames), Popped(exits, always))
<1> DEFINE hs == Front(frames)
<1>1. n \in Nat
  BY ZenonT(40), InnerIs
<1>2. Nested(hs) /\ Len(hs) = n - 1 /\ \A i \in 1..(n - 1) : hs[i] = frames[i]
  BY ZenonT(40), FrontNested
<1>3. Popped(exits, always) = Touched(hs, exits, always)
  BY ZenonT(40) DEF Popped, Touched
<1> HIDE DEF hs
<1>4. n - 1 \in 1..(n - 1)
  BY <1>1
<1>5. exits \subseteq hs[Len(hs)].can
  BY ZenonT(40), <1>2, <1>4
<1>6. Nested(Touched(hs, exits, always)) /\ Alike(hs, Touched(hs, exits, always))
  BY ZenonT(40), <1>2, <1>5, TouchedIs
<1> QED
  BY ZenonT(40), <1>3, <1>6 DEF hs

LEMMA EndThenStep ==
  ASSUME IInv, EndThen
  PROVE  IInv'
<1> DEFINE n == Len(frames)
           k == Len(sizes)
           f == frames[n]
           g == [f EXCEPT !.else = FALSE, !.then = f.always, !.always = {}, !.kind = "else"]
           gs == [frames EXCEPT ![n] = g]
<1>1. /\ Good(size, sizes, live, frames) /\ size \in Nat /\ sizes \in Seq(Nat) /\ sizes # <<>>
      /\ live \in BOOLEAN /\ Nested(frames) /\ failed = FALSE
      /\ Inner = f /\ f \in FrameSet /\ n \in Nat \ {0} /\ frames \in Seq(FrameSet)
  BY ZenonT(40), InnerIs DEF IInv, Good, Inner
<1>2. /\ f.kind = "if" /\ f.else /\ size' = f.size /\ live' = f.live /\ failed' = FALSE
      /\ frames' = gs
      /\ sizes' = IF f.live THEN startScope(endScope(DropScope)) ELSE sizes
  <2>1. /\ f.kind = "if" /\ f.else /\ size' = f.size /\ live' = f.live /\ failed' = FALSE
        /\ sizes' = IF f.live THEN startScope(endScope(DropScope)) ELSE sizes
        /\ frames' = [frames EXCEPT ![n].else = FALSE, ![n].then = f.always,
                                    ![n].always = {}, ![n].kind = "else"]
    BY ZenonT(40), <1>1 DEF EndThen
  <2>2. [frames EXCEPT ![n].else = FALSE, ![n].then = f.always,
                       ![n].always = {}, ![n].kind = "else"] = gs
    BY ZenonT(40), <1>1 DEF FrameSet
  <2> QED
    BY ZenonT(40), <2>1, <2>2
<1>3. n >= 2 /\ Opened(frames, n)
  BY ZenonT(40), <1>1, <1>2, InnerIs
<1>4. /\ g \in FrameSet /\ g.kind = "else" /\ g.can = f.can /\ g.exits = f.exits /\ g.size = f.size
      /\ g.vars = f.vars /\ g.flag = f.flag /\ g.jmp = f.jmp /\ g.live = f.live
  <2>1. f.always \in SUBSET Exit
    BY ZenonT(40), <1>1 DEF FrameSet
  <2> QED
    BY ZenonT(40), <1>1, <2>1 DEF FrameSet, Kind
<1> HIDE DEF g
<1>5. /\ gs \in Seq(FrameSet) /\ Len(gs) = n /\ gs[n] = g
      /\ \A i \in 1..n : i # n => gs[i] = frames[i]
  BY <1>1, <1>4
<1>6. ~IsLoop(f) /\ ~IsLoop(g) /\ ~Wrapped(f) /\ ~Wrapped(g)
  BY ZenonT(40), <1>2, <1>4 DEF IsLoop, LoopKind, Wrapped
<1>7. f.size \in Nat /\ f.live \in BOOLEAN
  BY ZenonT(40), <1>1 DEF FrameSet
<1>8. n = Len(frames) /\ k = Len(sizes) /\ f = frames[n] /\ k \in Nat \ {0}
  BY <1>1
<1>81. Len(frames) = n /\ Len(sizes) = k /\ n \in Nat /\ n >= 2 /\ k \in Nat
  BY <1>1, <1>3
<1> HIDE DEF gs, n, k, f
<1>9. Alike(frames, gs)
  BY ZenonT(40), <1>4, <1>5, <1>6, <1>8 DEF Alike, ScopeQty
<1>10. Nested(gs)
  <2>1. ASSUME NEW i \in 2..n PROVE Opened(gs, i)
    <3>0. i \in 2..Len(frames) /\ i \in 1..n /\ i - 1 \in 1..n /\ i - 1 # n
      BY <1>81
    <3>1. Opened(frames, i) /\ i \in 1..n /\ i - 1 \in 1..n /\ i - 1 # n /\ gs[i - 1] = frames[i - 1]
      BY ZenonT(40), <1>1, <1>5, <3>0 DEF Nested
    <3>2. \A j \in 1..(i - 1) : j \in 1..n /\ j # n /\ gs[j] = frames[j]
      BY <1>1, <1>5
    <3>3. CASE i # n
      <4>1. gs[i] = frames[i]
        BY ZenonT(40), <1>5, <3>1, <3>3
      <4> QED
        BY ZenonT(40), <3>1, <3>2, <4>1 DEF Opened
    <3>4. CASE i = n
      BY ZenonT(40), <1>2, <1>4, <1>5, <1>6, <1>8, <3>1, <3>2, <3>4 DEF Opened
    <3> QED
      BY ZenonT(40), <3>3, <3>4
  <2>2. 1 \in 1..n /\ 1 # n
    BY <1>1, <1>3
  <2>3. gs[1] = frames[1]
    BY ZenonT(40), <1>5, <2>2
  <2> QED
    BY <1>1, <1>5, <2>1, <2>3 DEF Nested
<1>11. CASE f.live
  <2>1. /\ k - 1 \in Nat \ {0} /\ sizes[k - 1] = f.size
        /\ \E at \in [1..n -> Nat] : Scopes(n, at, frames, sizes)
    <3>1. ScopeQty(f) = 1
      BY ZenonT(40), <1>6 DEF ScopeQty
    <3>0. /\ k - ScopeQty(frames[n]) \in Nat \ {0}
          /\ \A j \in (k - ScopeQty(frames[n]))..(k - 1) : sizes[j] = frames[n].size
          /\ \E at \in [1..n -> Nat] : Scopes(n, at, frames, sizes)
      <4>1. Good(size, sizes, live, frames) /\ frames[n].live
        BY ZenonT(40), <1>1, <1>8, <1>11
      <4> QED
        BY <1>81, <4>1, KeptTop
    <3>2. /\ k - 1 \in Nat \ {0}
          /\ \A j \in (k - 1)..(k - 1) : sizes[j] = f.size
          /\ \E at \in [1..n -> Nat] : Scopes(n, at, frames, sizes)
      BY ZenonT(40), <1>8, <1>81, <3>0, <3>1
    <3>3. k - 1 \in (k - 1)..(k - 1)
      BY <1>8
    <3> QED
      BY ZenonT(40), <3>2, <3>3
  <2>2. PICK at \in [1..n -> Nat] : Scopes(n, at, frames, sizes)
    BY ZenonT(40), <2>1
  <2> DEFINE b == DropScope
             e == endScope(b)
  <2>3. b \in Seq(Nat) /\ Len(b) = k /\ k >= 2 /\ \A j \in 1..(k - 1) : b[j] = sizes[j]
    BY <1>8, <2>1, DropIs
  <2> HIDE DEF b
  <2>4. e \in Seq(Nat) /\ e # <<>> /\ Len(e) = k - 1 /\ \A j \in 1..(k - 1) : e[j] = b[j]
    BY ZenonT(40), <2>3, EndIs
  <2>5. sizes' = startScope(e)
    BY ZenonT(40), <1>2, <1>11 DEF b
  <2> HIDE DEF e
  <2>6. /\ sizes' \in Seq(Nat) /\ sizes' # <<>> /\ Len(sizes') = (k - 1) + 1
        /\ sizes'[(k - 1) + 1] = e[k - 1] /\ \A j \in 1..(k - 1) : sizes'[j] = e[j]
    BY ZenonT(40), <2>4, <2>5, StartIs
  <2>7. k - 1 \in 1..(k - 1) /\ (k - 1) + 1 = k
    BY <1>8, <2>1
  <2>8. /\ Len(sizes') = k /\ sizes'[k] = f.size /\ \A j \in 1..(k - 1) : sizes'[j] = sizes[j]
    BY ZenonT(40), <2>1, <2>3, <2>4, <2>6, <2>7
  <2>9. Scopes(n, at, frames, sizes')
    BY ZenonT(40), <1>1, <1>8, <2>2, <2>8, KeepScopes
  <2>10. Scopes(n, at, gs, sizes')
    BY ZenonT(40), <1>1, <1>8, <1>9, <2>9, AlikeScopes
  <2>11. n \in 1..Len(gs) /\ n = Len(gs)
    BY <1>1, <1>5
  <2>12. Good(size', sizes', TRUE, gs)
    BY ZenonT(40), <1>2, <1>7, <1>10, <2>6, <2>8, <2>10, <2>11, GoodIs
  <2>13. live' = TRUE
    BY ZenonT(40), <1>2, <1>7, <1>11
  <2> QED
    BY ZenonT(40), <1>2, <2>12, <2>13 DEF IInv
<1>12. CASE ~f.live
  <2>1. PICK m \in 1..Len(frames) : \E at \in [1..m -> Nat] : Matched(size, sizes, live, frames, m, at)
    BY ZenonT(40), <1>1 DEF Good
  <2>2. PICK at \in [1..m -> Nat] : Matched(size, sizes, live, frames, m, at)
    BY ZenonT(40), <2>1
  <2>3. Scopes(m, at, frames, sizes) /\ (live => m = n) /\ (~live => Stopped(m, frames, sizes))
    BY ZenonT(40), <1>8, <2>2 DEF Matched
  <2>4. ~live
    <3>1. m # n
      BY <1>1, <1>8, <1>12, <2>3 DEF Scopes
    <3> QED
      BY ZenonT(40), <2>3, <3>1
  <2>5. Scopes(m, at, gs, sizes) /\ Stopped(m, gs, sizes)
    BY ZenonT(40), <1>1, <1>8, <1>9, <2>3, <2>4, AlikeScopes
  <2>6. m \in 1..Len(gs)
    BY ZenonT(40), <1>5, <1>8
  <2>7. Good(size', sizes, FALSE, gs)
    BY ZenonT(40), <1>1, <1>2, <1>7, <1>10, <2>5, <2>6, GoodIs
  <2>8. live' = FALSE /\ sizes' = sizes
    BY ZenonT(40), <1>2, <1>7, <1>12
  <2> QED
    BY ZenonT(40), <1>2, <2>7, <2>8 DEF IInv
<1> QED
  BY ZenonT(40), <1>7, <1>11, <1>12

LEMMA EndIfStep ==
  ASSUME IInv, EndIf
  PROVE  IInv'
<1> DEFINE n == Len(frames)
           k == Len(sizes)
           f == frames[n]
           dead == f.jmp /\ f.kind = "else"
           o == OneIf(f.flag)
           b == DropScope
           after == endScope(b)
           always == IF f.kind = "else" THEN f.then \cap f.always ELSE {}
           gs == Popped(f.exits, always)
<1>1. /\ Good(size, sizes, live, frames) /\ sizes \in Seq(Nat) /\ sizes # <<>>
      /\ Nested(frames) /\ failed = FALSE
      /\ Inner = f /\ f \in FrameSet /\ n \in Nat \ {0}
  BY ZenonT(40), InnerIs DEF IInv, Good, Inner
<1>2. /\ f.kind \in {"if", "else"} /\ failed' = FALSE
      /\ size' = f.size - o /\ frames' = gs
      /\ live' = (f.live /\ ~dead)
      /\ sizes' = IF ~f.live THEN sizes ELSE IF dead THEN after ELSE delta(after, -o)
  BY ZenonT(40), <1>1 DEF EndIf
<1>3. n >= 2 /\ Opened(frames, n)
  BY ZenonT(40), <1>1, <1>2, InnerIs
<1>4. /\ f.size \in Nat /\ f.live \in BOOLEAN /\ f.jmp \in BOOLEAN /\ f.vars \in Nat /\ o \in {0, 1}
      /\ f.then \in SUBSET Exit /\ f.always \in SUBSET Exit
  BY ZenonT(40), <1>1 DEF FrameSet, OneIf
<1>5. f.exits \subseteq frames[n - 1].can /\ always \in SUBSET Exit
  BY ZenonT(40), <1>2, <1>3, <1>4 DEF Opened
<1>6. f.size - o \in Nat
  BY <1>3, <1>4 DEF Opened
<1>7. dead => \A j \in 1..(n - 1) : ~IsLoop(frames[j])
  BY ZenonT(40), <1>3 DEF Opened
<1>8. ScopeQty(f) = 1
  BY ZenonT(40), <1>2 DEF ScopeQty, Wrapped
<1>9. Len(frames) = n /\ Len(sizes) = k /\ n \in Nat /\ n >= 2 /\ k \in Nat /\ f = frames[n]
  BY <1>1, <1>3
<1>10. b \in Seq(Nat) /\ Len(b) = k /\ \A j \in 1..(k - 1) : b[j] = sizes[j]
  BY ZenonT(40), DropIs
<1> HIDE DEF n, k, f, o, dead, always, b
<1>11. Nested(gs) /\ Alike(Front(frames), gs)
  BY ZenonT(40), <1>1, <1>5, <1>9, PoppedIs
<1> HIDE DEF gs
<1>12. CASE f.live
  <2>1. /\ k - ScopeQty(frames[n]) \in Nat \ {0}
        /\ \A j \in (k - ScopeQty(frames[n]))..(k - 1) : sizes[j] = frames[n].size
    <3>1. Good(size, sizes, live, frames) /\ frames[n].live
      BY ZenonT(40), <1>1, <1>9, <1>12
    <3> QED
      BY SMTT(40), <1>9, <3>1, KeptTop
  <2>2. k >= 2 /\ k - 1 \in 1..(k - 1) /\ sizes[k - 1] = f.size
    BY <1>8, <1>9, <2>1
  <2>3. after \in Seq(Nat) /\ after # <<>> /\ Len(after) = k - 1 /\ \A j \in 1..(k - 1) : after[j] = b[j]
    BY ZenonT(40), <1>10, <2>2, EndIs
  <2> HIDE DEF after
  <2>4. after[k - 1] = f.size /\ \A j \in 1..(k - 1) : after[j] = sizes[j]
    BY ZenonT(40), <1>10, <2>2, <2>3
  <2>5. /\ sizes' \in Seq(Nat) /\ sizes' # <<>> /\ Len(sizes') = k - 1
        /\ (~dead => sizes'[k - 1] = f.size - o)
        /\ \A j \in 1..((k - 1) - 1) : sizes'[j] = sizes[j]
    <3>1. \A j \in 1..((k - 1) - 1) : j \in 1..(k - 1)
      BY <1>9
    <3>2. CASE dead
      BY ZenonT(40), <1>2, <1>12, <2>3, <2>4, <3>1, <3>2
    <3>3. CASE ~dead
      <4> DEFINE d == -o
      <4>1. d \in Int /\ after[Len(after)] + d \in Nat /\ f.size + d = f.size - o
        BY <1>4, <1>6, <2>3, <2>4
      <4>2. sizes' = delta(after, d)
        BY ZenonT(40), <1>2, <1>12, <3>3
      <4> HIDE DEF d
      <4>3. /\ delta(after, d) \in Seq(Nat) /\ delta(after, d) # <<>>
            /\ Len(delta(after, d)) = Len(after)
            /\ delta(after, d)[Len(after)] = after[Len(after)] + d
            /\ \A j \in 1..(Len(after) - 1) : delta(after, d)[j] = after[j]
        BY ZenonT(40), <2>3, <4>1, DeltaIs
      <4> QED
        BY ZenonT(40), <2>3, <2>4, <3>1, <4>1, <4>2, <4>3
    <3> QED
      BY ZenonT(40), <3>2, <3>3
  <2>6. Good(f.size - o, sizes', ~dead, gs)
    <3> DEFINE sz2 == f.size - o
    <3>1. Closes(sizes, frames, n, k, gs, sizes')
      BY ZenonT(40), <1>8, <1>9, <1>11, <1>12, <2>5 DEF Closes
    <3>2. sz2 \in Nat
      BY ZenonT(40), <1>6
    <3>3. (~dead => sizes'[Len(sizes')] = sz2) /\ (dead => \A j \in 1..(n - 1) : ~IsLoop(frames[j]))
      BY ZenonT(40), <1>7, <2>5
    <3> HIDE DEF sz2
    <3>4. (~dead => Good(sz2, sizes', TRUE, gs)) /\ (dead => Good(sz2, sizes', FALSE, gs))
      <4>1. Good(size, sizes, live, frames)
        BY ZenonT(40), <1>1
      <4>2. ASSUME ~dead PROVE Good(sz2, sizes', TRUE, gs)
        <5>1. sizes'[Len(sizes')] = sz2
          BY ZenonT(40), <3>3, <4>2
        <5> QED
          BY ZenonT(40), <3>1, <3>2, <4>1, <5>1, CloseGood
      <4>3. ASSUME dead PROVE Good(sz2, sizes', FALSE, gs)
        <5>1. NoLoopAround(frames, n)
          BY ZenonT(40), <3>3, <4>3 DEF NoLoopAround
        <5> QED
          BY ZenonT(40), <3>1, <3>2, <4>1, <5>1, CloseGood
      <4> QED
        BY ZenonT(40), <4>2, <4>3
    <3> QED
      BY ZenonT(40), <3>4 DEF sz2
  <2>7. live' = ~dead
    BY ZenonT(40), <1>2, <1>4, <1>12 DEF dead
  <2> QED
    BY ZenonT(40), <1>2, <2>6, <2>7 DEF IInv
<1>13. CASE ~f.live
  <2>1. Good(f.size - o, sizes, FALSE, gs)
    BY ZenonT(40), <1>1, <1>6, <1>9, <1>11, <1>13, CloseDeadGood
  <2>2. live' = FALSE /\ sizes' = sizes
    BY ZenonT(40), <1>2, <1>13
  <2> QED
    BY ZenonT(40), <1>2, <2>1, <2>2 DEF IInv
<1> QED
  BY ZenonT(40), <1>4, <1>12, <1>13

LEMMA EndLoopStep ==
  ASSUME IInv, EndLoop
  PROVE  IInv'
<1> DEFINE n == Len(frames)
           k == Len(sizes)
           f == frames[n]
           q == ScopeQty(f)
           b == DropScope
           body == IF Wrapped(f) THEN endScope(b) ELSE b
           cond == OneIf(f.kind = "until")
           goesOn == IF Wrapped(f) THEN f.live ELSE live
           end == IF goesOn THEN delta(body, cond) ELSE body
           d == f.vars + OneIf(f.flag)
           gs == Popped(f.exits \cap {"return"}, {})
<1>1. /\ Good(size, sizes, live, frames) /\ sizes \in Seq(Nat) /\ sizes # <<>> /\ live \in BOOLEAN
      /\ Nested(frames) /\ failed = FALSE
      /\ Inner = f /\ f \in FrameSet /\ n \in Nat \ {0}
  BY ZenonT(40), InnerIs DEF IInv, Good, Inner
<1>2. /\ IsLoop(f) /\ size' = f.size - d /\ frames' = gs /\ live' = f.live
      /\ sizes' = IF f.live THEN delta(endScope(end), -d) ELSE sizes
      /\ failed' = (failed \/ (f.live /\ scopeSize(end) # cond))
  BY ZenonT(40), <1>1 DEF EndLoop
<1>3. n >= 2 /\ Opened(frames, n)
  BY ZenonT(40), <1>1, <1>2, InnerIs DEF IsLoop, LoopKind
<1>4. /\ f.size \in Nat /\ f.live \in BOOLEAN /\ f.vars \in Nat /\ OneIf(f.flag) \in {0, 1}
      /\ cond \in {0, 1} /\ q \in {1, 2}
  BY ZenonT(40), <1>1 DEF FrameSet, OneIf, ScopeQty
<1>5. f.exits \cap {"return"} \subseteq frames[n - 1].can
  BY ZenonT(40), <1>2, <1>3 DEF Opened
<1>6. d \in Nat /\ f.size - d \in Nat
  BY <1>3, <1>4 DEF Opened
<1>7. Len(frames) = n /\ Len(sizes) = k /\ n \in Nat /\ n >= 2 /\ k \in Nat /\ f = frames[n]
  BY <1>1, <1>3
<1>8. /\ b \in Seq(Nat) /\ b # <<>> /\ Len(b) = k /\ \A j \in 1..(k - 1) : b[j] = sizes[j]
      /\ (live => b[k] = f.size) /\ (~live => b = sizes)
  BY ZenonT(40), <1>1, DropIs
<1>9. (Wrapped(f) => q = 2) /\ (~Wrapped(f) => q = 1) /\ q = ScopeQty(f)
  BY ZenonT(40) DEF ScopeQty
<1>10. ~Wrapped(f) /\ f.kind = "until" => f.can = {}
  BY ZenonT(40) DEF Wrapped
<1> HIDE DEF n, k, f, q, b, cond, d
<1>11. Nested(gs) /\ Alike(Front(frames), gs)
  <2>1. {} \in SUBSET Exit
    BY ZenonT(40)
  <2> QED
    BY ZenonT(40), <1>1, <1>5, <1>7, <2>1, PoppedIs
<1> HIDE DEF gs
<1>12. CASE f.live
  <2>1. /\ k - q \in Nat \ {0}
        /\ \A j \in (k - q)..(k - 1) : sizes[j] = f.size
        /\ ~live => Stopped(n, frames, sizes)
    <3>1. Good(size, sizes, live, frames) /\ frames[n].live
      BY ZenonT(40), <1>1, <1>7, <1>12
    <3>2. /\ k - ScopeQty(frames[n]) \in Nat \ {0}
          /\ \A j \in (k - ScopeQty(frames[n]))..(k - 1) : sizes[j] = frames[n].size
          /\ ~live => Stopped(n, frames, sizes)
      BY <1>7, <3>1, KeptTop
    <3> QED
      BY ZenonT(40), <1>7, <1>9, <3>2
  <2> DEFINE l == k - q
  <2>2. l \in Nat \ {0} /\ l \in l..(k - 1) /\ k - 1 \in l..(k - 1) /\ sizes[l] = f.size /\ k >= 2
    <3>1. l \in l..(k - 1) /\ k - 1 \in l..(k - 1) /\ k >= 2
      BY <1>4, <1>7, <2>1
    <3> QED
      BY ZenonT(40), <2>1, <3>1
  <2>3. /\ body \in Seq(Nat) /\ body # <<>> /\ Len(body) = l + 1 /\ body[l + 1] = f.size
        /\ \A j \in 1..l : body[j] = sizes[j]
    <3>1. CASE Wrapped(f)
      <4>1. /\ endScope(b) \in Seq(Nat) /\ endScope(b) # <<>> /\ Len(endScope(b)) = k - 1
            /\ \A j \in 1..(k - 1) : endScope(b)[j] = b[j]
        BY ZenonT(40), <1>8, <2>2, EndIs
      <4>2. k - 1 = l + 1 /\ k - 1 \in 1..(k - 1) /\ \A j \in 1..l : j \in 1..(k - 1)
        BY <1>7, <1>9, <2>2, <3>1
      <4>3. sizes[k - 1] = f.size
        BY ZenonT(40), <2>1, <2>2
      <4>4. body = endScope(b)
        BY ZenonT(40), <3>1
      <4> HIDE DEF body, l
      <4>5. body[k - 1] = f.size /\ \A j \in 1..l : body[j] = sizes[j]
        BY ZenonT(40), <1>8, <4>1, <4>2, <4>3, <4>4
      <4> QED
        BY ZenonT(40), <4>1, <4>2, <4>4, <4>5
    <3>2. CASE ~Wrapped(f)
      <4>1. k = l + 1 /\ \A j \in 1..l : j \in 1..(k - 1)
        BY <1>7, <1>9, <2>2, <3>2
      <4>2. body = b
        BY ZenonT(40), <3>2
      <4>3. b[k] = f.size
        <5>1. CASE live
          BY ZenonT(40), <1>8, <5>1
        <5>2. CASE ~live
          <6>1. Stopped(n, frames, sizes) /\ n \in 1..n
            BY <1>7, <2>1, <5>2
          <6>2. sizes[k] = f.size
            BY ZenonT(40), <1>2, <1>7, <6>1 DEF Stopped
          <6> QED
            BY ZenonT(40), <1>8, <5>2, <6>2
        <5> QED
          BY ZenonT(40), <5>1, <5>2
      <4> HIDE DEF body, l
      <4> QED
        BY ZenonT(40), <1>8, <4>1, <4>2, <4>3
    <3> QED
      BY ZenonT(40), <3>1, <3>2
  <2>4. ~goesOn => cond = 0
    <3> SUFFICES ASSUME ~goesOn PROVE cond = 0
      BY ZenonT(40)
    <3>1. ~Wrapped(f) /\ ~live
      BY ZenonT(40), <1>12
    <3>2. f.can # {}
      <4>1. Stopped(n, frames, sizes) /\ n \in 1..n
        BY <1>7, <2>1, <3>1
      <4> QED
        BY ZenonT(40), <1>2, <1>7, <4>1 DEF Stopped
    <3> QED
      BY ZenonT(40), <1>10, <3>1, <3>2 DEF cond, OneIf
  <2> HIDE DEF body, l
  <2>5. /\ end \in Seq(Nat) /\ end # <<>> /\ Len(end) = l + 1 /\ end[l + 1] = f.size + cond
        /\ \A j \in 1..l : end[j] = sizes[j]
    <3>1. CASE goesOn
      <4>1. cond \in Int /\ body[Len(body)] + cond \in Nat
        BY <1>4, <2>3
      <4>2. /\ delta(body, cond) \in Seq(Nat) /\ delta(body, cond) # <<>>
            /\ Len(delta(body, cond)) = Len(body)
            /\ delta(body, cond)[Len(body)] = body[Len(body)] + cond
            /\ \A j \in 1..(Len(body) - 1) : delta(body, cond)[j] = body[j]
        BY ZenonT(40), <2>3, <4>1, DeltaIs
      <4>3. Len(body) - 1 = l
        BY <2>2, <2>3
      <4>4. end = delta(body, cond)
        BY ZenonT(40), <3>1
      <4> HIDE DEF end
      <4> QED
        BY ZenonT(40), <2>3, <4>2, <4>3, <4>4
    <3>2. CASE ~goesOn
      <4>1. end = body /\ cond = 0
        BY ZenonT(40), <2>4, <3>2
      <4>2. f.size + cond = f.size
        BY <1>4, <4>1
      <4> HIDE DEF end
      <4> QED
        BY ZenonT(40), <2>3, <4>1, <4>2
    <3> QED
      BY ZenonT(40), <3>1, <3>2
  <2> HIDE DEF end
  <2>6. l \in 1..l /\ end[l] = f.size /\ Len(end) # 1 /\ Len(end) - 1 = l
    <3>1. l \in 1..l /\ l + 1 # 1 /\ (l + 1) - 1 = l
      BY <2>2
    <3> QED
      BY ZenonT(40), <2>2, <2>5, <3>1
  <2>7. scopeSize(end) = cond
    <3>1. end[Len(end)] = f.size + cond /\ end[Len(end) - 1] = f.size
      BY ZenonT(40), <2>5, <2>6
    <3> QED
      BY <1>4, <2>6, <3>1 DEF scopeSize, Last
  <2> DEFINE e == endScope(end)
             c == -d
  <2>8. e \in Seq(Nat) /\ e # <<>> /\ Len(e) = l /\ \A j \in 1..l : e[j] = end[j]
    <3>1. Len(end) >= 2
      BY <2>2, <2>5
    <3>2. /\ e \in Seq(Nat) /\ e # <<>> /\ Len(e) = Len(end) - 1
          /\ \A j \in 1..(Len(end) - 1) : e[j] = end[j]
      BY ZenonT(40), <2>5, <3>1, EndIs
    <3> QED
      BY ZenonT(40), <2>6, <3>2
  <2>9. sizes' = delta(e, c) /\ failed' = FALSE /\ live' = TRUE
    BY ZenonT(40), <1>1, <1>2, <1>4, <1>12, <2>7
  <2>10. c \in Int /\ f.size + c = f.size - d
    BY <1>4, <1>6
  <2> HIDE DEF e, c
  <2>11. e[Len(e)] + c = f.size - d /\ e[Len(e)] + c \in Nat
    BY ZenonT(40), <1>6, <2>6, <2>8, <2>10
  <2>12. /\ delta(e, c) \in Seq(Nat) /\ delta(e, c) # <<>>
         /\ Len(delta(e, c)) = Len(e)
         /\ delta(e, c)[Len(e)] = e[Len(e)] + c
         /\ \A j \in 1..(Len(e) - 1) : delta(e, c)[j] = e[j]
    BY ZenonT(40), <2>8, <2>10, <2>11, DeltaIs
  <2>13. /\ sizes' \in Seq(Nat) /\ sizes' # <<>> /\ Len(sizes') = l /\ sizes'[Len(sizes')] = f.size - d
         /\ \A j \in 1..(Len(sizes') - 1) : sizes'[j] = sizes[j]
    <3>1. \A j \in 1..(l - 1) : j \in 1..l
      BY <2>2
    <3>2. Len(sizes') = l /\ sizes'[l] = f.size - d
      BY ZenonT(40), <2>8, <2>9, <2>11, <2>12
    <3>3. \A j \in 1..(l - 1) : sizes'[j] = sizes[j]
      BY ZenonT(40), <2>5, <2>8, <2>9, <2>12, <3>1
    <3> QED
      BY ZenonT(40), <2>9, <2>12, <3>2, <3>3
  <2>14. Closes(sizes, frames, n, k, gs, sizes')
    <3>1. l = k - ScopeQty(frames[n])
      BY ZenonT(40), <1>7, <1>9 DEF l
    <3> QED
      BY ZenonT(40), <1>7, <1>11, <1>12, <2>13, <3>1 DEF Closes
  <2> DEFINE sz2 == f.size - d
  <2>15. sz2 \in Nat /\ sizes'[Len(sizes')] = sz2 /\ size' = sz2
    BY ZenonT(40), <1>2, <1>6, <2>13
  <2> HIDE DEF sz2
  <2>16. Good(size, sizes, live, frames)
    BY ZenonT(40), <1>1
  <2>17. Good(sz2, sizes', TRUE, gs)
    BY ZenonT(40), <2>14, <2>15, <2>16, CloseGood
  <2> QED
    BY ZenonT(40), <1>2, <2>9, <2>15, <2>17 DEF IInv
<1>13. CASE ~f.live
  <2> DEFINE sz2 == f.size - d
  <2>1. sz2 \in Nat /\ size' = sz2 /\ live' = FALSE /\ sizes' = sizes /\ failed' = FALSE
    BY ZenonT(40), <1>1, <1>2, <1>4, <1>6, <1>13
  <2> HIDE DEF sz2
  <2>2. Good(sz2, sizes, FALSE, gs)
    BY ZenonT(40), <1>1, <1>7, <1>11, <1>13, <2>1, CloseDeadGood
  <2> QED
    BY ZenonT(40), <1>2, <2>1, <2>2 DEF IInv
<1> QED
  BY ZenonT(40), <1>4, <1>12, <1>13

-----------------------------------------------------------------------------
(* The theorems.                                                           *)

LEMMA StepKeeps ==
  ASSUME ExitsOnly, IInv, [Next]_vars
  PROVE  IInv'
<1>1. CASE VariableDeclarationStatement
  BY ZenonT(40), <1>1, DeclarationStep
<1>2. CASE Throw
  BY ZenonT(40), <1>2, ThrowStep
<1>3. CASE \E exit \in Exit : ExitStatement(exit)
  BY ZenonT(40), <1>3, ExitStep
<1>4. CASE \E can \in SUBSET Exit, jmp, else \in BOOLEAN : IfStatement(can, jmp, else)
  <2>1. PICK can \in SUBSET Exit, jmp \in BOOLEAN, else \in BOOLEAN : IfStatement(can, jmp, else)
    BY ZenonT(40), <1>4
  <2> QED
    BY ZenonT(40), <2>1, IfStep
<1>5. CASE EndThen
  BY ZenonT(40), <1>5, EndThenStep
<1>6. CASE EndIf
  BY ZenonT(40), <1>6, EndIfStep
<1>7. CASE \E kind \in Loops, can \in SUBSET Exit :
              \E v \in VarQtys(kind, {0, 1}) : LoopStatement(kind, can, v)
  <2>1. PICK kind \in Loops, can \in SUBSET Exit :
               \E v \in VarQtys(kind, {0, 1}) : LoopStatement(kind, can, v)
    BY ZenonT(40), <1>7
  <2>2. PICK v \in VarQtys(kind, {0, 1}) : LoopStatement(kind, can, v)
    BY ZenonT(40), <2>1
  <2> QED
    BY ZenonT(40), <2>2, LoopStep
<1>8. CASE EndLoop
  BY ZenonT(40), <1>8, EndLoopStep
<1>9. CASE UNCHANGED vars
  BY ZenonT(40), <1>9 DEF IInv, vars
<1> QED
  BY ZenonT(40), <1>1, <1>2, <1>3, <1>4, <1>5, <1>6, <1>7, <1>8, <1>9 DEF Next

LEMMA InitGood ==
  ASSUME Init
  PROVE  IInv
<1>1. PICK can \in SUBSET {"return"} :
        /\ size = ArgQty /\ sizes = <<ArgQty>> /\ live = TRUE /\ failed = FALSE
        /\ frames = <<[Frame("function", can, FALSE, FALSE, FALSE, ArgQty, 0) EXCEPT !.live = TRUE]>>
  BY ZenonT(40) DEF Init
<1> DEFINE f == [Frame("function", can, FALSE, FALSE, FALSE, ArgQty, 0) EXCEPT !.live = TRUE]
           at == [i \in 1..1 |-> 1]
<1>2. ArgQty \in Nat
  BY ZenonT(40), ScopeSizesAssumption
<1>3. f \in FrameSet /\ f.kind = "function" /\ f.exits = {} /\ f.live
  BY ZenonT(40), <1>1, <1>2 DEF Frame, FrameSet, Kind, Exit
<1>4. frames = <<f>>
  BY ZenonT(40), <1>1
<1> HIDE DEF f
<1>5. frames \in Seq(FrameSet) /\ Len(frames) = 1 /\ frames[1] = f
  BY <1>3, <1>4
<1>6. Nested(frames)
  BY <1>3, <1>5 DEF Nested
<1>7. sizes \in Seq(Nat) /\ sizes # <<>> /\ Len(sizes) = 1 /\ sizes[1] = size /\ size \in Nat
  BY <1>1, <1>2
<1>8. at \in [1..1 -> Nat] /\ at[1] = 1
  OBVIOUS
<1> HIDE DEF at
<1>9. Scopes(1, at, frames, sizes)
  BY <1>3, <1>5, <1>7, <1>8 DEF Scopes
<1>10. 1 \in 1..Len(frames) /\ sizes[Len(sizes)] = size
  BY <1>5, <1>7
<1>11. Good(size, sizes, TRUE, frames)
  BY ZenonT(40), <1>5, <1>6, <1>7, <1>8, <1>9, <1>10, GoodIs
<1> QED
  BY ZenonT(40), <1>1, <1>11 DEF IInv

\* The scopes of StackOptimizer are those of the open statements whose code is kept, with the
\* generator's sizes.
\* Assumed: in loops only a return, break or continue ends the code, no throw and no leaving IFELSE.
THEOREM Inductive ==
  ASSUME ExitsOnly
  PROVE  Spec => []IInv
<1>1. Init => IInv
  BY ZenonT(40), InitGood
<1>2. IInv /\ [Next]_vars => IInv'
  BY ZenonT(40), StepKeeps
<1> QED
  BY <1>1, <1>2, PTL DEF Spec

\* The sizes of StackOptimizer are never negative (the assertion of delta), and the exits met in a
\* statement are among those CFAnalyzer has found.
\* Assumed: in loops only a return, break or continue ends the code, no throw and no leaving IFELSE.
THEOREM TypeCorrect ==
  ASSUME ExitsOnly
  PROVE  Spec => []TypeOK
<1>1. IInv => TypeOK
  <2> SUFFICES ASSUME IInv PROVE TypeOK
    BY ZenonT(40)
  <2>1. /\ size \in Nat /\ sizes \in Seq(Nat) /\ sizes # <<>> /\ live \in BOOLEAN /\ failed \in BOOLEAN
        /\ Nested(frames)
    BY ZenonT(40) DEF IInv, Good
  <2>2. ASSUME NEW i \in 1..Len(frames)
        PROVE  frames[i].exits \subseteq frames[i].can /\ frames[i].can \subseteq Exit
    <3>1. frames[i] \in FrameSet
      BY <2>1 DEF Nested
    <3>2. i = 1 \/ i \in 2..Len(frames)
      BY <2>1 DEF Nested
    <3>3. frames[i].exits \subseteq frames[i].can
      BY ZenonT(40), <2>1, <3>2 DEF Nested, Opened
    <3> QED
      BY ZenonT(40), <3>1, <3>3 DEF FrameSet
  <2> QED
    BY ZenonT(40), <2>1, <2>2 DEF TypeOK
<1> QED
  BY <1>1, Inductive, PTL

\* At each instruction that is kept, StackOptimizer's size is the stack size the generator emitted the
\* instruction for.
\* Assumed: in loops only a return, break or continue ends the code, no throw and no leaving IFELSE.
THEOREM SizesAreRight ==
  ASSUME ExitsOnly
  PROVE  Spec => []SizesAgree
<1>1. IInv => SizesAgree
  BY ZenonT(40) DEF IInv, Good, Matched, SizesAgree, Last
<1> QED
  BY <1>1, Inductive, PTL

\* No assertion of visit(While), visit(TvmRepeat) and visit(TvmUntil) fails: each loop ends with the
\* size it began with.
\* Assumed: in loops only a return, break or continue ends the code, no throw and no leaving IFELSE.
THEOREM LoopsKeepSize ==
  ASSUME ExitsOnly
  PROVE  Spec => []LoopKeepsSize
<1>1. IInv => LoopKeepsSize
  BY ZenonT(40) DEF IInv, LoopKeepsSize
<1> QED
  BY <1>1, Inductive, PTL
=============================================================================
