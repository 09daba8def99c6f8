------------------------ MODULE LinearizationProofs ------------------------
(***************************************************************************)
(* Proofs about CompilerStack: cThreeMerge linearizes the base contracts.  *)
(***************************************************************************)
EXTENDS CompilerStackProofs

Once(s) == \A i, j \in DOMAIN s : s[i] = s[j] => i = j
\* resolveImports: a file is left at most once.
Leaves(items, done) ==
  \A i \in DOMAIN items :
    /\ items[i] = <<items[i][1], items[i][2]>>
    /\ items[i][1] = "leave" => items[i][2] \notin SeqSet(done) /\ \A j \in DOMAIN items : items[j] = items[i] => i = j
Direct(c) == DirectBases(c, scopes)
HasLinear(c) == c \in DOMAIN bases /\ bases[c] # <<>>
\* What a contract is linearized from is linearized, and no contract is linearized twice.
Resolved(c) ==
  /\ \A i \in DOMAIN Direct(c) : HasLinear(Direct(c)[i])
  /\ c[1] \in SeqSet(todo) => c[1] = Head(todo) /\ c[2] < at
\* cThreeMerge: what is placed is in the order of every list.
MergedSoFar(lists, placed) ==
  /\ IsSeq(placed) /\ Once(placed)
  /\ \A x \in SeqSet(placed) : \E k \in DOMAIN lists : x \in SeqSet(lists[k])
  /\ \A k \in DOMAIN lists : \A i, j \in DOMAIN lists[k] :
       i < j /\ lists[k][j] \in SeqSet(placed) => Before(placed, lists[k][i], lists[k][j])
Merging ==
  /\ todo # <<>> /\ Head(todo) \in asts /\ at <= Len(NodesOf(Head(todo)))
  /\ Kind(Current) = "contract" /\ BasesFound(Current)
  /\ toMerge = Input(Current) /\ MergedSoFar(toMerge, result)
LInv ==
  /\ Once(order)
  /\ stage = "toposort" => Leaves(todo, order)
  /\ stage \in Walking => Once(todo) /\ DOMAIN bases = Contracts /\ \A p \in sources : <<p>> \in DOMAIN scopes
  /\ stage \in {"syntax", "doc", "register", "perform"} => \A c \in DOMAIN bases : bases[c] = <<>>
  /\ \A c \in DOMAIN bases : IsSeq(bases[c])
  /\ stage \in {"resolve", "merge"} => \A c \in DOMAIN bases : bases[c] # <<>> => Resolved(c)
  /\ stage = "merge" => Merging
  /\ LinearizedRight

\* What the invariant depends on, besides the stage and its place
snames == <<project, sources, asts, scopes, bases>>
-----------------------------------------------------------------------------
(* Sequences and numbers.                                                  *)

LEMMA First == ASSUME NEW s, IsSeq(s), s # <<>> PROVE 1 \in DOMAIN s /\ s[1] \in SeqSet(s)
BY SeqIs

LEMMA OneUpTo == ASSUME NEW m \in Nat, NEW j \in 1..m PROVE 1 \in 1..m /\ j \in Nat /\ (j = 1 \/ 1 < j)
OBVIOUS

LEMMA Less == ASSUME NEW i \in Nat, NEW j \in Nat PROVE i < i + 1 /\ (i < j => i < j + 1 /\ ~(j <= i))
OBVIOUS

LEMMA MergedFixed == ASSUME toMerge' = toMerge PROVE MergedSoFar(toMerge, result)' = MergedSoFar(toMerge, result')
BY SMTT(40) DEF MergedSoFar, IsSeq, SeqSet, Once, Before

-----------------------------------------------------------------------------
(* Contracts, and steps that leave the names as they are.                  *)

LEMMA NodeIs ==
  ASSUME Shape, NEW c \in Nodes
  PROVE  /\ c[1] \in asts /\ c[1] \in sources /\ c[1] \in DOMAIN project.files
         /\ c[2] \in 1..Len(project.files[c[1]]) /\ c = <<c[1], c[2]>>
         /\ NodesOf(c[1])[c[2]] = c /\ Decl(c) = project.files[c[1]][c[2]]
<1>1. PICK p \in asts : c \in SeqSet(NodesOf(p))
  BY ZenonT(40) DEF Nodes
<1>2. p \in sources /\ p \in DOMAIN project.files
  BY ZenonT(40) DEF Shape
<1>3. PICK i \in DOMAIN project.files[p] : c = <<p, i>>
  BY ZenonT(40), <1>1 DEF SeqSet, NodesOf
<1>4. c[1] = p /\ c[2] = i /\ Decl(c) = project.files[p][i]
  BY ZenonT(40), <1>3 DEF Decl
<1>5. i \in 1..Len(project.files[p])
  BY ZenonT(40), <1>2, <1>3, NodesAre
<1> QED
  BY ZenonT(40), <1>2, <1>3, <1>4, <1>5, NodesAre

LEMMA DirectIs ==
  ASSUME Shape, NEW c \in Contracts
  PROVE  /\ IsSeq(Direct(c)) /\ Len(Direct(c)) \in Nat /\ DOMAIN Direct(c) = 1..Len(Direct(c))
         /\ DOMAIN Decl(c).bases = 1..Len(Direct(c))
<1>1. c \in Nodes /\ Kind(c) = "contract"
  BY ZenonT(40) DEF Contracts
<1>2. IsSeq(Decl(c).bases)
  <2>1. project \in Projects
    BY ZenonT(40) DEF Shape
  <2>2. c[1] \in DOMAIN project.files /\ c[2] \in DOMAIN project.files[c[1]] /\ Decl(c) = project.files[c[1]][c[2]]
    BY ZenonT(40), <1>1, NodeIs, NodesAre
  <2> QED
    BY ZenonT(40), <1>1, <2>1, <2>2, ProjectsAssumption DEF Kind
<1> DEFINE n == Len(Decl(c).bases)
<1>3. n \in Nat /\ DOMAIN Decl(c).bases = 1..n
  BY ZenonT(40), <1>2, SeqIs
<1>4. Direct(c) = [i \in 1..n |-> Direct(c)[i]]
  BY SMTT(40), <1>3 DEF Direct, DirectBases
<1>5. IsSeq(Direct(c)) /\ Len(Direct(c)) = n
  <2> HIDE DEF n
  <2> QED
    BY ZenonT(40), <1>3, <1>4, SeqMade
<1> QED
  BY ZenonT(40), <1>3, <1>5, SeqIs

LEMMA ContractsFixed == ASSUME project' = project, asts' = asts PROVE Contracts' = Contracts /\ Nodes' = Nodes
<1>1. \A d : Kind(d)' = Kind(d)
  BY ZenonT(40) DEF Kind, Decl
<1>2. Nodes' = Nodes
  BY DEF Nodes, SeqSet, NodesOf
<1> QED
  BY ZenonT(40), <1>1, <1>2 DEF Contracts

LEMMA DirectFixed == ASSUME project' = project, scopes' = scopes PROVE \A c : Direct(c)' = Direct(c)
BY SMTT(40) DEF Direct, DirectBases, Decl, resolveName

LEMMA LinearFixed ==
  ASSUME project' = project, scopes' = scopes, bases' = bases
  PROVE  LinearizedRight' = LinearizedRight
BY DEF LinearizedRight, IsLinearization, Before, SeqSet, DirectBases, Decl, resolveName

LEMMA NoneLinear == ASSUME \A c \in DOMAIN bases' : bases'[c] = <<>> PROVE LinearizedRight'
BY ZenonT(40) DEF LinearizedRight

LEMMA AllSeqs == ASSUME \A c \in DOMAIN bases' : bases'[c] = <<>> PROVE \A c \in DOMAIN bases' : IsSeq(bases'[c])
BY ZenonT(40), EmptyIsSeq

LEMMA Outside ==
  ASSUME LInv, UNCHANGED <<project, scopes, bases>>, Once(order'), stage' \notin Walking \cup {"toposort"}
  PROVE  LInv'
<1>1. /\ stage' \notin Walking /\ stage' # "toposort" /\ stage' \notin {"syntax", "doc", "register", "perform"}
      /\ stage' \notin {"resolve", "merge"} /\ stage' # "merge"
  BY ZenonT(40) DEF Walking
<1>2. LinearizedRight'
  BY ZenonT(40), LinearFixed DEF LInv
<1>3. \A c \in DOMAIN bases' : IsSeq(bases[c])
  BY ZenonT(40) DEF LInv
<1>4. \A c \in DOMAIN bases' : IsSeq(bases[c])'
  BY ZenonT(40), <1>3 DEF IsSeq, SeqSet
<1>5. Once(order)'
  BY ZenonT(40) DEF Once
<1> QED
  BY ZenonT(40), <1>1, <1>2, <1>4, <1>5 DEF LInv

\* The stages other than those that resolve names
LEMMA WalkOn ==
  ASSUME Shape, LInv, UNCHANGED snames, order' = order, stage \in Walking, stage' \in Walking \ {"resolve", "merge"}, Once(todo'),
         stage' \in {"syntax", "doc", "register", "perform"} => stage \in {"syntax", "doc", "register", "perform"}
  PROVE  LInv'
<1>1. stage' # "toposort" /\ stage' \notin {"resolve", "merge"} /\ stage' # "merge"
  BY ZenonT(40) DEF Walking
<1>2. LinearizedRight'
  BY ZenonT(40), LinearFixed DEF LInv, snames
<1>3. \A c \in DOMAIN bases' : IsSeq(bases[c])'
  BY ZenonT(40) DEF LInv, IsSeq, SeqSet, snames
<1>4. Once(order)' /\ Once(todo)'
  BY ZenonT(40) DEF Once, LInv
<1>5. DOMAIN bases' = Contracts' /\ \A p \in sources' : <<p>> \in DOMAIN scopes'
  BY ZenonT(40), ContractsFixed DEF LInv, snames
<1>6. stage' \in {"syntax", "doc", "register", "perform"} => \A c \in DOMAIN bases' : bases'[c] = <<>>
  <2>1. stage \in {"syntax", "doc", "register", "perform"} => \A c \in DOMAIN bases : bases[c] = <<>>
    BY ZenonT(40) DEF LInv
  <2> QED
    BY ZenonT(40), <2>1 DEF snames
<1> QED
  BY ZenonT(40), <1>1, <1>2, <1>3, <1>4, <1>5, <1>6 DEF LInv
\* The execution of functions
LEMMA Idle ==
  ASSUME LInv, UNCHANGED <<snames, order, stage, todo, at, toMerge, result>>
  PROVE  LInv'
<1> USE DEF snames
<1>1. LinearizedRight'
  BY ZenonT(40), LinearFixed DEF LInv
<1>2. Contracts' = Contracts /\ (\A c : Direct(c)' = Direct(c)) /\ \A c, d : Kind(c)' = Kind(c) /\ Decl(c)' = Decl(c)
  BY ZenonT(40), ContractsFixed, DirectFixed DEF Kind, Decl
<1>3. \A c : Resolved(c)' = Resolved(c)
  BY DEF Resolved, HasLinear, Direct, DirectBases, Decl, resolveName, SeqSet
<1>4. stage = "merge" => Merging' = Merging
  <2> SUFFICES ASSUME stage = "merge" PROVE Merging' = Merging
    BY ZenonT(40)
  <2>1. Current' = Current /\ Current = NodesOf(Head(todo))[at] /\ \A p : NodesOf(p)' = NodesOf(p)
    BY ZenonT(40) DEF Current, ItemsOf, NodesOf
  <2>2. MergedSoFar(toMerge, result)' = MergedSoFar(toMerge, result)
    BY SMTT(40) DEF MergedSoFar, IsSeq, Once, SeqSet, Before
  <2>3. BasesFound(Current)' = BasesFound(Current)
    <3>1. \A c : BasesOf(c)' = BasesOf(c)
      BY ZenonT(40) DEF BasesOf, Decl, resolveName
    <3>2. \A b : IsBase(b)' = IsBase(b)
      BY ZenonT(40), <1>2 DEF IsBase
    <3> QED
      BY ZenonT(40), <2>1, <3>1, <3>2 DEF BasesFound
  <2>4. Input(Current)' = Input(Current)
    BY SMTT(40), <2>1 DEF Input, DirectBases, Decl, resolveName
  <2>5. Kind(Current)' = Kind(Current)
    BY ZenonT(40), <2>1 DEF Kind, Decl
  <2> QED
    BY ZenonT(40), <2>1, <2>2, <2>3, <2>4, <2>5 DEF Merging
<1>5. Once(order)' = Once(order) /\ Once(todo)' = Once(todo) /\ Leaves(todo, order)' = Leaves(todo, order)
  BY DEF Once, Leaves, SeqSet
<1>6. \A c : IsSeq(bases[c])' = IsSeq(bases[c])
  BY ZenonT(40) DEF IsSeq, SeqSet
<1> QED
  BY ZenonT(40), <1>1, <1>2, <1>3, <1>4, <1>5, <1>6 DEF LInv

LEMMA Returns ==
  ASSUME LInv, UNCHANGED <<project, order, scopes, bases>>, stage' \in {"idle", "parse", "end", "select", "generate"}
  PROVE  LInv'
<1>1. Once(order') /\ stage' \notin Walking \cup {"toposort"}
  BY ZenonT(40) DEF LInv, Once, Walking
<1> QED
  BY ZenonT(40), <1>1, Outside

LEMMA resetLinear == ASSUME reset PROVE LInv'
<1>1. stage' = "idle" /\ order' = <<>> /\ bases' = <<>>
  BY ZenonT(40) DEF reset, Return, GoTo
<1>2. stage' \notin Walking \cup {"toposort", "syntax", "doc", "register", "perform", "resolve", "merge"} /\ Once(order)'
  BY <1>1 DEF Walking, Once
<1>3. DOMAIN bases' = {}
  BY <1>1
<1>4. LinearizedRight'
  BY ZenonT(40), <1>3 DEF LinearizedRight
<1> QED
  BY ZenonT(40), <1>2, <1>3, <1>4 DEF LInv

LEMMA CallsLinear ==
  ASSUME EInv, LInv, setSources \/ StartParse \/ ParseFile \/ Crash \/ EndAnalyze \/ StartCompile \/ Select
                     \/ GenerateFunction \/ EndGenerate \/ MergeFails
  PROVE  LInv'
<1>1. UNCHANGED <<project, scopes, bases>>
  BY ZenonT(40) DEF setSources, StartParse, ParseFile, Crash, EndAnalyze, StartCompile, Select, GenerateFunction, EndGenerate, MergeFails, Throw, names
<1>2. order' = order
  BY ZenonT(40) DEF setSources, StartParse, ParseFile, Crash, EndAnalyze, StartCompile, Select, GenerateFunction, EndGenerate, MergeFails, Throw, trees
<1>3. stage' \in {"idle", "parse", "select", "generate"}
  BY ZenonT(40) DEF setSources, StartParse, ParseFile, Crash, EndAnalyze, StartCompile, Select, GenerateFunction, EndGenerate, MergeFails, Throw,
         Return, GoTo, GoOn, Going, Doing
<1> QED
  BY ZenonT(40), <1>1, <1>2, <1>3, Returns

-----------------------------------------------------------------------------
(* resolveImports.                                                         *)

LEMMA Topo ==
  ASSUME LInv, UNCHANGED <<project, scopes, bases>>, stage' = "toposort", Once(order'), Leaves(todo', order')
  PROVE  LInv'
<1>1. stage' \notin Walking /\ stage' \notin {"syntax", "doc", "register", "perform"} /\ stage' \notin {"resolve", "merge"} /\ stage' # "merge"
  BY ZenonT(40) DEF Walking
<1>2. LinearizedRight'
  BY ZenonT(40), LinearFixed DEF LInv
<1>3. \A c \in DOMAIN bases' : IsSeq(bases[c])'
  BY ZenonT(40) DEF LInv, IsSeq, SeqSet
<1>4. Once(order)' /\ Leaves(todo, order)'
  BY ZenonT(40) DEF Once, Leaves, SeqSet
<1> QED
  BY ZenonT(40), <1>1, <1>2, <1>3, <1>4 DEF LInv

LEMMA NoLeaves == ASSUME NEW ps, NEW done PROVE Leaves(Visits(ps), done)
BY ZenonT(40) DEF Leaves, Visits

LEMMA StartAnalyzeLinear == ASSUME LInv, StartAnalyze \/ EndParse PROVE LInv'
<1>1. UNCHANGED <<project, scopes, bases>>
  BY ZenonT(40) DEF StartAnalyze, EndParse, Throw, names
<1>2. CASE stage' = "idle" /\ order' = order
  BY ZenonT(40), <1>1, <1>2, Returns
<1>3. CASE stage' = "toposort" /\ order' = <<>> /\ \E s : todo' = Visits(s)
  <2>1. Once(order') /\ Leaves(todo', order')
    BY SMTT(40), <1>3, NoLeaves DEF Once
  <2> QED
    BY ZenonT(40), <1>1, <1>3, <2>1, Topo
<1> QED
  BY ZenonT(40), <1>2, <1>3 DEF StartAnalyze, EndParse, Throw, Return, GoTo, trees

LEMMA TailLeaves ==
  ASSUME NEW items, NEW done, IsSeq(items), items # <<>>, Leaves(items, done)
  PROVE  Leaves(Tail(items), done)
<1>1. /\ Len(items) \in Nat /\ DOMAIN items = 1..Len(items) /\ DOMAIN Tail(items) = 1..(Len(items) - 1) /\ Len(items) >= 1
      /\ \A i \in 1..(Len(items) - 1) : Tail(items)[i] = items[i + 1]
  BY ZenonT(40), SeqIs, SeqTail
<1> DEFINE t == Tail(items)
<1>2. ASSUME NEW i \in DOMAIN t PROVE i + 1 \in DOMAIN items /\ t[i] = items[i + 1]
  BY SMTT(40), <1>1
<1> HIDE DEF t
<1>3. \A i, j \in DOMAIN t : i + 1 = j + 1 => i = j
  BY SMTT(40), <1>1 DEF t
<1> QED
  BY SMTT(40), <1>2, <1>3 DEF Leaves, t
LEMMA LeavesConcat ==
  ASSUME NEW s, NEW t, NEW done, IsSeq(s), IsSeq(t), Leaves(s, done), Leaves(t, done),
         \A i \in DOMAIN s, j \in DOMAIN t : s[i][1] = "leave" => s[i] # t[j]
  PROVE  Leaves(s \o t, done)
<1> DEFINE st == s \o t
<1>1. /\ Len(s) \in Nat /\ Len(t) \in Nat /\ DOMAIN s = 1..Len(s) /\ DOMAIN t = 1..Len(t) /\ DOMAIN st = 1..(Len(s) + Len(t))
      /\ \A i \in 1..(Len(s) + Len(t)) : st[i] = IF i <= Len(s) THEN s[i] ELSE t[i - Len(s)]
  BY SMTT(40), SeqIs, SeqConcat
<1> HIDE DEF st
<1>2. \A i \in DOMAIN st : \/ i \in DOMAIN s /\ st[i] = s[i]
                           \/ i - Len(s) \in DOMAIN t /\ st[i] = t[i - Len(s)]
  BY SMTT(40), <1>1
<1>3. \A i, j \in DOMAIN st : i - Len(s) = j - Len(s) => i = j
  BY SMTT(40), <1>1
<1>4. ASSUME NEW i \in DOMAIN st PROVE st[i] = <<st[i][1], st[i][2]>> /\ (st[i][1] = "leave" => st[i][2] \notin SeqSet(done))
  BY SMTT(40), <1>2 DEF Leaves
<1>5. ASSUME NEW i \in DOMAIN st, NEW j \in DOMAIN st, st[i][1] = "leave", st[j] = st[i] PROVE i = j
  <2>1. CASE i \in DOMAIN s /\ st[i] = s[i]
    <3>1. j \in DOMAIN s /\ st[j] = s[j]
      BY ZenonT(40), <1>2, <1>5, <2>1
    <3> QED
      BY ZenonT(40), <1>5, <2>1, <3>1 DEF Leaves
  <2>2. CASE i - Len(s) \in DOMAIN t /\ st[i] = t[i - Len(s)]
    <3>1. j - Len(s) \in DOMAIN t /\ st[j] = t[j - Len(s)]
      BY ZenonT(40), <1>2, <1>5, <2>2
    <3>2. i - Len(s) = j - Len(s)
      BY ZenonT(40), <1>5, <2>2, <3>1 DEF Leaves
    <3> QED
      BY ZenonT(40), <1>3, <3>2
  <2> QED
    BY ZenonT(40), <1>2, <2>1, <2>2
<1> QED
  BY ZenonT(40), <1>4, <1>5 DEF Leaves, st

LEMMA VisitLeaves ==
  ASSUME EInv, LInv, stage = "toposort", todo # <<>>, NEW p
  PROVE  Leaves(Visit(p), order)
<1>1. IsSeq(todo) /\ IsSeq(Tail(todo)) /\ Leaves(todo, order) /\ Shape
  BY ZenonT(40), SeqTail DEF EInv, Shape, LInv
<1>2. Leaves(Tail(todo), order)
  BY ZenonT(40), <1>1, TailLeaves
<1>3. CASE p \in SeqSet(order) \/ \E i \in DOMAIN todo : todo[i] = <<"leave", p>>
  BY ZenonT(40), <1>2, <1>3 DEF Visit
<1>4. CASE ~(p \in SeqSet(order) \/ \E i \in DOMAIN todo : todo[i] = <<"leave", p>>)
  <2> DEFINE nodes == IF p \in asts THEN [i \in DOMAIN NodesOf(p) |-> <<"node", <<p, i>> >>] ELSE <<>>
             one == << <<"leave", p>> >>
  <2>1. IsSeq(nodes) /\ Leaves(nodes, order) /\ \A i \in DOMAIN nodes : nodes[i][1] # "leave"
    <3>1. CASE p \in asts
      <4>1. p \in DOMAIN project.files
        BY ZenonT(40), <1>1, <3>1 DEF Shape
      <4>2. Len(NodesOf(p)) \in Nat /\ DOMAIN NodesOf(p) = 1..Len(NodesOf(p))
        BY ZenonT(40), <1>1, <4>1, NodesAre, SeqIs
      <4>3. nodes = [i \in 1..Len(NodesOf(p)) |-> nodes[i]] /\ \A i \in 1..Len(NodesOf(p)) : nodes[i] = <<"node", <<p, i>> >>
        BY ZenonT(40), <3>1, <4>2
      <4> HIDE DEF nodes
      <4>4. IsSeq(nodes) /\ DOMAIN nodes = 1..Len(NodesOf(p))
        BY ZenonT(40), <4>2, <4>3, SeqMade
      <4> QED
        BY SMTT(40), <4>3, <4>4 DEF Leaves
    <3>2. CASE p \notin asts
      <4>1. nodes = <<>>
        BY ZenonT(40), <3>2
      <4> QED
        BY SMTT(40), <4>1, EmptyIsSeq DEF Leaves
    <3> QED
      BY ZenonT(40), <3>1, <3>2
  <2>2. IsSeq(one) /\ DOMAIN one = {1} /\ one[1] = <<"leave", p>>
    BY OneIsSeq
  <2>3. Leaves(one, order)
    BY SMTT(40), <1>4, <2>2 DEF Leaves
  <2>4. Visit(p) = (nodes \o one) \o Tail(todo)
    BY ZenonT(40), <1>4 DEF Visit
  <2>5. \A j \in DOMAIN Tail(todo) : Tail(todo)[j] # <<"leave", p>>
    <3>1. SeqSet(Tail(todo)) \subseteq SeqSet(todo)
      BY ZenonT(40), <1>1, SeqTail
    <3>2. <<"leave", p>> \notin SeqSet(todo)
      BY ZenonT(40), <1>4 DEF SeqSet
    <3> QED
      BY ZenonT(40), <3>1, <3>2 DEF SeqSet
  <2> HIDE DEF nodes, one
  <2>6. IsSeq(nodes \o one) /\ Leaves(nodes \o one, order) /\ SeqSet(nodes \o one) = SeqSet(nodes) \cup SeqSet(one)
    BY ZenonT(40), <2>1, <2>2, <2>3, LeavesConcat, SeqConcat
  <2> DEFINE both == nodes \o one
  <2>7. \A i \in DOMAIN both : both[i][1] = "leave" => both[i] = <<"leave", p>>
    <3>1. \A x \in SeqSet(both) : x \in SeqSet(nodes) \/ x = <<"leave", p>>
      BY ZenonT(40), <2>2, <2>6 DEF SeqSet
    <3>2. \A x \in SeqSet(nodes) : x[1] # "leave"
      BY ZenonT(40), <2>1 DEF SeqSet
    <3> HIDE DEF both
    <3> QED
      BY ZenonT(40), <3>1, <3>2 DEF SeqSet
  <2>8. IsSeq(both) /\ Leaves(both, order)
    BY ZenonT(40), <2>6
  <2> HIDE DEF both
  <2>9. Leaves(both \o Tail(todo), order)
    BY ZenonT(40), <1>1, <1>2, <2>5, <2>7, <2>8, LeavesConcat
  <2> QED
    BY ZenonT(40), <2>4, <2>9 DEF both
<1> QED
  BY ZenonT(40), <1>3, <1>4

LEMMA TopoSortLinear == ASSUME EInv, LInv, TopoSort \/ TopoSortNode PROVE LInv'
<1>1. UNCHANGED <<project, scopes, bases, order>> /\ stage = "toposort" /\ todo # <<>>
  BY ZenonT(40) DEF TopoSort, TopoSortNode, names, trees, Doing
<1>2. CASE stage' = "idle"
  BY ZenonT(40), <1>1, <1>2, Returns
<1>3. CASE stage' = stage /\ (todo' = Tail(todo) \/ \E p : todo' = Visit(p))
  <2>1. Leaves(todo, order) /\ IsSeq(todo) /\ Once(order)
    BY ZenonT(40), <1>1 DEF EInv, Shape, LInv
  <2>2. Leaves(todo', order)
    BY ZenonT(40), <1>1, <1>3, <2>1, TailLeaves, VisitLeaves
  <2> QED
    BY ZenonT(40), <1>1, <1>3, <2>1, <2>2, Topo
<1> QED
  BY ZenonT(40), <1>2, <1>3 DEF TopoSort, TopoSortNode, Return, GoTo

LEMMA TopoSortedLinear == ASSUME EInv, LInv, TopoSorted PROVE LInv'
<1> DEFINE p == Head(todo)[2]
<1>1. /\ stage = "toposort" /\ todo # <<>> /\ todo' = Tail(todo) /\ order' = Append(order, p) /\ Head(todo)[1] = "leave"
      /\ UNCHANGED <<project, scopes, bases, stage>>
  BY ZenonT(40) DEF TopoSorted, Doing, names
<1>2. IsSeq(todo) /\ IsSeq(order) /\ Once(order) /\ Leaves(todo, order)
  BY ZenonT(40), <1>1 DEF EInv, Shape, LInv
<1>3. /\ Len(todo) \in Nat /\ Len(todo) >= 1 /\ DOMAIN todo = 1..Len(todo) /\ Head(todo) = todo[1]
      /\ DOMAIN Tail(todo) = 1..(Len(todo) - 1) /\ \A i \in 1..(Len(todo) - 1) : Tail(todo)[i] = todo[i + 1]
  BY ZenonT(40), <1>1, <1>2, SeqIs, SeqTail
<1>4. p \notin SeqSet(order) /\ \A i \in 2..Len(todo) : todo[i] # todo[1]
  <2>1. 1 \in DOMAIN todo /\ todo[1][1] = "leave"
    BY SMTT(40), <1>1, <1>3
  <2>2. \A i \in 2..Len(todo) : i \in DOMAIN todo /\ i # 1
    BY SMTT(40), <1>3
  <2> QED
    BY ZenonT(40), <1>2, <1>3, <2>1, <2>2 DEF Leaves
<1>5. Once(order')
  <2>1. /\ Len(order) \in Nat /\ DOMAIN order = 1..Len(order) /\ DOMAIN order' = 1..(Len(order) + 1)
        /\ order'[Len(order) + 1] = p /\ \A i \in 1..Len(order) : order'[i] = order[i]
    BY SMTT(40), <1>1, <1>2, SeqAppend, SeqIs
  <2>2. \A i \in DOMAIN order' : i \in DOMAIN order \/ i = Len(order) + 1
    BY SMTT(40), <2>1
  <2>3. \A i \in DOMAIN order : order'[i] = order[i] /\ order[i] # p
    BY ZenonT(40), <1>4, <2>1 DEF SeqSet
  <2> QED
    BY ZenonT(40), <1>2, <2>1, <2>2, <2>3 DEF Once
<1>6. Leaves(todo', order')
  <2>1. Leaves(Tail(todo), order)
    BY ZenonT(40), <1>1, <1>2, TailLeaves
  <2>2. SeqSet(order') = SeqSet(order) \cup {p}
    BY ZenonT(40), <1>1, <1>2, SeqAppend
  <2>3. ASSUME NEW i \in DOMAIN Tail(todo), Tail(todo)[i][1] = "leave" PROVE Tail(todo)[i][2] # p
    <3>1. i + 1 \in 2..Len(todo) /\ Tail(todo)[i] = todo[i + 1]
      BY <1>3
    <3>2. todo[i + 1] # todo[1]
      BY ZenonT(40), <1>4, <3>1
    <3>3. todo[1] = <<todo[1][1], todo[1][2]>> /\ todo[i + 1] = <<todo[i + 1][1], todo[i + 1][2]>>
      BY SMTT(40), <1>2, <1>3, <3>1 DEF Leaves
    <3> QED
      BY ZenonT(40), <1>1, <1>3, <2>3, <3>1, <3>2, <3>3
  <2> QED
    BY ZenonT(40), <1>1, <2>1, <2>2, <2>3 DEF Leaves
<1> QED
  BY ZenonT(40), <1>1, <1>5, <1>6, Topo
-----------------------------------------------------------------------------
(* The stages of analyze().                                                *)

\* No contract is linearized yet.
LEMMA Unlinearized ==
  ASSUME stage' \in {"syntax", "doc", "register", "perform"} \/ stage' \in {"idle", "resolve"}, Once(order'),
         stage' # "idle" => Once(todo') /\ DOMAIN bases' = Contracts' /\ \A p \in sources' : <<p>> \in DOMAIN scopes',
         \A c \in DOMAIN bases' : bases'[c] = <<>>
  PROVE  LInv'
<1>1. stage' # "toposort" /\ stage' # "merge" /\ (stage' \in Walking => stage' # "idle")
  BY ZenonT(40) DEF Walking
<1>2. LinearizedRight' /\ \A c \in DOMAIN bases' : IsSeq(bases[c])'
  <2>1. \A c \in DOMAIN bases' : IsSeq(bases'[c])
    BY ZenonT(40), AllSeqs
  <2>2. \A c \in DOMAIN bases' : IsSeq(bases[c])'
    BY ZenonT(40), <2>1 DEF IsSeq, SeqSet
  <2> QED
    BY ZenonT(40), <2>2, NoneLinear
<1>3. Once(order)' /\ (stage' # "idle" => Once(todo)')
  BY ZenonT(40) DEF Once
<1> QED
  BY ZenonT(40), <1>1, <1>2, <1>3 DEF LInv

LEMMA EndTopoSortLinear == ASSUME LInv, EndTopoSort PROVE LInv'
<1>1. /\ stage' = "syntax" /\ todo' = order /\ order' = order /\ bases' = [c \in Contracts |-> <<>>]
      /\ scopes' = [x \in {<<p>> : p \in sources} \cup Contracts |-> EmptyContainer]
      /\ UNCHANGED <<project, sources, asts>>
  BY ZenonT(40) DEF EndTopoSort, GoTo, trees
<1>2. Once(order') /\ Once(todo')
  BY ZenonT(40), <1>1 DEF LInv
<1>3. DOMAIN bases' = Contracts' /\ (\A p \in sources' : <<p>> \in DOMAIN scopes') /\ \A c \in DOMAIN bases' : bases'[c] = <<>>
  BY ZenonT(40), <1>1, ContractsFixed
<1> QED
  BY ZenonT(40), <1>1, <1>2, <1>3, Unlinearized

LEMMA WalkingIs ==
  ASSUME LInv, stage \in Walking
  PROVE  /\ Once(order) /\ Once(todo) /\ DOMAIN bases = Contracts /\ (\A p \in sources : <<p>> \in DOMAIN scopes)
         /\ \A c \in DOMAIN bases : IsSeq(bases[c])
         /\ stage \in {"syntax", "doc", "register", "perform"} => \A c \in DOMAIN bases : bases[c] = <<>>
BY ZenonT(40) DEF LInv

LEMMA NextStageLinear == ASSUME EInv, LInv, NextStage PROVE LInv'
<1>1. stage \in SeqSet(Stages) /\ stage # "end" /\ UNCHANGED <<snames, order>>
  BY ZenonT(40) DEF NextStage, trees, names, snames
<1>2. PICK i \in 1..13 : stage = Stages[i] /\ StageIndex(stage) = i
  <2>1. PICK i \in 1..14 : stage = Stages[i]
    BY ZenonT(40), <1>1, StagesAre DEF SeqSet
  <2>2. Stages[14] = "end"
    BY ZenonT(40) DEF Stages
  <2>3. i \in 1..13
    BY SMTT(40), <1>1, <2>1, <2>2
  <2> QED
    BY ZenonT(40), <2>1, <2>3, StagesAre
<1>3. \/ stage' = "end"
      \/ stage' = Stages[i + 1] /\ todo' = order
  BY ZenonT(40), <1>2, StagesAre DEF NextStage, GoTo
<1>4. stage \in Walking
  BY <1>2 DEF Stages, Walking
<1>5. CASE stage' = "end"
  BY ZenonT(40), <1>1, <1>5, Returns DEF snames
<1>6. CASE stage' # "end"
  <2>1. stage' = Stages[i + 1] /\ todo' = order /\ Once(todo')
    BY ZenonT(40), <1>3, <1>4, <1>6, WalkingIs
  <2>2. CASE i \in {1, 2, 3, 4}
    <3>1. stage \in {"syntax", "doc", "register", "perform"} /\ stage' \in {"syntax", "doc", "register", "perform", "resolve"}
      BY SMTT(40), <1>2, <2>1, <2>2 DEF Stages
    <3>2. DOMAIN bases' = Contracts' /\ (\A p \in sources' : <<p>> \in DOMAIN scopes') /\ \A c \in DOMAIN bases' : bases'[c] = <<>>
      BY ZenonT(40), <1>1, <1>4, <3>1, WalkingIs, ContractsFixed DEF snames
    <3>3. Once(order')
      BY ZenonT(40), <1>1 DEF LInv
    <3> QED
      BY ZenonT(40), <2>1, <3>1, <3>2, <3>3, Unlinearized
  <2>3. CASE i \notin {1, 2, 3, 4}
    <3>1. i \in 5..13
      BY <2>3
    <3>2. stage' \in Walking \ {"resolve", "merge"} /\ stage' \notin {"syntax", "doc", "register", "perform"}
      BY SMTT(40), <1>6, <2>1, <3>1 DEF Stages, Walking
    <3> QED
      BY ZenonT(40), <1>1, <1>4, <2>1, <3>2, WalkOn DEF EInv
  <2> QED
    BY ZenonT(40), <2>2, <2>3
<1> QED
  BY ZenonT(40), <1>5, <1>6

LEMMA OnceTail == ASSUME NEW s, IsSeq(s), s # <<>>, Once(s) PROVE Once(Tail(s)) /\ Head(s) \notin SeqSet(Tail(s))
<1> DEFINE t == Tail(s)
<1>1. /\ Len(s) \in Nat /\ Len(s) >= 1 /\ DOMAIN s = 1..Len(s) /\ Head(s) = s[1] /\ DOMAIN t = 1..(Len(s) - 1)
      /\ \A i \in 1..(Len(s) - 1) : t[i] = s[i + 1]
  BY ZenonT(40), SeqIs, SeqTail
<1> HIDE DEF t
<1>2. \A i \in DOMAIN t : i + 1 \in DOMAIN s /\ t[i] = s[i + 1] /\ i + 1 # 1 /\ 1 \in DOMAIN s
  BY SMTT(40), <1>1
<1>3. \A i, j \in DOMAIN t : i + 1 = j + 1 => i = j
  BY SMTT(40), <1>1
<1>4. Once(t)
  BY ZenonT(40), <1>2, <1>3 DEF Once
<1>5. Head(s) \notin SeqSet(t)
  BY SMTT(40), <1>1, <1>2 DEF Once, SeqSet
<1> QED
  BY ZenonT(40), <1>4, <1>5 DEF t

\* A stage that resolves names goes on.
LEMMA ResolveOn ==
  ASSUME Shape, LInv, UNCHANGED <<snames, order>>, stage \in {"resolve", "merge"}, stage' \in {"resolve", "merge"},
         Once(todo'), stage' = "merge" => Merging', \A c \in Contracts : bases[c] # <<>> => Resolved(c)'
  PROVE  LInv'
<1>1. /\ stage \in Walking /\ stage' \in Walking /\ stage' # "toposort" /\ stage' \notin {"syntax", "doc", "register", "perform"}
  BY ZenonT(40) DEF Walking
<1>2. LinearizedRight'
  BY ZenonT(40), LinearFixed DEF LInv, snames
<1>3. \A c \in DOMAIN bases' : IsSeq(bases[c])'
  BY ZenonT(40) DEF LInv, IsSeq, SeqSet, snames
<1>4. Once(order)' /\ Once(todo)'
  BY ZenonT(40) DEF Once, LInv
<1>5. DOMAIN bases' = Contracts' /\ (\A p \in sources' : <<p>> \in DOMAIN scopes') /\ DOMAIN bases' = Contracts
  BY ZenonT(40), <1>1, WalkingIs, ContractsFixed DEF snames
<1>6. \A c \in DOMAIN bases' : bases'[c] # <<>> => Resolved(c)'
  BY ZenonT(40), <1>5 DEF snames
<1> QED
  BY ZenonT(40), <1>1, <1>2, <1>3, <1>4, <1>5, <1>6 DEF LInv

LEMMA ResolvedIs ==
  ASSUME LInv, stage \in {"resolve", "merge"}, NEW c \in Contracts, bases[c] # <<>>
  PROVE  Resolved(c)
<1>1. stage \in Walking
  BY ZenonT(40) DEF Walking
<1> QED
  BY ZenonT(40), <1>1, WalkingIs DEF LInv

LEMMA ResolvedKept ==
  ASSUME NEW c, Resolved(c), UNCHANGED <<project, scopes, bases>>, c[1] \in SeqSet(todo') => c[1] = Head(todo') /\ c[2] < at'
  PROVE  Resolved(c)'
<1>1. Direct(c)' = Direct(c)
  BY ZenonT(40), DirectFixed
<1>2. \A b : HasLinear(b)' = HasLinear(b)
  BY ZenonT(40) DEF HasLinear
<1>3. \A i \in DOMAIN Direct(c) : HasLinear(Direct(c)[i])
  BY ZenonT(40) DEF Resolved
<1>4. \A i \in DOMAIN Direct(c)' : HasLinear(Direct(c)[i])'
  BY ZenonT(40), <1>1, <1>3 DEF HasLinear
<1> QED
  BY ZenonT(40), <1>4 DEF Resolved, SeqSet

LEMMA EndItemsLinear == ASSUME EInv, LInv, EndItems PROVE LInv'
<1>1. /\ stage \in SeqSet(Stages) \cup {"generate"} /\ todo # <<>> /\ todo' = Tail(todo) /\ stage' = stage
      /\ UNCHANGED <<snames, order>>
  BY ZenonT(40) DEF EndItems, snames, trees, names
<1>2. stage \in (Walking \ {"merge"}) \cup {"end", "generate"}
  <2>1. SeqSet(Stages) \subseteq (Walking \ {"merge"}) \cup {"end"}
    BY SMTT(40), StagesAre DEF SeqSet, Stages, Walking
  <2> QED
    BY ZenonT(40), <1>1, <2>1
<1>3. CASE stage \in {"end", "generate"}
  BY ZenonT(40), <1>1, <1>3, Returns DEF snames
<1>4. CASE stage \notin {"end", "generate"}
  <2>1. stage \in Walking /\ stage # "merge" /\ stage # "generate"
    BY ZenonT(40), <1>2, <1>4
  <2>2. IsSeq(todo) /\ Once(todo)
    BY ZenonT(40), <2>1, WalkingIs DEF EInv, Shape
  <2>3. Once(todo') /\ Head(todo) \notin SeqSet(todo')
    BY ZenonT(40), <1>1, <2>2, OnceTail
  <2>4. CASE stage # "resolve"
    BY ZenonT(40), <1>1, <2>1, <2>3, <2>4, WalkOn DEF EInv
  <2>5. CASE stage = "resolve"
    <3>1. ASSUME NEW c \in Contracts, bases[c] # <<>> PROVE Resolved(c)'
      <4>1. Resolved(c)
        BY ZenonT(40), <2>5, <3>1, ResolvedIs
      <4>2. c[1] \notin SeqSet(todo')
        <5>1. SeqSet(todo') \subseteq SeqSet(todo)
          BY ZenonT(40), <1>1, <2>2, SeqTail
        <5> QED
          BY ZenonT(40), <2>3, <4>1, <5>1 DEF Resolved
      <4> QED
        BY ZenonT(40), <1>1, <4>1, <4>2, ResolvedKept DEF snames
    <3> QED
      BY ZenonT(40), <1>1, <2>3, <2>5, <3>1, ResolveOn DEF EInv
  <2> QED
    BY ZenonT(40), <2>4, <2>5
<1> QED
  BY ZenonT(40), <1>3, <1>4
LEMMA CheckedLinear ==
  ASSUME EInv, LInv, NEW s, NEW p, NEW found, Checked(s, p, found), UNCHANGED names, stage \in Walking \ {"resolve", "merge"}
  PROVE  LInv'
<1>1. UNCHANGED <<snames, order>>
  BY ZenonT(40) DEF Checked, trees, names, snames
<1>2. CASE stage' = "end"
  BY ZenonT(40), <1>1, <1>2, Returns DEF snames
<1>3. CASE stage' = stage /\ todo' = todo
  <2>1. Once(todo')
    BY ZenonT(40), <1>3, WalkingIs
  <2> QED
    BY ZenonT(40), <1>1, <1>3, <2>1, WalkOn DEF EInv
<1> QED
  BY ZenonT(40), <1>2, <1>3 DEF Checked, GoTo, GoOn

LEMMA ChecksLinear ==
  ASSUME EInv, LInv, CheckFile \/ CheckContractLevel \/ CheckTypes \/ CheckPostTypes \/ CheckViewPure \/ CheckTvmTypes
  PROVE  LInv'
<1>1. stage \in Walking \ {"resolve", "merge"} /\ UNCHANGED names
  BY ZenonT(40) DEF CheckFile, CheckContractLevel, CheckTypes, CheckPostTypes, CheckViewPure, CheckTvmTypes, Going, Doing, Walking, names
<1>2. CASE \E s, p, found : Checked(s, p, found)
  BY ZenonT(40), <1>1, <1>2, CheckedLinear
<1>3. CASE CheckContractLevel /\ Kind(Current) # "contract"
  <2>1. UNCHANGED <<snames, order, stage, todo>> /\ stage = "level"
    BY ZenonT(40), <1>1, <1>3 DEF CheckContractLevel, Going, Doing, GoOn, trees, names, snames
  <2>2. Once(todo') /\ stage' \notin {"syntax", "doc", "register", "perform"}
    BY ZenonT(40), <1>1, <2>1, WalkingIs
  <2> QED
    BY ZenonT(40), <1>1, <2>1, <2>2, WalkOn DEF EInv
<1>4. CASE CheckContractLevel /\ Kind(Current) = "contract"
  <2>1. \E found : Checked("level", Current[1], found)
    BY ZenonT(40), <1>4 DEF CheckContractLevel
  <2> QED
    BY ZenonT(40), <1>1, <2>1, CheckedLinear
<1>5. CASE CheckFile \/ CheckTypes \/ CheckPostTypes \/ CheckViewPure \/ CheckTvmTypes
  <2>1. CASE CheckFile
    BY ZenonT(40), <1>2, <2>1 DEF CheckFile
  <2>2. CASE CheckTypes
    BY ZenonT(40), <1>2, <2>2 DEF CheckTypes
  <2>3. CASE CheckPostTypes
    BY ZenonT(40), <1>2, <2>3 DEF CheckPostTypes
  <2>4. CASE CheckViewPure
    BY ZenonT(40), <1>2, <2>4 DEF CheckViewPure
  <2>5. CASE CheckTvmTypes
    BY ZenonT(40), <1>2, <2>5 DEF CheckTvmTypes
  <2> QED
    BY ZenonT(40), <1>5, <2>1, <2>2, <2>3, <2>4, <2>5
<1> QED
  BY ZenonT(40), <1>3, <1>4, <1>5

LEMMA FlowLinear == ASSUME EInv, LInv, StartFlow \/ ContinueFlow \/ AnalyzeFlow PROVE LInv'
<1>1. UNCHANGED <<snames, order, stage, todo>> /\ stage = "flow"
  BY ZenonT(40) DEF StartFlow, ContinueFlow, AnalyzeFlow, Going, Doing, GoOn, trees, names, snames
<1>2. stage \in Walking /\ stage' \in Walking \ {"resolve", "merge"} /\ stage' \notin {"syntax", "doc", "register", "perform"}
  BY ZenonT(40), <1>1 DEF Walking
<1>3. Once(todo')
  BY ZenonT(40), <1>1, <1>2, WalkingIs
<1> QED
  BY ZenonT(40), <1>1, <1>2, <1>3, WalkOn DEF EInv

\* Registration and imports change scopes, before any contract is linearized.
LEMMA RegisterLinear == ASSUME LInv, RegisterDeclarations \/ PerformImports PROVE LInv'
<1>1. /\ stage \in {"register", "perform"} /\ UNCHANGED <<project, sources, asts, bases, order>>
      /\ DOMAIN scopes' = DOMAIN scopes
  BY ZenonT(40) DEF RegisterDeclarations, PerformImports, Going, Doing, trees
<1>2. stage \in Walking /\ stage \in {"syntax", "doc", "register", "perform"}
  BY ZenonT(40), <1>1 DEF Walking
<1>3. /\ Once(order) /\ Once(todo) /\ DOMAIN bases = Contracts /\ (\A p \in sources : <<p>> \in DOMAIN scopes)
      /\ \A c \in DOMAIN bases : bases[c] = <<>>
  BY ZenonT(40), <1>2, WalkingIs
<1>4. stage' = "idle" \/ (stage' = stage /\ todo' = todo)
  BY ZenonT(40) DEF RegisterDeclarations, PerformImports, GoOn, Return, GoTo
<1>5. stage' # "idle" => Once(todo') /\ DOMAIN bases' = Contracts' /\ \A p \in sources' : <<p>> \in DOMAIN scopes'
  BY ZenonT(40), <1>1, <1>3, <1>4, ContractsFixed
<1> QED
  BY ZenonT(40), <1>1, <1>2, <1>3, <1>4, <1>5, Unlinearized

LEMMA ResolveOtherLinear == ASSUME EInv, LInv, ResolveOther PROVE LInv'
<1>1. UNCHANGED <<snames, order, stage, todo>> /\ stage = "resolve" /\ at' = at + 1
  BY ZenonT(40) DEF ResolveOther, Going, Doing, GoOn, trees, names, snames
<1>2. stage \in Walking
  BY ZenonT(40), <1>1 DEF Walking
<1>3. Once(todo') /\ at \in Nat
  BY ZenonT(40), <1>1, <1>2, WalkingIs DEF EInv, Shape
<1>4. ASSUME NEW c \in Contracts, bases[c] # <<>> PROVE Resolved(c)'
  <2>1. Resolved(c)
    BY ZenonT(40), <1>1, <1>4, ResolvedIs
  <2>2. c[2] \in Nat
    BY SMTT(40), NodeIs, NodesAre DEF Contracts, EInv
  <2>3. c[1] \in SeqSet(todo') => c[1] = Head(todo') /\ c[2] < at'
    BY SMTT(40), <1>1, <1>3, <2>1, <2>2 DEF Resolved
  <2> QED
    BY ZenonT(40), <1>1, <2>1, <2>3, ResolvedKept DEF snames
<1> QED
  BY ZenonT(40), <1>1, <1>3, <1>4, ResolveOn DEF EInv

-----------------------------------------------------------------------------
(* cThreeMerge.                                                            *)

LEMMA MergingFixed ==
  ASSUME UNCHANGED <<snames, todo, at>>, stage \in {"resolve", "merge"}, stage' = "merge"
  PROVE  /\ Current' = Current /\ Current = NodesOf(Head(todo))[at] /\ (\A p : NodesOf(p)' = NodesOf(p))
         /\ Kind(Current)' = Kind(Current) /\ BasesFound(Current)' = BasesFound(Current)
         /\ Input(Current)' = Input(Current)
<1> USE DEF snames
<1>1. Current' = Current /\ Current = NodesOf(Head(todo))[at] /\ \A p : NodesOf(p)' = NodesOf(p)
  BY ZenonT(40) DEF Current, ItemsOf, NodesOf
<1>2. Contracts' = Contracts
  BY ZenonT(40), ContractsFixed
<1>3. BasesFound(Current)' = BasesFound(Current)
  <2>1. \A c : BasesOf(c)' = BasesOf(c)
    BY ZenonT(40) DEF BasesOf, Decl, resolveName
  <2>2. \A b : IsBase(b)' = IsBase(b)
    BY ZenonT(40), <1>2 DEF IsBase
  <2> QED
    BY ZenonT(40), <1>1, <2>1, <2>2 DEF BasesFound
<1>4. Input(Current)' = Input(Current)
  BY SMTT(40), <1>1 DEF Input, DirectBases, Decl, resolveName
<1>5. Kind(Current)' = Kind(Current)
  BY ZenonT(40), <1>1 DEF Kind, Decl
<1> QED
  BY ZenonT(40), <1>1, <1>3, <1>4, <1>5

LEMMA ResolveContractLinear == ASSUME EInv, LInv, ResolveContract PROVE LInv'
<1>1. UNCHANGED <<snames, order>> /\ stage = "resolve" /\ stage \in {"resolve", "merge"}
  BY ZenonT(40) DEF ResolveContract, Going, Doing, trees, names, snames
<1>2. CASE stage' = "idle"
  BY ZenonT(40), <1>1, <1>2, Returns DEF snames
<1>3. CASE stage' = "merge" /\ BasesFound(Current) /\ toMerge' = Input(Current) /\ result' = <<>> /\ UNCHANGED <<todo, at>>
  <2>1. Merging'
    <3>1. todo # <<>> /\ Head(todo) \in asts /\ at <= Len(NodesOf(Head(todo))) /\ Kind(Current) = "contract"
      BY ZenonT(40), <1>1 DEF ResolveContract, Going, Doing, ItemsOf
    <3>2. MergedSoFar(toMerge', <<>>)
      BY SMTT(40), EmptyIsSeq DEF MergedSoFar, Once
    <3>3. MergedSoFar(toMerge, result)'
      BY SMTT(40), <1>3, <3>2 DEF MergedSoFar, IsSeq, SeqSet, Once, Before
    <3> QED
      BY ZenonT(40), <1>1, <1>3, <3>1, <3>3, MergingFixed DEF Merging, snames
  <2>2. Once(todo')
    <3>1. stage \in Walking
      BY ZenonT(40), <1>1 DEF Walking
    <3> QED
      BY ZenonT(40), <1>3, <3>1, WalkingIs
  <2>3. ASSUME NEW c \in Contracts, bases[c] # <<>> PROVE Resolved(c)'
    <3>1. Resolved(c)
      BY ZenonT(40), <1>1, <2>3, ResolvedIs
    <3>2. c[1] \in SeqSet(todo') => c[1] = Head(todo') /\ c[2] < at'
      BY ZenonT(40), <1>3, <3>1 DEF Resolved
    <3> QED
      BY ZenonT(40), <1>1, <3>1, <3>2, ResolvedKept DEF snames
  <2> QED
    BY ZenonT(40), <1>1, <1>3, <2>1, <2>2, <2>3, ResolveOn DEF EInv
<1> QED
  BY ZenonT(40), <1>2, <1>3 DEF ResolveContract, Return, GoTo
LEMMA OnceAppend == ASSUME NEW s, NEW x, IsSeq(s), Once(s), x \notin SeqSet(s) PROVE Once(Append(s, x))
<1> DEFINE a == Append(s, x)
<1>1. /\ Len(s) \in Nat /\ DOMAIN s = 1..Len(s) /\ DOMAIN a = 1..(Len(s) + 1)
      /\ a[Len(s) + 1] = x /\ \A i \in 1..Len(s) : a[i] = s[i]
  BY SMTT(40), SeqAppend, SeqIs
<1> HIDE DEF a
<1>2. \A i \in DOMAIN a : i \in DOMAIN s \/ i = Len(s) + 1
  BY SMTT(40), <1>1
<1>3. \A i \in DOMAIN s : a[i] = s[i] /\ s[i] # x
  BY ZenonT(40), <1>1 DEF SeqSet
<1>4. Once(a)
  BY ZenonT(40), <1>1, <1>2, <1>3 DEF Once
<1> QED
  BY ZenonT(40), <1>4 DEF a

LEMMA BeforeAppend ==
  ASSUME NEW s, NEW x, IsSeq(s)
  PROVE  /\ \A y, z : Before(s, y, z) => Before(Append(s, x), y, z)
         /\ \A y \in SeqSet(s) : Before(Append(s, x), y, x)
<1> DEFINE a == Append(s, x)
<1>1. /\ Len(s) \in Nat /\ DOMAIN s = 1..Len(s) /\ DOMAIN a = 1..(Len(s) + 1)
      /\ a[Len(s) + 1] = x /\ \A i \in 1..Len(s) : a[i] = s[i]
  BY SMTT(40), SeqAppend, SeqIs
<1> HIDE DEF a
<1>2. \A i \in DOMAIN s : i \in DOMAIN a /\ a[i] = s[i] /\ i < Len(s) + 1 /\ Len(s) + 1 \in DOMAIN a
  BY SMTT(40), <1>1
<1>3. \A y, z : Before(s, y, z) => Before(a, y, z)
  BY ZenonT(40), <1>2 DEF Before
<1>4. \A y \in SeqSet(s) : Before(a, y, x)
  BY ZenonT(40), <1>1, <1>2 DEF Before, SeqSet
<1> QED
  BY ZenonT(40), <1>3, <1>4 DEF a

\* cThreeMerge places the candidate.
LEMMA PlacedNext ==
  ASSUME MergedSoFar(toMerge, result), DOMAIN toMerge \subseteq Nat, \A k \in DOMAIN toMerge : IsSeq(toMerge[k]),
         NEW k \in Candidates, NEW x \in front(k)
  PROVE  MergedSoFar(toMerge, Append(result, x))
<1> DEFINE next == Append(result, x)
<1>1. k \in DOMAIN toMerge /\ appearsOnlyAtHead(x)
  BY ZenonT(40) DEF Candidates, NotEmpty
<1>2. \A l \in DOMAIN toMerge : DOMAIN toMerge[l] \subseteq Nat
  <2> SUFFICES ASSUME NEW l \in DOMAIN toMerge PROVE DOMAIN toMerge[l] \subseteq Nat
    BY ZenonT(40)
  <2>1. DOMAIN toMerge[l] = 1..Len(toMerge[l]) /\ Len(toMerge[l]) \in Nat
    BY ZenonT(40), SeqIs
  <2> QED
    BY <2>1
<1>3. x \in SeqSet(toMerge[k]) /\ x \notin SeqSet(result)
  BY ZenonT(40) DEF front, LeastOf, Left, Placed, SeqSet
<1>4. IsSeq(result) /\ Once(result)
  BY ZenonT(40) DEF MergedSoFar
<1>5. IsSeq(next) /\ Once(next) /\ SeqSet(next) = SeqSet(result) \cup {x}
  BY ZenonT(40), <1>3, <1>4, SeqAppend, OnceAppend
<1>6. \A y \in SeqSet(next) : \E l \in DOMAIN toMerge : y \in SeqSet(toMerge[l])
  BY ZenonT(40), <1>1, <1>3, <1>5 DEF MergedSoFar
<1>7. ASSUME NEW l \in DOMAIN toMerge, NEW i \in DOMAIN toMerge[l], NEW j \in DOMAIN toMerge[l],
             i < j, toMerge[l][j] \in SeqSet(next)
      PROVE  Before(next, toMerge[l][i], toMerge[l][j])
  <2>1. CASE toMerge[l][j] \in SeqSet(result)
    <3>1. Before(result, toMerge[l][i], toMerge[l][j])
      BY ZenonT(40), <1>7, <2>1 DEF MergedSoFar
    <3> QED
      BY ZenonT(40), <1>4, <3>1, BeforeAppend
  <2>2. CASE toMerge[l][j] = x
    <3>1. j \in Left(toMerge[l])
      BY ZenonT(40), <1>3, <2>2 DEF Left, Placed
    <3>2. j \in LeastOf(Left(toMerge[l]))
      BY ZenonT(40), <1>1, <2>2, <3>1 DEF appearsOnlyAtHead
    <3>3. \A h \in Left(toMerge[l]) : j <= h
      BY ZenonT(40), <3>2 DEF LeastOf
    <3>4. i \notin Left(toMerge[l])
      <4>1. i \in Nat /\ j \in Nat
        BY ZenonT(40), <1>2
      <4>2. ~(j <= i)
        BY ZenonT(40), <1>7, <4>1, Less
      <4> QED
        BY ZenonT(40), <3>3, <4>2
    <3>5. toMerge[l][i] \in SeqSet(result)
      BY ZenonT(40), <3>4 DEF Left, Placed
    <3> QED
      BY ZenonT(40), <1>4, <2>2, <3>5, BeforeAppend
  <2> QED
    BY ZenonT(40), <1>5, <1>7, <2>1, <2>2
<1> HIDE DEF next
<1>8. MergedSoFar(toMerge, next)
  BY ZenonT(40), <1>5, <1>6, <1>7 DEF MergedSoFar
<1> QED
  BY ZenonT(40), <1>8 DEF next

\* What is merged: the linearizations of the bases, and the contract with its bases
LEMMA InputIs ==
  ASSUME Shape, NEW c \in Contracts, BasesFound(c), \A b \in Contracts : IsSeq(bases[b])
  PROVE  LET direct == Direct(c)
             n == Len(direct)
             lists == Input(c)
         IN  /\ n \in Nat /\ DOMAIN direct = 1..n
             /\ \A i \in 1..n : direct[i] \in Contracts /\ bases[direct[i]] # <<>> /\ IsSeq(bases[direct[i]])
             /\ DOMAIN lists = 1..(n + 1)
             /\ \A k \in 1..n : lists[k] = bases[direct[n + 1 - k]]
             /\ DOMAIN lists[n + 1] = 1..(n + 1) /\ lists[n + 1][1] = c
             /\ \A k \in 1..n : lists[n + 1][k + 1] = direct[n + 1 - k]
             /\ \A k \in 1..(n + 1) : IsSeq(lists[k])
<1> DEFINE direct == Direct(c)
           n == Len(direct)
           lins == [i \in 1..n |-> bases[direct[n + 1 - i]]]
           rev == [i \in 1..n |-> direct[n + 1 - i]]
           last == <<c>> \o rev
           lists == lins \o <<last>>
<1>1. n \in Nat /\ DOMAIN direct = 1..n /\ DOMAIN Decl(c).bases = 1..n
  BY ZenonT(40), DirectIs
<1>2. Input(c) = lists
  BY ZenonT(40) DEF Input, Direct
<1>3. ASSUME NEW i \in 1..n PROVE direct[i] \in Contracts /\ bases[direct[i]] # <<>> /\ IsSeq(bases[direct[i]])
  <2> DEFINE B == resolveName(scopes[<<c[1]>>], Decl(c).bases[i])
  <2>1. direct[i] = CHOOSE b \in B : TRUE
    BY ZenonT(40), <1>1 DEF Direct, DirectBases
  <2>2. i \in DOMAIN BasesOf(c) /\ BasesOf(c)[i] = B
    BY ZenonT(40), <1>1 DEF BasesOf
  <2>3. PICK b \in B : B = {b} /\ IsBase(b)
    BY ZenonT(40), <2>2 DEF BasesFound
  <2> HIDE DEF B, direct
  <2>4. direct[i] = b
    BY ZenonT(40), <2>1, <2>3
  <2> QED
    BY ZenonT(40), <2>3, <2>4 DEF IsBase
<1> HIDE DEF direct
<1>4. IsSeq(lins) /\ Len(lins) = n
  <2>1. lins = [i \in 1..n |-> lins[i]]
    BY ZenonT(40)
  <2> HIDE DEF lins, n
  <2> QED
    BY ZenonT(40), <1>1, <2>1, SeqMade
<1>5. IsSeq(rev) /\ Len(rev) = n /\ \A k \in 1..n : rev[k] = direct[n + 1 - k]
  <2>1. rev = [i \in 1..n |-> rev[i]] /\ \A k \in 1..n : rev[k] = direct[n + 1 - k]
    BY ZenonT(40)
  <2> HIDE DEF rev, n
  <2> QED
    BY ZenonT(40), <1>1, <2>1, SeqMade
<1>6. \A k \in 1..n : lins[k] = bases[direct[n + 1 - k]] /\ n + 1 - k \in 1..n /\ IsSeq(lins[k])
  <2>1. \A k \in 1..n : lins[k] = bases[direct[n + 1 - k]] /\ n + 1 - k \in 1..n
    BY SMTT(40), <1>1
  <2> HIDE DEF lins, n
  <2> QED
    BY ZenonT(40), <1>3, <2>1
<1> HIDE DEF n, lins, rev
<1>7. IsSeq(last) /\ DOMAIN last = 1..(n + 1) /\ last[1] = c /\ \A k \in 1..n : last[k + 1] = direct[n + 1 - k]
  <2> DEFINE one == <<c>>
  <2>1. IsSeq(one) /\ Len(one) = 1 /\ one[1] = c
    BY ZenonT(40), OneIsSeq
  <2> HIDE DEF one
  <2>2. last = one \o rev
    BY ZenonT(40) DEF one
  <2> HIDE DEF last
  <2>3. /\ IsSeq(last) /\ Len(last) = Len(one) + Len(rev)
        /\ \A i \in 1..(Len(one) + Len(rev)) : last[i] = IF i <= Len(one) THEN one[i] ELSE rev[i - Len(one)]
    BY ZenonT(40), <1>5, <2>1, <2>2, SeqConcat
  <2>4. IsSeq(last) /\ Len(last) = 1 + n /\ \A i \in 1..(1 + n) : last[i] = IF i <= 1 THEN one[i] ELSE rev[i - 1]
    BY ZenonT(40), <1>5, <2>1, <2>3
  <2>5. DOMAIN last = 1..(n + 1) /\ 1 \in 1..(1 + n) /\ \A k \in 1..n : k + 1 \in 1..(1 + n) /\ ~(k + 1 <= 1) /\ (k + 1) - 1 = k
    <3>1. DOMAIN last = 1..Len(last)
      BY ZenonT(40), <2>4, SeqIs
    <3> QED
      BY SMTT(40), <1>1, <2>4, <3>1
  <2>6. \A k \in 1..n : last[k + 1] = rev[k]
    BY ZenonT(40), <2>4, <2>5
  <2> QED
    BY SMTT(40), <1>5, <2>1, <2>4, <2>5, <2>6
<1> HIDE DEF last
<1>8. /\ DOMAIN lists = 1..(n + 1) /\ lists[n + 1] = last /\ \A k \in 1..n : lists[k] = lins[k]
  <2> DEFINE one == <<last>>
  <2>1. IsSeq(one) /\ Len(one) = 1 /\ one[1] = last
    BY ZenonT(40), OneIsSeq
  <2> HIDE DEF one
  <2>2. /\ IsSeq(lins \o one) /\ Len(lins \o one) = n + 1
        /\ \A i \in 1..(n + 1) : (lins \o one)[i] = IF i <= n THEN lins[i] ELSE one[i - n]
    BY ZenonT(40), <1>4, <2>1, SeqConcat
  <2>3. lists = lins \o one
    BY ZenonT(40) DEF one
  <2> HIDE DEF lists
  <2>4. IsSeq(lists) /\ Len(lists) = n + 1 /\ \A i \in 1..(n + 1) : lists[i] = IF i <= n THEN lins[i] ELSE one[i - n]
    BY ZenonT(40), <2>2, <2>3
  <2>5. DOMAIN lists = 1..(n + 1) /\ n + 1 \in 1..(n + 1) /\ ~(n + 1 <= n) /\ (n + 1) - n = 1 /\ \A k \in 1..n : k \in 1..(n + 1) /\ k <= n
    <3>1. DOMAIN lists = 1..Len(lists)
      BY ZenonT(40), <2>4, SeqIs
    <3> QED
      BY SMTT(40), <1>1, <2>4, <3>1
  <2>6. lists[n + 1] = one[1] /\ \A k \in 1..n : lists[k] = lins[k]
    BY ZenonT(40), <2>4, <2>5
  <2> QED
    BY ZenonT(40), <2>1, <2>5, <2>6
<1> HIDE DEF lists
<1>9. \A k \in 1..(n + 1) : IsSeq(lists[k])
  <2>1. \A k \in 1..(n + 1) : k \in 1..n \/ k = n + 1
    BY SMTT(40), <1>1
  <2> QED
    BY ZenonT(40), <1>6, <1>7, <1>8, <2>1
<1>10. /\ n \in Nat /\ DOMAIN direct = 1..n
       /\ \A i \in 1..n : direct[i] \in Contracts /\ bases[direct[i]] # <<>> /\ IsSeq(bases[direct[i]])
       /\ DOMAIN Input(c) = 1..(n + 1)
       /\ \A k \in 1..n : Input(c)[k] = bases[direct[n + 1 - k]]
       /\ DOMAIN Input(c)[n + 1] = 1..(n + 1) /\ Input(c)[n + 1][1] = c
       /\ \A k \in 1..n : Input(c)[n + 1][k + 1] = direct[n + 1 - k]
       /\ \A k \in 1..(n + 1) : IsSeq(Input(c)[k])
  BY ZenonT(40), <1>1, <1>2, <1>3, <1>6, <1>7, <1>8, <1>9
<1> QED
  BY ZenonT(40), <1>10 DEF direct, n
LEMMA MergingIs ==
  ASSUME EInv, LInv, stage = "merge"
  PROVE  /\ Current = <<Head(todo), at>> /\ Current \in Contracts /\ Kind(Current) = "contract" /\ BasesFound(Current)
         /\ Head(todo) \in SeqSet(todo) /\ toMerge = Input(Current) /\ MergedSoFar(toMerge, result)
         /\ bases[Current] = <<>> /\ \A b \in Contracts : IsSeq(bases[b])
<1>1. /\ todo # <<>> /\ Head(todo) \in asts /\ at <= Len(NodesOf(Head(todo))) /\ Kind(Current) = "contract"
      /\ BasesFound(Current) /\ toMerge = Input(Current) /\ MergedSoFar(toMerge, result)
  BY ZenonT(40) DEF LInv, Merging
<1> DEFINE p == Head(todo)
<1>2. Current = NodesOf(p)[at]
  BY ZenonT(40) DEF Current, ItemsOf
<1>3. at \in 1..Len(project.files[p]) /\ p \in DOMAIN project.files
  <2>1. at \in Nat \ {0} /\ p \in DOMAIN project.files
    BY ZenonT(40), <1>1 DEF EInv, Shape
  <2> QED
    BY SMTT(40), <1>1, <2>1, NodesAre DEF EInv
<1>4. Current = <<p, at>> /\ Current \in SeqSet(NodesOf(p))
  <2>1. NodesOf(p)[at] = <<p, at>> /\ at \in DOMAIN NodesOf(p)
    BY ZenonT(40), <1>3, NodesAre DEF EInv, NodesOf
  <2> QED
    BY ZenonT(40), <1>2, <2>1 DEF SeqSet
<1>5. Current \in Contracts
  BY ZenonT(40), <1>1, <1>4 DEF Contracts, Nodes
<1>6. p \in SeqSet(todo)
  BY SMTT(40), <1>1, SeqIs DEF EInv, Shape
<1>7. bases[Current] = <<>>
  <2> SUFFICES ASSUME bases[Current] # <<>> PROVE FALSE
    BY ZenonT(40)
  <2>1. Resolved(Current)
    BY ZenonT(40), <1>5, ResolvedIs
  <2>2. Current[1] = p /\ Current[2] = at
    BY ZenonT(40), <1>4
  <2>3. at < at
    BY ZenonT(40), <1>6, <2>1, <2>2 DEF Resolved
  <2> QED
    BY SMTT(40), <1>3, <2>3
<1>8. \A b \in Contracts : IsSeq(bases[b])
  <2>1. stage \in Walking
    BY ZenonT(40) DEF Walking
  <2> QED
    BY ZenonT(40), <2>1, WalkingIs
<1> QED
  BY ZenonT(40), <1>1, <1>4, <1>5, <1>6, <1>7, <1>8

LEMMA PlaceCandidateLinear == ASSUME EInv, LInv, PlaceCandidate PROVE LInv'
<1>1. /\ UNCHANGED <<snames, order, stage, todo, at, toMerge>> /\ stage = "merge"
      /\ \E k \in Candidates : \E x \in front(k) : result' = Append(result, x)
  <2>1. UNCHANGED <<snames, order, stage, todo, at, toMerge>> /\ stage = "merge"
    BY ZenonT(40) DEF PlaceCandidate, trees, names, snames
  <2>2. LeastOf(Candidates) \subseteq Candidates
    BY ZenonT(40) DEF LeastOf
  <2> QED
    BY ZenonT(40), <2>1, <2>2 DEF PlaceCandidate
<1>2. MergedSoFar(toMerge, result')
  <2> DEFINE n == Len(Direct(Current))
  <2>1. n \in Nat /\ DOMAIN toMerge = 1..(n + 1) /\ \A k \in 1..(n + 1) : IsSeq(toMerge[k])
    BY ZenonT(40), <1>1, MergingIs, InputIs DEF EInv
  <2> HIDE DEF n
  <2>2. DOMAIN toMerge \subseteq Nat /\ \A k \in DOMAIN toMerge : IsSeq(toMerge[k])
    <3>1. 1..(n + 1) \subseteq Nat
      BY <2>1
    <3> QED
      BY ZenonT(40), <2>1, <3>1
  <2>3. MergedSoFar(toMerge, result)
    BY ZenonT(40), <1>1, MergingIs
  <2> QED
    BY ZenonT(40), <1>1, <2>2, <2>3, PlacedNext
<1>3. Merging'
  <2>1. MergedSoFar(toMerge, result)'
    <3>1. toMerge' = toMerge
      BY ZenonT(40), <1>1
    <3> QED
      BY ZenonT(40), <1>2, <3>1, MergedFixed
  <2>2. Merging
    BY ZenonT(40), <1>1 DEF LInv
  <2> QED
    BY ZenonT(40), <1>1, <2>1, <2>2, MergingFixed DEF Merging, snames
<1>4. Once(todo')
  <2>1. stage \in Walking
    BY ZenonT(40), <1>1 DEF Walking
  <2> QED
    BY ZenonT(40), <1>1, <2>1, WalkingIs
<1>5. ASSUME NEW c \in Contracts, bases[c] # <<>> PROVE Resolved(c)'
  <2>1. Resolved(c)
    BY ZenonT(40), <1>1, <1>5, ResolvedIs
  <2>2. c[1] \in SeqSet(todo') => c[1] = Head(todo') /\ c[2] < at'
    BY ZenonT(40), <1>1, <2>1 DEF Resolved
  <2> QED
    BY ZenonT(40), <1>1, <2>1, <2>2, ResolvedKept DEF snames
<1> QED
  BY ZenonT(40), <1>1, <1>3, <1>4, <1>5, ResolveOn DEF EInv

\* IsLinearization, of given bases
Linear(c, list, direct, bs) ==
  /\ list[1] = c
  /\ Once(list)
  /\ SeqSet(list) = {c} \cup UNION {SeqSet(bs[direct[i]]) : i \in DOMAIN direct}
  /\ \A i \in DOMAIN direct : \A j, k \in DOMAIN bs[direct[i]] :
       j < k => Before(list, bs[direct[i]][j], bs[direct[i]][k])
  /\ \A i, j \in DOMAIN direct : i < j => Before(list, direct[j], direct[i])

LEMMA LinearIs ==
  /\ LinearizedRight = \A c \in DOMAIN bases : bases[c] # <<>> => Linear(c, bases[c], Direct(c), bases)
  /\ LinearizedRight' = \A c \in DOMAIN bases' : bases'[c] # <<>> => Linear(c, bases'[c], Direct(c)', bases')
BY ZenonT(40) DEF LinearizedRight, IsLinearization, Linear, Once, Direct

LEMMA LinearKept ==
  ASSUME NEW c, NEW list, NEW direct, NEW bs, NEW now, Linear(c, list, direct, bs), \A i \in DOMAIN direct : now[direct[i]] = bs[direct[i]]
  PROVE  Linear(c, list, direct, now)
<1>1. {SeqSet(now[direct[i]]) : i \in DOMAIN direct} = {SeqSet(bs[direct[i]]) : i \in DOMAIN direct}
  BY ZenonT(40)
<1>2. \A i \in DOMAIN direct : \A j, k \in DOMAIN now[direct[i]] :
        j < k => Before(list, now[direct[i]][j], now[direct[i]][k])
  BY ZenonT(40) DEF Linear
<1> QED
  BY ZenonT(40), <1>1, <1>2 DEF Linear

LEMMA Mirror ==
  ASSUME NEW n \in Nat, NEW i \in 1..n
  PROVE  /\ n + 1 - i \in 1..n /\ n + 1 - i \in 1..(n + 1) /\ n + 1 - (n + 1 - i) = i
         /\ n + 1 - i + 1 \in 1..(n + 1) /\ 1 < n + 1 - i + 1
         /\ \A j \in 1..n : i < j => n + 1 - j + 1 < n + 1 - i + 1
OBVIOUS

LEMMA Ends ==
  ASSUME NEW n \in Nat
  PROVE  /\ n + 1 \in 1..(n + 1) /\ 1 \in 1..(n + 1)
         /\ \A k \in 1..(n + 1) : k # n + 1 => k \in 1..n /\ n + 1 - k \in 1..n
OBVIOUS

LEMMA Second ==
  ASSUME NEW s, NEW n \in Nat, DOMAIN s = 1..n, NEW i \in DOMAIN s, NEW j \in DOMAIN s, i < j
  PROVE  1 \in DOMAIN s /\ j # 1
OBVIOUS

\* All lists are merged: the result is a linearization.
LEMMA MergedLinear ==
  ASSUME NEW c, NEW direct, NEW bs, NEW n \in Nat, NEW lists, NEW placed, MergedSoFar(lists, placed),
         DOMAIN direct = 1..n, DOMAIN lists = 1..(n + 1),
         \A k \in 1..n : lists[k] = bs[direct[n + 1 - k]],
         DOMAIN lists[n + 1] = 1..(n + 1), lists[n + 1][1] = c, \A k \in 1..n : lists[n + 1][k + 1] = direct[n + 1 - k],
         \A k \in 1..(n + 1) : IsSeq(lists[k]),
         \A i \in 1..n : bs[direct[i]] # <<>> /\ bs[direct[i]][1] = direct[i],
         \A k \in DOMAIN lists : SeqSet(lists[k]) \subseteq SeqSet(placed)
  PROVE  Linear(c, placed, direct, bs)
<1>1. IsSeq(placed) /\ Once(placed) /\ Len(placed) \in Nat /\ DOMAIN placed = 1..Len(placed)
  BY ZenonT(40), SeqIs DEF MergedSoFar
<1>2. ASSUME NEW k \in 1..(n + 1), NEW i \in DOMAIN lists[k], NEW j \in DOMAIN lists[k], i < j
      PROVE  Before(placed, lists[k][i], lists[k][j])
  <2>1. lists[k][j] \in SeqSet(placed)
    BY ZenonT(40) DEF SeqSet
  <2> QED
    BY ZenonT(40), <1>2, <2>1 DEF MergedSoFar
<1>3. \A i \in 1..n : n + 1 - i \in 1..n /\ n + 1 - (n + 1 - i) = i /\ n + 1 - i \in 1..(n + 1)
  BY ZenonT(40), Mirror
<1>4. \A i \in 1..n : lists[n + 1 - i] = bs[direct[i]] /\ lists[n + 1][n + 1 - i + 1] = direct[i]
  <2> SUFFICES ASSUME NEW i \in 1..n PROVE lists[n + 1 - i] = bs[direct[i]] /\ lists[n + 1][n + 1 - i + 1] = direct[i]
    BY ZenonT(40)
  <2> DEFINE k == n + 1 - i
  <2>1. k \in 1..n /\ n + 1 - k = i
    BY ZenonT(40), Mirror
  <2> HIDE DEF k
  <2>2. lists[k] = bs[direct[i]] /\ lists[n + 1][k + 1] = direct[i]
    BY ZenonT(40), <2>1
  <2> QED
    BY ZenonT(40), <2>2 DEF k
<1>5. \A i \in 1..n : IsSeq(bs[direct[i]]) /\ 1 \in DOMAIN bs[direct[i]] /\ direct[i] \in SeqSet(bs[direct[i]])
  <2> SUFFICES ASSUME NEW i \in 1..n PROVE IsSeq(bs[direct[i]]) /\ 1 \in DOMAIN bs[direct[i]] /\ direct[i] \in SeqSet(bs[direct[i]])
    BY ZenonT(40)
  <2>1. IsSeq(bs[direct[i]]) /\ bs[direct[i]] # <<>> /\ bs[direct[i]][1] = direct[i]
    BY ZenonT(40), <1>3, <1>4
  <2>2. 1 \in DOMAIN bs[direct[i]]
    BY ZenonT(40), <2>1, First
  <2> QED
    BY ZenonT(40), <2>1, <2>2 DEF SeqSet
<1>6. \A y : ~Before(placed, y, placed[1])
  <2> SUFFICES ASSUME NEW i \in DOMAIN placed, NEW j \in DOMAIN placed, i < j, placed[j] = placed[1] PROVE FALSE
    BY ZenonT(40) DEF Before
  <2>1. 1 \in DOMAIN placed /\ j # 1
    BY ZenonT(40), <1>1, Second
  <2> QED
    BY ZenonT(40), <1>1, <2>1 DEF Once
<1>7. c \in SeqSet(placed)
  <2>1. n + 1 \in DOMAIN lists /\ 1 \in DOMAIN lists[n + 1]
    BY ZenonT(40), Ends
  <2>2. c \in SeqSet(lists[n + 1])
    BY ZenonT(40), <2>1 DEF SeqSet
  <2> QED
    BY ZenonT(40), <2>1, <2>2
<1>8. ASSUME NEW i \in 1..n PROVE Before(placed, c, direct[i])
  <2>1. n + 1 \in 1..(n + 1) /\ 1 \in DOMAIN lists[n + 1] /\ n + 1 - i + 1 \in DOMAIN lists[n + 1] /\ 1 < n + 1 - i + 1
    BY ZenonT(40), Ends, Mirror
  <2>2. Before(placed, lists[n + 1][1], lists[n + 1][n + 1 - i + 1])
    BY ZenonT(40), <1>2, <2>1
  <2> QED
    BY ZenonT(40), <1>4, <2>2
<1>9. placed[1] = c
  <2>1. placed # <<>> /\ placed[1] \in SeqSet(placed)
    <3>1. placed # <<>>
      BY ZenonT(40), <1>7, EmptyIsSeq
    <3> QED
      BY ZenonT(40), <1>1, <3>1, First
  <2>2. PICK k \in 1..(n + 1) : placed[1] \in SeqSet(lists[k])
    BY ZenonT(40), <2>1 DEF MergedSoFar
  <2>3. PICK j \in DOMAIN lists[k] : placed[1] = lists[k][j]
    BY ZenonT(40), <2>2 DEF SeqSet
  <2>4. 1 \in DOMAIN lists[k] /\ j \in Nat /\ (j = 1 \/ 1 < j)
    <3>1. DOMAIN lists[k] = 1..Len(lists[k]) /\ Len(lists[k]) \in Nat
      BY ZenonT(40), SeqIs
    <3> QED
      BY ZenonT(40), <3>1, OneUpTo
  <2>5. j = 1
    <3>1. ~(1 < j)
      BY ZenonT(40), <1>2, <1>6, <2>3, <2>4
    <3> QED
      BY ZenonT(40), <2>4, <3>1
  <2>6. CASE k = n + 1
    BY ZenonT(40), <2>3, <2>5, <2>6
  <2>7. CASE k # n + 1
    <3>1. k \in 1..n /\ n + 1 - k \in 1..n
      BY ZenonT(40), <2>7, Ends
    <3>2. placed[1] = direct[n + 1 - k]
      BY ZenonT(40), <2>3, <2>5, <3>1
    <3>3. Before(placed, c, placed[1])
      BY ZenonT(40), <1>8, <3>1, <3>2
    <3> QED
      BY ZenonT(40), <1>6, <3>3
  <2> QED
    BY ZenonT(40), <2>6, <2>7
<1>10. SeqSet(placed) = {c} \cup UNION {SeqSet(bs[direct[i]]) : i \in DOMAIN direct}
  <2> DEFINE all == UNION {SeqSet(bs[direct[i]]) : i \in DOMAIN direct}
  <2>1. ASSUME NEW x \in SeqSet(placed) PROVE x = c \/ x \in all
    <3>1. PICK k \in 1..(n + 1) : x \in SeqSet(lists[k])
      BY ZenonT(40) DEF MergedSoFar
    <3>2. CASE k = n + 1
      <4>1. PICK j \in 1..(n + 1) : x = lists[n + 1][j]
        BY ZenonT(40), <3>1, <3>2 DEF SeqSet
      <4>2. CASE j = 1
        BY ZenonT(40), <4>1, <4>2
      <4>3. CASE j # 1
        <5>1. j - 1 \in 1..n /\ (j - 1) + 1 = j /\ n + 1 - (j - 1) \in 1..n
          BY SMTT(40), <4>3
        <5>2. lists[n + 1][(j - 1) + 1] = direct[n + 1 - (j - 1)]
          BY ZenonT(40), <5>1
        <5>3. x = direct[n + 1 - (j - 1)]
          BY ZenonT(40), <4>1, <5>1, <5>2
        <5> QED
          BY ZenonT(40), <1>5, <5>1, <5>3
      <4> QED
        BY ZenonT(40), <4>2, <4>3
    <3>3. CASE k # n + 1
      <4>1. k \in 1..n /\ n + 1 - k \in 1..n
        BY ZenonT(40), <3>3, Ends
      <4>2. x \in SeqSet(bs[direct[n + 1 - k]])
        BY ZenonT(40), <3>1, <4>1
      <4> QED
        BY ZenonT(40), <4>1, <4>2
    <3> QED
      BY ZenonT(40), <3>2, <3>3
  <2>2. ASSUME NEW x \in all PROVE x \in SeqSet(placed)
    <3>1. PICK i \in 1..n : x \in SeqSet(bs[direct[i]])
      OBVIOUS
    <3>2. x \in SeqSet(lists[n + 1 - i]) /\ n + 1 - i \in DOMAIN lists
      BY ZenonT(40), <1>3, <1>4, <3>1
    <3> QED
      BY ZenonT(40), <3>2
  <2> QED
    BY ZenonT(40), <1>7, <2>1, <2>2
<1>11. ASSUME NEW i \in DOMAIN direct, NEW j \in DOMAIN bs[direct[i]], NEW k \in DOMAIN bs[direct[i]], j < k
       PROVE  Before(placed, bs[direct[i]][j], bs[direct[i]][k])
  <2>1. n + 1 - i \in 1..(n + 1) /\ lists[n + 1 - i] = bs[direct[i]]
    BY ZenonT(40), <1>3, <1>4
  <2> QED
    BY ZenonT(40), <1>2, <1>11, <2>1
<1>12. ASSUME NEW i \in DOMAIN direct, NEW j \in DOMAIN direct, i < j PROVE Before(placed, direct[j], direct[i])
  <2>1. /\ n + 1 \in 1..(n + 1) /\ n + 1 - i + 1 \in DOMAIN lists[n + 1] /\ n + 1 - j + 1 \in DOMAIN lists[n + 1]
        /\ n + 1 - j + 1 < n + 1 - i + 1
    <3>1. i \in 1..n /\ j \in 1..n /\ n + 1 \in 1..(n + 1)
      OBVIOUS
    <3> QED
      BY ZenonT(40), <1>12, <3>1, Mirror
  <2>2. Before(placed, lists[n + 1][n + 1 - j + 1], lists[n + 1][n + 1 - i + 1])
    BY ZenonT(40), <1>2, <2>1
  <2> QED
    BY ZenonT(40), <1>4, <2>2
<1> QED
  BY ZenonT(40), <1>1, <1>9, <1>10, <1>11, <1>12 DEF Linear
DirectOf(list, con) == [i \in DOMAIN list |-> CHOOSE b \in resolveName(con, list[i]) : TRUE]
LEMMA DirectOfIs ==
  ASSUME NEW c
  PROVE  Direct(c) = DirectOf(Decl(c).bases, scopes[<<c[1]>>]) /\ Direct(c)' = DirectOf(Decl(c)'.bases, scopes'[<<c[1]>>])
BY ZenonT(40) DEF Direct, DirectBases, DirectOf

LEMMA LinearizedLinear == ASSUME EInv, LInv, Linearized PROVE LInv'
<1> DEFINE c == Current
           n == Len(Direct(c))
<1>1. /\ stage = "merge" /\ NotEmpty = {} /\ bases' = [bases EXCEPT ![c] = result] /\ \E con : scopes' = [scopes EXCEPT ![c] = con]
      /\ UNCHANGED <<project, sources, asts, order>>
      /\ stage' = "idle" \/ (stage' = "resolve" /\ at' = at + 1 /\ todo' = todo)
  BY ZenonT(40) DEF Linearized, Return, GoTo, trees
<1>2. /\ c = <<Head(todo), at>> /\ c \in Contracts /\ BasesFound(c) /\ Head(todo) \in SeqSet(todo)
      /\ toMerge = Input(c) /\ MergedSoFar(toMerge, result) /\ bases[c] = <<>> /\ \A b \in Contracts : IsSeq(bases[b])
  BY ZenonT(40), <1>1, MergingIs
<1>3. /\ stage \in Walking /\ Once(order) /\ Once(todo) /\ DOMAIN bases = Contracts /\ \A p \in sources : <<p>> \in DOMAIN scopes
  <2>1. stage \in Walking
    BY ZenonT(40), <1>1 DEF Walking
  <2> QED
    BY ZenonT(40), <2>1, WalkingIs
<1> HIDE DEF c
<1>4. \A d \in Contracts : Direct(d)' = Direct(d)
  <2> SUFFICES ASSUME NEW d \in Contracts PROVE Direct(d)' = Direct(d)
    BY ZenonT(40)
  <2>1. d[1] \in sources
    BY ZenonT(40), NodeIs DEF Contracts, EInv
  <2>2. <<d[1]>> # c
    <3>1. Len(<<d[1]>>) = 1 /\ Len(<<Head(todo), at>>) = 2
      BY ZenonT(40)
    <3> QED
      BY ZenonT(40), <1>2, <3>1
  <2>3. scopes'[<<d[1]>>] = scopes[<<d[1]>>]
    BY ZenonT(40), <1>1, <1>3, <2>1, <2>2
  <2>4. Decl(d)' = Decl(d)
    BY ZenonT(40), <1>1 DEF Decl
  <2> QED
    BY ZenonT(40), <2>3, <2>4, DirectOfIs
<1>5. /\ n \in Nat /\ DOMAIN Direct(c) = 1..n
      /\ \A i \in 1..n : Direct(c)[i] \in Contracts /\ bases[Direct(c)[i]] # <<>> /\ IsSeq(bases[Direct(c)[i]])
      /\ DOMAIN toMerge = 1..(n + 1)
      /\ \A k \in 1..n : toMerge[k] = bases[Direct(c)[n + 1 - k]]
      /\ DOMAIN toMerge[n + 1] = 1..(n + 1) /\ toMerge[n + 1][1] = c
      /\ \A k \in 1..n : toMerge[n + 1][k + 1] = Direct(c)[n + 1 - k]
      /\ \A k \in 1..(n + 1) : IsSeq(toMerge[k])
  <2>1. /\ n \in Nat /\ DOMAIN Direct(c) = 1..n
        /\ \A i \in 1..n : Direct(c)[i] \in Contracts /\ bases[Direct(c)[i]] # <<>> /\ IsSeq(bases[Direct(c)[i]])
        /\ DOMAIN Input(c) = 1..(n + 1)
        /\ \A k \in 1..n : Input(c)[k] = bases[Direct(c)[n + 1 - k]]
        /\ DOMAIN Input(c)[n + 1] = 1..(n + 1) /\ Input(c)[n + 1][1] = c
        /\ \A k \in 1..n : Input(c)[n + 1][k + 1] = Direct(c)[n + 1 - k]
        /\ \A k \in 1..(n + 1) : IsSeq(Input(c)[k])
    BY ZenonT(40), <1>2, InputIs DEF EInv
  <2> HIDE DEF n
  <2> QED
    BY ZenonT(40), <1>2, <2>1
<1> HIDE DEF n
<1>6. \A d \in Contracts : bases[d] # <<>> => Linear(d, bases[d], Direct(d), bases)
  <2>1. LinearizedRight
    BY ZenonT(40) DEF LInv
  <2> QED
    BY ZenonT(40), <1>3, <2>1, LinearIs
<1>7. Linear(c, result, Direct(c), bases)
  <2>1. \A i \in 1..n : bases[Direct(c)[i]] # <<>> /\ bases[Direct(c)[i]][1] = Direct(c)[i]
    BY ZenonT(40), <1>5, <1>6 DEF Linear
  <2>2. \A k \in DOMAIN toMerge : SeqSet(toMerge[k]) \subseteq SeqSet(result)
    <3> SUFFICES ASSUME NEW k \in DOMAIN toMerge, NEW i \in DOMAIN toMerge[k] PROVE toMerge[k][i] \in SeqSet(result)
      BY ZenonT(40) DEF SeqSet
    <3>1. Left(toMerge[k]) = {}
      BY ZenonT(40), <1>1 DEF NotEmpty
    <3> QED
      BY ZenonT(40), <3>1 DEF Left, Placed
  <2> QED
    BY ZenonT(40), <1>2, <1>5, <2>1, <2>2, MergedLinear
<1>8. /\ DOMAIN bases' = Contracts /\ bases'[c] = result /\ \A d \in Contracts : d # c => bases'[d] = bases[d]
  BY ZenonT(40), <1>1, <1>2, <1>3
<1>9. \A d \in Contracts : bases[d] # <<>> => bases'[d] = bases[d] /\ d # c
  BY ZenonT(40), <1>2, <1>8
<1>10. \A d \in Contracts : bases[d] # <<>> => Resolved(d)
  BY ZenonT(40), <1>1, ResolvedIs
<1>11. \A d \in Contracts : bases'[d] # <<>> => \A i \in DOMAIN Direct(d) : Direct(d)[i] \in Contracts /\ bases[Direct(d)[i]] # <<>>
  <2> SUFFICES ASSUME NEW d \in Contracts, bases'[d] # <<>>
               PROVE  \A i \in DOMAIN Direct(d) : Direct(d)[i] \in Contracts /\ bases[Direct(d)[i]] # <<>>
    BY ZenonT(40)
  <2>1. CASE d = c
    BY ZenonT(40), <1>5, <2>1
  <2>2. CASE d # c
    BY ZenonT(40), <1>3, <1>8, <1>10, <2>2 DEF Resolved, HasLinear
  <2> QED
    BY ZenonT(40), <2>1, <2>2
<1>12. LinearizedRight'
  <2> SUFFICES ASSUME NEW d \in Contracts, bases'[d] # <<>> PROVE Linear(d, bases'[d], Direct(d)', bases')
    BY ZenonT(40), <1>8, LinearIs
  <2>1. Linear(d, bases'[d], Direct(d), bases)
    <3>1. CASE d = c
      BY ZenonT(40), <1>7, <1>8, <3>1
    <3>2. CASE d # c
      BY ZenonT(40), <1>6, <1>8, <3>2
    <3> QED
      BY ZenonT(40), <3>1, <3>2
  <2>2. \A i \in DOMAIN Direct(d) : bases'[Direct(d)[i]] = bases[Direct(d)[i]]
    BY ZenonT(40), <1>9, <1>11
  <2>3. Linear(d, bases'[d], Direct(d), bases')
    BY ZenonT(40), <2>1, <2>2, LinearKept
  <2> QED
    BY ZenonT(40), <1>4, <2>3
<1>13. \A d \in DOMAIN bases' : IsSeq(bases[d])'
  <2>1. IsSeq(result)
    BY ZenonT(40), <1>2 DEF MergedSoFar
  <2>2. \A d \in DOMAIN bases' : IsSeq(bases'[d])
    BY ZenonT(40), <1>2, <1>8, <2>1
  <2> QED
    BY ZenonT(40), <2>2 DEF IsSeq, SeqSet
<1>14. Once(order)'
  BY ZenonT(40), <1>1, <1>3 DEF Once
<1>15. CASE stage' = "idle"
  <2>1. /\ stage' \notin Walking /\ stage' # "toposort" /\ stage' \notin {"syntax", "doc", "register", "perform"}
        /\ stage' \notin {"resolve", "merge"} /\ stage' # "merge"
    BY ZenonT(40), <1>15 DEF Walking
  <2> QED
    BY ZenonT(40), <1>12, <1>13, <1>14, <2>1 DEF LInv
<1>16. CASE stage' = "resolve" /\ at' = at + 1 /\ todo' = todo
  <2>1. stage' # "toposort" /\ stage' # "merge" /\ stage' \notin {"syntax", "doc", "register", "perform"}
    BY ZenonT(40), <1>16
  <2>2. Once(todo)' /\ DOMAIN bases' = Contracts' /\ \A p \in sources' : <<p>> \in DOMAIN scopes'
    BY ZenonT(40), <1>1, <1>3, <1>8, <1>16, ContractsFixed DEF Once
  <2>3. ASSUME NEW d \in Contracts, bases'[d] # <<>> PROVE Resolved(d)'
    <3>1. \A i \in DOMAIN Direct(d) : Direct(d)[i] \in Contracts /\ bases'[Direct(d)[i]] # <<>>
      BY ZenonT(40), <1>9, <1>11, <2>3
    <3>2. \A i \in DOMAIN Direct(d)' : HasLinear(Direct(d)[i])'
      BY ZenonT(40), <1>4, <1>8, <3>1 DEF HasLinear
    <3>3. d[1] \in SeqSet(todo) => d[1] = Head(todo) /\ d[2] < at + 1
      <4>1. at \in Nat /\ d[2] \in Nat
        BY SMTT(40), NodeIs, NodesAre DEF Contracts, EInv, Shape
      <4>2. CASE d = c
        <5>1. d[1] = Head(todo) /\ d[2] = at
          BY ZenonT(40), <1>2, <4>2
        <5> QED
          BY ZenonT(40), <4>1, <5>1, Less
      <4>3. CASE d # c
        <5>1. Resolved(d)
          BY ZenonT(40), <1>8, <1>10, <2>3, <4>3
        <5> QED
          BY ZenonT(40), <4>1, <5>1, Less DEF Resolved
      <4> QED
        BY ZenonT(40), <4>2, <4>3
    <3>4. d[1] \in SeqSet(todo') => d[1] = Head(todo') /\ d[2] < at'
      BY ZenonT(40), <1>16, <3>3
    <3> QED
      BY ZenonT(40), <3>2, <3>4 DEF Resolved, SeqSet
  <2>4. \A d \in DOMAIN bases' : bases'[d] # <<>> => Resolved(d)'
    BY ZenonT(40), <1>8, <2>3
  <2> QED
    BY ZenonT(40), <1>12, <1>13, <1>14, <2>1, <2>2, <2>4 DEF LInv
<1> QED
  BY ZenonT(40), <1>1, <1>15, <1>16

-----------------------------------------------------------------------------
(* The theorem.                                                            *)

LEMMA InitLinear == Init => LInv
<1> SUFFICES ASSUME Init PROVE LInv
  BY ZenonT(40)
<1>1. stage = "idle" /\ order = <<>> /\ bases = <<>>
  BY ZenonT(40) DEF Init
<1>2. stage \notin Walking \cup {"toposort", "syntax", "doc", "register", "perform", "resolve", "merge"} /\ Once(order)
  BY SMTT(40), <1>1 DEF Walking, Once
<1>3. DOMAIN bases = {}
  BY SMTT(40), <1>1
<1>4. LinearizedRight
  BY ZenonT(40), <1>3 DEF LinearizedRight
<1> QED
  BY ZenonT(40), <1>2, <1>3, <1>4 DEF LInv

LEMMA StepLinear == ASSUME EInv, LInv, [Next]_vars PROVE LInv'
<1>1. CASE Execute \/ Done \/ UNCHANGED vars
  <2>1. UNCHANGED <<snames, order, stage, todo, at, toMerge, result>>
    BY ZenonT(40), <1>1 DEF Execute, Done, Enter, Leave, Abort, Evaluate, Placeholder, Branch, IterateOnce, EndIterations, Jump,
                Stays, vars, snames, trees, names, merging
  <2> QED
    BY ZenonT(40), <2>1, Idle
<1> QED
  BY ZenonT(40), <1>1, resetLinear, CallsLinear, StartAnalyzeLinear, TopoSortLinear, TopoSortedLinear, EndTopoSortLinear,
     NextStageLinear, EndItemsLinear, ChecksLinear, FlowLinear, RegisterLinear, ResolveOtherLinear, ResolveContractLinear,
     PlaceCandidateLinear, LinearizedLinear DEF Next

\* linearizeBaseContracts, cThreeMerge, for all projects: whatever the hierarchy of contracts and the
\* imports they are found through, the linearization of a contract starts with it, has every base
\* once and no other contract, keeps the order of each base's linearization and has direct bases
\* that are mentioned later first.
THEOREM LinearizedRightProved == Spec => []LinearizedRight
<1>1. EInv /\ LInv => LinearizedRight
  BY ZenonT(40) DEF LInv
<1> QED
  BY <1>1, InitSeen, InitLinear, StepSeen, StepLinear, PTL DEF Spec
=============================================================================
