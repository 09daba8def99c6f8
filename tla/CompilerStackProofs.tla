------------------------ MODULE CompilerStackProofs ------------------------
(***************************************************************************)
(* Proofs about CompilerStack: an error stops the compilation.             *)
(***************************************************************************)
EXTENDS CompilerStack, Integers, TLAPS

-----------------------------------------------------------------------------
(* Sequences.                                                              *)

LEMMA SeqOf ==
  ASSUME NEW S, NEW s \in Seq(S)
  PROVE  IsSeq(s) /\ Len(s) \in Nat /\ DOMAIN s = 1..Len(s) /\ SeqSet(s) \subseteq S
BY DEF IsSeq, SeqSet

LEMMA SeqIs ==
  ASSUME NEW s, IsSeq(s)
  PROVE  /\ Len(s) \in Nat /\ DOMAIN s = 1..Len(s) /\ s = [i \in 1..Len(s) |-> s[i]]
         /\ \A i \in 1..Len(s) : s[i] \in SeqSet(s)
         /\ s # <<>> => Len(s) >= 1 /\ Head(s) = s[1]
BY DEF IsSeq, SeqSet

LEMMA SeqTail ==
  ASSUME NEW s, IsSeq(s), s # <<>>
  PROVE  /\ IsSeq(Tail(s)) /\ Len(Tail(s)) = Len(s) - 1
         /\ \A i \in 1..(Len(s) - 1) : Tail(s)[i] = s[i + 1]
         /\ SeqSet(Tail(s)) \subseteq SeqSet(s)
<1>1. Tail(s) \in Seq(SeqSet(s)) /\ Len(Tail(s)) = Len(s) - 1 /\ \A i \in 1..(Len(s) - 1) : Tail(s)[i] = s[i + 1]
  BY DEF IsSeq
<1> QED
  BY ZenonT(40), <1>1, SeqOf

LEMMA SeqMade ==
  ASSUME NEW n \in Nat, NEW f, f = [i \in 1..n |-> f[i]]
  PROVE  IsSeq(f) /\ Len(f) = n
<1>1. \A i \in 1..n : f[i] \in SeqSet(f)
  BY ZenonT(40) DEF SeqSet
<1>2. f \in [1..n -> SeqSet(f)]
  BY ZenonT(40), <1>1
<1> QED
  BY <1>2 DEF IsSeq

LEMMA SeqConcat ==
  ASSUME NEW s, NEW t, IsSeq(s), IsSeq(t)
  PROVE  /\ IsSeq(s \o t) /\ Len(s \o t) = Len(s) + Len(t)
         /\ SeqSet(s \o t) = SeqSet(s) \cup SeqSet(t)
         /\ \A i \in 1..(Len(s) + Len(t)) : (s \o t)[i] = IF i <= Len(s) THEN s[i] ELSE t[i - Len(s)]
<1> DEFINE S == SeqSet(s) \cup SeqSet(t)
<1>1. s \in Seq(S) /\ t \in Seq(S)
  <2>1. s \in [1..Len(s) -> S] /\ t \in [1..Len(t) -> S] /\ Len(s) \in Nat /\ Len(t) \in Nat
    BY ZenonT(40), SeqIs
  <2> QED
    BY <2>1
<1>2. /\ s \o t \in Seq(S) /\ Len(s \o t) = Len(s) + Len(t) /\ Len(s) \in Nat /\ Len(t) \in Nat
      /\ \A i \in 1..(Len(s) + Len(t)) : (s \o t)[i] = IF i <= Len(s) THEN s[i] ELSE t[i - Len(s)]
  <2> HIDE DEF S
  <2> QED
    BY <1>1
<1>3. IsSeq(s \o t) /\ SeqSet(s \o t) \subseteq S /\ DOMAIN (s \o t) = 1..(Len(s) + Len(t))
  BY ZenonT(40), <1>2, SeqOf
<1>4. SeqSet(s) \subseteq SeqSet(s \o t)
  <2> SUFFICES ASSUME NEW i \in DOMAIN s PROVE s[i] \in SeqSet(s \o t)
    BY ZenonT(40) DEF SeqSet
  <2>1. i \in 1..(Len(s) + Len(t)) /\ (s \o t)[i] = s[i]
    BY <1>2, SeqIs
  <2> QED
    BY ZenonT(40), <1>3, <2>1 DEF SeqSet
<1>5. SeqSet(t) \subseteq SeqSet(s \o t)
  <2> SUFFICES ASSUME NEW i \in DOMAIN t PROVE t[i] \in SeqSet(s \o t)
    BY ZenonT(40) DEF SeqSet
  <2>1. i \in 1..Len(t)
    BY ZenonT(40), SeqIs
  <2>2. Len(s) + i \in 1..(Len(s) + Len(t)) /\ ~(Len(s) + i <= Len(s)) /\ (Len(s) + i) - Len(s) = i
    BY <1>2, <2>1
  <2>3. (s \o t)[Len(s) + i] = t[i]
    BY ZenonT(40), <1>2, <2>2
  <2> QED
    BY ZenonT(40), <1>3, <2>2, <2>3 DEF SeqSet
<1> QED
  BY ZenonT(40), <1>2, <1>3, <1>4, <1>5

LEMMA SeqAppend ==
  ASSUME NEW s, NEW x, IsSeq(s)
  PROVE  /\ IsSeq(Append(s, x)) /\ Len(Append(s, x)) = Len(s) + 1
         /\ Append(s, x)[Len(s) + 1] = x /\ \A i \in 1..Len(s) : Append(s, x)[i] = s[i]
         /\ SeqSet(Append(s, x)) = SeqSet(s) \cup {x}
<1> DEFINE S == SeqSet(s) \cup {x}
           a == Append(s, x)
<1>1. s \in Seq(S) /\ x \in S /\ Len(s) \in Nat
  <2>1. s \in [1..Len(s) -> S] /\ Len(s) \in Nat
    BY ZenonT(40), SeqIs
  <2> QED
    BY <2>1
<1>2. a \in Seq(S) /\ Len(a) = Len(s) + 1 /\ a[Len(s) + 1] = x /\ \A i \in 1..Len(s) : a[i] = s[i]
  <2> HIDE DEF S
  <2> QED
    BY <1>1
<1>3. IsSeq(a) /\ SeqSet(a) \subseteq S /\ DOMAIN a = 1..(Len(s) + 1)
  <2> HIDE DEF a, S
  <2> QED
    BY ZenonT(40), <1>2, SeqOf
<1>4. S \subseteq SeqSet(a)
  <2> HIDE DEF a
  <2>1. x \in SeqSet(a)
    <3>1. Len(s) + 1 \in DOMAIN a
      BY <1>1, <1>3
    <3> QED
      BY ZenonT(40), <1>2, <3>1 DEF SeqSet
  <2>2. ASSUME NEW i \in DOMAIN s PROVE s[i] \in SeqSet(a)
    <3>1. i \in 1..Len(s) /\ i \in DOMAIN a
      BY SMTT(40), <1>1, <1>3, SeqIs
    <3> QED
      BY ZenonT(40), <1>2, <3>1 DEF SeqSet
  <2> QED
    BY ZenonT(40), <2>1, <2>2 DEF SeqSet
<1> QED
  BY ZenonT(40), <1>2, <1>3, <1>4

LEMMA EmptyIsSeq == IsSeq(<<>>) /\ Len(<<>>) = 0 /\ SeqSet(<<>>) = {}
BY DEF IsSeq, SeqSet

LEMMA OneIsSeq == ASSUME NEW x PROVE IsSeq(<<x>>) /\ Len(<<x>>) = 1 /\ <<x>>[1] = x /\ SeqSet(<<x>>) = {x}
BY DEF IsSeq, SeqSet

\* A set of natural numbers that is not empty has a smallest one.
LEMMA ListedIs ==
  ASSUME Len(project.files) \in Nat, NEW S, NEW s \in Listed(S)
  PROVE  IsSeq(s) /\ SeqSet(s) = S
<1>1. PICK n \in 0..Len(project.files) : s \in [1..n -> S]
  BY ZenonT(40) DEF Listed
<1>2. n \in Nat /\ s = [i \in 1..n |-> s[i]]
  BY <1>1
<1>3. SeqSet(s) = S
  BY ZenonT(40) DEF Listed
<1> QED
  BY ZenonT(40), <1>2, <1>3, SeqMade

-----------------------------------------------------------------------------
(* An error stops the compilation.  Errors of the registration and of      *)
(* inherited names do not clear noErrors; what makes it false in the end   *)
(* is the check of the types of a node, and an error is only reported      *)
(* when there is a node.                                                   *)

Walking == {"syntax", "doc", "register", "perform", "resolve", "merge", "level", "types",
            "post", "flow", "static", "view", "tvm", "tvmtypes"}
Early == {"register", "perform", "resolve", "merge", "level"}
Late == {"syntax", "doc", "post", "flow", "static", "view", "tvm", "tvmtypes", "end"}

\* Where the calls, the state and the stage can be
Shape ==
  /\ project \in Projects /\ calls \in Seq(STRING)
  /\ stackState \in 0..4 /\ hasError \in BOOLEAN /\ noErrors \in BOOLEAN
  /\ at \in Nat \ {0}
  /\ IsSeq(order) /\ (stage # "generate" => IsSeq(todo))
  /\ sources \subseteq DOMAIN project.files /\ asts \subseteq sources /\ (stackState = 0 => asts = {})
  /\ \/ stage = "idle"
     \/ stage = "parse" /\ stackState = SourcesSet
     \/ stage \in Walking \cup {"toposort", "end"} /\ stackState = ParsingPerformed
     \/ stage \in {"select", "generate"} /\ stackState >= AnalysisPerformed
  /\ stage # "idle" => calls # <<>>
  /\ stage = "parse" => SeqSet(todo) \subseteq sources
  /\ stage \in Walking => SeqSet(todo) \subseteq SeqSet(order)
  /\ stage = "merge" => todo # <<>> /\ Head(todo) \in asts /\ project.files[Head(todo)] # <<>>

Failed == calls = <<>> \/ Head(calls) = "reset"
WithNodes(p) == p \in asts /\ project.files[p] # <<>>
\* There is a node to check, and there is one that is not checked yet.
Met == \E p \in SeqSet(order) : WithNodes(p)
Ahead ==
  /\ todo # <<>>
  /\ \/ Head(todo) \in asts /\ at <= Len(project.files[Head(todo)])
     \/ \E i \in 2..Len(todo) : WithNodes(todo[i])
Flagged == hasError \/ ~noErrors
ErrorsSeen ==
  /\ stage = "toposort" /\ errors # {} => hasError
  /\ stage \in Late /\ errors # {} => Flagged
  /\ stage \in Early /\ errors # {} => Flagged \/ Met
  /\ stage = "types" /\ errors # {} => Flagged \/ Ahead
  /\ stage \in {"select", "generate"} => ~hasError /\ errors \subseteq {"pragma"}
  /\ stage = "generate" \/ stackState = CompilationSuccessful => ~SelectError
  /\ stage = "idle" => Failed \/ (errors \subseteq {"pragma"} /\ (stackState < AnalysisPerformed => errors = {}))
  /\ stackState = CompilationSuccessful => errors \subseteq {"pragma"}
EInv == Shape /\ ErrorsSeen

LEMMA FailureStops ==
  ASSUME calls \in Seq(STRING), calls' \in AfterFailure
  PROVE  calls' \in Seq(STRING) /\ Failed'
<1> DEFINE later == {i \in 2..Len(calls) : calls[i] = "reset"}
<1>1. CASE calls' = <<>>
  BY <1>1 DEF Failed
<1>2. CASE \E i \in later : calls' = SubSeq(calls, i, Len(calls))
  <2>1. PICK m \in 2..Len(calls) : calls[m] = "reset" /\ calls' = SubSeq(calls, m, Len(calls))
    BY ZenonT(40), <1>2
  <2>2. calls' \in Seq(STRING) /\ Len(calls') >= 1 /\ calls'[1] = calls[m]
    BY <2>1
  <2> QED
    BY <2>1, <2>2 DEF Failed
<1> QED
  BY ZenonT(40), <1>1, <1>2 DEF AfterFailure, LeastOf

LEMMA Returned ==
  ASSUME Shape, calls # <<>>, NEW ok \in BOOLEAN, Return(ok), project' = project, stackState' \in 0..4,
         hasError' \in BOOLEAN, noErrors' \in BOOLEAN, IsSeq(order'),
         sources' \subseteq DOMAIN project.files, asts' \subseteq sources', stackState' = 0 => asts' = {}
  PROVE  Shape' /\ stage' = "idle" /\ (~ok => Failed')
<1>1. calls' \in Seq(STRING) /\ (~ok => Failed')
  <2>1. CASE ok
    BY <2>1 DEF Return, Shape
  <2>2. CASE ~ok
    BY ZenonT(40), <2>2, FailureStops DEF Return, Shape
  <2> QED
    BY ZenonT(40), <2>1, <2>2
<1>2. stage' = "idle" /\ todo' = <<>> /\ at' = 1
  BY ZenonT(40) DEF Return, GoTo
<1> QED
  BY <1>1, <1>2, EmptyIsSeq DEF Shape, Walking

LEMMA SelectionFixed == ASSUME project' = project PROVE SelectError' = SelectError
<1>1. \A d : Decl(d)' = Decl(d)
  BY ZenonT(40) DEF Decl
<1>2. ContractsOf(1)' = ContractsOf(1)
  BY ZenonT(40), <1>1 DEF ContractsOf, NodesOf, SeqSet, Kind
<1>3. \A c : definedFunctions(c)' = definedFunctions(c)
  BY ZenonT(40), <1>1 DEF definedFunctions, MembersOf, SeqSet, Kind
<1>4. \A c : isLibrary(c)' = isLibrary(c) /\ isInterface(c)' = isInterface(c) /\ isConstructor(c)' = isConstructor(c) /\ Name(c)' = Name(c)
  BY ZenonT(40), <1>1 DEF isLibrary, isInterface, isConstructor, Name
<1>5. \A c : canBeDeployed(c)' = canBeDeployed(c)
  BY ZenonT(40), <1>1, <1>3, <1>4 DEF canBeDeployed, constructorIsPublic
<1>6. Wanted' = Wanted
  BY ZenonT(40), <1>2, <1>4, <1>5 DEF Wanted
<1> QED
  BY ZenonT(40), <1>5, <1>6 DEF SelectError

LEMMA FilesAre ==
  ASSUME project \in Projects
  PROVE  /\ IsSeq(project.files) /\ Len(project.files) \in Nat /\ DOMAIN project.files = 1..Len(project.files)
         /\ 1 \in DOMAIN project.files
         /\ \A p \in DOMAIN project.files : /\ IsSeq(project.files[p]) /\ Len(project.files[p]) \in Nat
                                            /\ DOMAIN project.files[p] = 1..Len(project.files[p])
<1>1. IsSeq(project.files) /\ project.files # <<>> /\ \A p \in DOMAIN project.files : IsSeq(project.files[p])
  BY ZenonT(40), ProjectsAssumption
<1> QED
  BY <1>1, SeqIs

LEMMA VisitsAre == ASSUME NEW ps, IsSeq(ps) PROVE IsSeq(Visits(ps))
<1> DEFINE v == Visits(ps)
<1>1. Len(ps) \in Nat /\ DOMAIN ps = 1..Len(ps)
  BY ZenonT(40), SeqIs
<1>2. v = [i \in 1..Len(ps) |-> v[i]]
  BY ZenonT(40), <1>1 DEF Visits
<1> QED
  BY ZenonT(40), <1>1, <1>2, SeqMade

LEMMA InitSeen == Init => EInv
<1> SUFFICES ASSUME Init PROVE EInv
  BY ZenonT(40)
<1>1. project \in Projects /\ calls = project.calls /\ calls \in Seq(STRING)
  BY ZenonT(40), ProjectsAssumption DEF Init
<1>2. IsSeq(todo) /\ IsSeq(order)
  BY ZenonT(40), EmptyIsSeq DEF Init
<1>3. /\ stage = "idle" /\ stackState = 0 /\ hasError = FALSE /\ noErrors = TRUE /\ errors = {} /\ at = 1
      /\ sources = {} /\ asts = {} /\ todo = <<>>
  BY ZenonT(40) DEF Init, Empty
<1>4. Shape
  <2>1. hasError \in BOOLEAN /\ noErrors \in BOOLEAN
    BY ZenonT(40), <1>3
  <2>2. stackState \in 0..4 /\ at \in Nat \ {0} /\ sources \subseteq DOMAIN project.files /\ asts \subseteq sources
    BY <1>3
  <2>3. stage # "parse" /\ stage \notin Walking
    BY ZenonT(40), <1>3 DEF Walking
  <2> QED
    BY ZenonT(40), <1>1, <1>2, <1>3, <2>1, <2>2, <2>3 DEF Shape
<1>5. ErrorsSeen
  <2>1. errors = {} /\ stackState # CompilationSuccessful /\ stage \notin {"select", "generate"} /\ stage # "generate"
    BY <1>3 DEF CompilationSuccessful
  <2> QED
    BY ZenonT(40), <2>1 DEF ErrorsSeen
<1> QED
  BY ZenonT(40), <1>4, <1>5 DEF EInv

\* The flags of a new state, by its stage
LEMMA SeenIdle ==
  ASSUME stage' = "idle",
         Failed' \/ (errors' \subseteq {"pragma"} /\ (stackState' < AnalysisPerformed => errors' = {})),
         stackState' = CompilationSuccessful => ~SelectError' /\ errors' \subseteq {"pragma"}
  PROVE  ErrorsSeen'
<1>1. stage' \notin Late /\ stage' \notin Early /\ stage' \notin {"select", "generate"} /\ stage' # "toposort" /\ stage' # "types" /\ stage' # "generate"
  BY ZenonT(40) DEF Late, Early
<1> QED
  BY ZenonT(40), <1>1 DEF ErrorsSeen

LEMMA NotSuccessful ==
  ASSUME Shape', stage' \in Walking \cup {"toposort", "end", "parse"}
  PROVE  /\ stackState' # CompilationSuccessful
         /\ stage' # "idle" /\ stage' \notin {"select", "generate"} /\ stage' # "generate"
<1>1. stage' # "idle" /\ stage' \notin {"select", "generate"}
  BY ZenonT(40) DEF Walking
<1>2. stackState' = SourcesSet \/ stackState' = ParsingPerformed
  BY ZenonT(40), <1>1 DEF Shape
<1> QED
  BY <1>1, <1>2 DEF SourcesSet, ParsingPerformed, CompilationSuccessful

LEMMA SeenFlagged ==
  ASSUME Shape', stage' \in Walking \cup {"end"}, errors' # {} => Flagged'
  PROVE  ErrorsSeen'
<1>1. stage' # "toposort"
  BY ZenonT(40) DEF Walking
<1> QED
  BY ZenonT(40), <1>1, NotSuccessful DEF ErrorsSeen

LEMMA SeenEarly ==
  ASSUME Shape', stage' \in Early, errors' # {} => Flagged' \/ Met'
  PROVE  ErrorsSeen'
<1>1. stage' # "toposort" /\ stage' \notin Late /\ stage' # "types" /\ stage' \in Walking
  BY ZenonT(40) DEF Walking, Early, Late
<1> QED
  BY ZenonT(40), <1>1, NotSuccessful DEF ErrorsSeen

LEMMA SeenTypes ==
  ASSUME Shape', stage' = "types", errors' # {} => Flagged' \/ Ahead'
  PROVE  ErrorsSeen'
<1>1. stage' # "toposort" /\ stage' \notin Late /\ stage' \notin Early /\ stage' \in Walking
  BY ZenonT(40) DEF Walking, Early, Late
<1> QED
  BY ZenonT(40), <1>1, NotSuccessful DEF ErrorsSeen

LEMMA SeenBefore ==
  ASSUME Shape', stage' \in {"parse", "toposort"}, stage' = "toposort" /\ errors' # {} => hasError'
  PROVE  ErrorsSeen'
<1>1. stage' \notin Late /\ stage' \notin Early /\ stage' # "types"
  BY ZenonT(40) DEF Early, Late
<1> QED
  BY ZenonT(40), <1>1, NotSuccessful DEF ErrorsSeen

LEMMA SeenCompiling ==
  ASSUME stage' \in {"select", "generate"}, ~hasError', errors' \subseteq {"pragma"},
         stage' = "generate" \/ stackState' = CompilationSuccessful => ~SelectError'
  PROVE  ErrorsSeen'
<1>1. stage' \notin Late /\ stage' \notin Early /\ stage' # "types" /\ stage' # "toposort" /\ stage' # "idle"
  BY ZenonT(40) DEF Early, Late
<1> QED
  BY ZenonT(40), <1>1 DEF ErrorsSeen

evars == <<project, calls, stackState, hasError, stage, todo, at, noErrors, errors, sources, asts, order>>
LEMMA Unseen == ASSUME EInv, UNCHANGED evars PROVE EInv'
<1>1. SelectError' = SelectError
  BY ZenonT(40), SelectionFixed DEF evars
<1>2. Met' = Met /\ Ahead' = Ahead /\ Flagged' = Flagged /\ Failed' = Failed
  BY ZenonT(40) DEF evars, Met, Ahead, Flagged, Failed, WithNodes, SeqSet
<1>3. Shape'
  BY ZenonT(40) DEF EInv, Shape, evars, IsSeq, SeqSet
<1>4. ErrorsSeen'
  BY ZenonT(40), <1>1, <1>2 DEF EInv, ErrorsSeen, evars
<1> QED
  BY ZenonT(40), <1>3, <1>4 DEF EInv
LEMMA ThrowSeen == ASSUME EInv, calls # <<>>, Throw PROVE EInv'
<1>1. /\ Return(FALSE) /\ project' = project /\ stackState' = stackState /\ hasError' = hasError /\ noErrors' = noErrors
      /\ errors' = errors /\ sources' = sources /\ asts' = asts /\ order' = order
  BY ZenonT(40) DEF Throw, checks, trees
<1>2. Shape' /\ stage' = "idle" /\ Failed'
  BY ZenonT(40), <1>1, Returned DEF EInv, Shape
<1>3. SelectError' = SelectError
  BY ZenonT(40), <1>1, SelectionFixed
<1>4. ErrorsSeen'
  <2>1. stackState = CompilationSuccessful => ~SelectError /\ errors \subseteq {"pragma"}
    BY ZenonT(40) DEF EInv, ErrorsSeen
  <2> QED
    BY ZenonT(40), <1>1, <1>2, <1>3, <2>1, SeenIdle
<1> QED
  BY ZenonT(40), <1>2, <1>4 DEF EInv

LEMMA NotFailed ==
  ASSUME EInv, NEW c, Calling(c), c # "reset"
  PROVE  calls # <<>> /\ stage = "idle" /\ errors \subseteq {"pragma"} /\ (stackState < AnalysisPerformed => errors = {})
<1>1. ~Failed
  BY ZenonT(40) DEF Calling, Failed
<1> QED
  BY ZenonT(40), <1>1 DEF EInv, ErrorsSeen, Calling

LEMMA resetSeen == ASSUME EInv, reset PROVE EInv'
<1>1. /\ Return(TRUE) /\ project' = project /\ stackState' = 0 /\ hasError' = FALSE /\ noErrors' = TRUE /\ errors' = {}
      /\ sources' = {} /\ asts' = {} /\ order' = <<>> /\ calls # <<>>
  BY ZenonT(40) DEF reset, Empty, Calling
<1>2. hasError' \in BOOLEAN /\ noErrors' \in BOOLEAN
  BY ZenonT(40), <1>1
<1>3. IsSeq(order') /\ stackState' \in 0..4
  BY <1>1, EmptyIsSeq
<1>4. Shape' /\ stage' = "idle"
  BY ZenonT(40), <1>1, <1>2, <1>3, Returned DEF EInv
<1>5. ErrorsSeen'
  <2>1. stackState' # CompilationSuccessful /\ errors' \subseteq {"pragma"}
    BY <1>1 DEF CompilationSuccessful
  <2> QED
    BY ZenonT(40), <1>1, <1>4, <2>1, SeenIdle
<1> QED
  BY ZenonT(40), <1>4, <1>5 DEF EInv

LEMMA setSourcesSeen == ASSUME EInv, setSources PROVE EInv'
<1>1. calls # <<>> /\ errors \subseteq {"pragma"} /\ (stackState < AnalysisPerformed => errors = {})
  <2>1. Calling("setSources")
    BY ZenonT(40) DEF setSources
  <2> QED
    BY ZenonT(40), <2>1, NotFailed
<1>2. CASE stackState # Empty
  BY ZenonT(40), <1>1, <1>2, ThrowSeen DEF setSources
<1>3. CASE stackState = Empty
  <2>1. /\ Return(TRUE) /\ project' = project /\ stackState' = 1 /\ hasError' = hasError /\ noErrors' = noErrors
        /\ errors' = errors /\ sources' = {1} /\ asts' = asts /\ order' = order
    BY ZenonT(40), <1>3 DEF setSources, SourcesSet, checks
  <2>2. 1 \in DOMAIN project.files
    BY ZenonT(40), FilesAre DEF EInv, Shape
  <2>3. errors = {}
    BY <1>1, <1>3 DEF Empty, AnalysisPerformed
  <2>4. asts' \subseteq sources'
    <3>1. stackState = 0 => asts = {}
      BY ZenonT(40) DEF EInv, Shape
    <3> QED
      BY ZenonT(40), <1>3, <2>1, <3>1 DEF Empty
  <2>5. Shape' /\ stage' = "idle"
    <3>1. hasError' \in BOOLEAN /\ noErrors' \in BOOLEAN /\ IsSeq(order')
      BY ZenonT(40), <2>1 DEF EInv, Shape
    <3>2. stackState' \in 0..4 /\ stackState' # 0 /\ sources' \subseteq DOMAIN project.files
      BY <2>1, <2>2
    <3> QED
      BY ZenonT(40), <1>1, <2>1, <2>4, <3>1, <3>2, Returned DEF EInv
  <2>6. stackState' # CompilationSuccessful
    BY <2>1 DEF CompilationSuccessful
  <2>7. ErrorsSeen'
    BY ZenonT(40), <2>1, <2>3, <2>5, <2>6, SeenIdle
  <2> QED
    BY ZenonT(40), <2>5, <2>7 DEF EInv
<1> QED
  BY ZenonT(40), <1>2, <1>3

LEMMA StartParseSeen == ASSUME EInv, StartParse PROVE EInv'
<1>1. calls # <<>> /\ stage = "idle"
  BY ZenonT(40) DEF StartParse, Calling
<1>2. CASE stackState # SourcesSet
  BY ZenonT(40), <1>1, <1>2, ThrowSeen DEF StartParse
<1>3. CASE stackState = SourcesSet
  <2>1. /\ errors' = {} /\ stage' = "parse" /\ todo' \in Listed(sources) /\ at' = 1
        /\ UNCHANGED <<project, calls, stackState, hasError, noErrors, sources, asts, order>>
    BY ZenonT(40), <1>3 DEF StartParse, GoTo, driver, trees
  <2>2. IsSeq(todo') /\ SeqSet(todo') = sources
    BY ZenonT(40), <2>1, FilesAre, ListedIs DEF EInv, Shape
  <2>3. Shape'
    <3>1. IsSeq(todo') /\ SeqSet(todo') \subseteq sources' /\ IsSeq(order')
      BY ZenonT(40), <2>1, <2>2 DEF EInv, Shape
    <3>2. stage' \notin Walking /\ stage' # "merge"
      BY ZenonT(40), <2>1 DEF Walking
    <3>3. at' \in Nat \ {0}
      BY <2>1
    <3> QED
      BY ZenonT(40), <1>1, <1>3, <2>1, <3>1, <3>2, <3>3 DEF EInv, Shape
  <2>4. ErrorsSeen'
    BY ZenonT(40), <2>1, <2>3, SeenBefore
  <2> QED
    BY ZenonT(40), <2>3, <2>4 DEF EInv
<1> QED
  BY ZenonT(40), <1>2, <1>3

\* resolveImports starts.
LEMMA TopoStarts ==
  ASSUME EInv, calls' = calls, calls # <<>>, project' = project, NEW s \in Listed(sources), GoTo("toposort", Visits(s)), order' = <<>>,
         sources' = sources, asts' = asts, stackState' = ParsingPerformed, hasError' \in BOOLEAN, noErrors' = noErrors,
         errors' # {} => hasError'
  PROVE  EInv'
<1>1. IsSeq(s)
  BY ZenonT(40), FilesAre, ListedIs DEF EInv, Shape
<1>2. stage' = "toposort" /\ at' = 1 /\ IsSeq(todo') /\ IsSeq(order')
  BY ZenonT(40), <1>1, VisitsAre, EmptyIsSeq DEF GoTo
<1>3. stage' \notin Walking /\ stage' # "merge" /\ stage' # "parse" /\ stage' \in Walking \cup {"toposort", "end"} /\ stackState' \in 0..4 /\ stackState' # 0
  BY <1>2 DEF Walking, ParsingPerformed
<1>4. at' \in Nat \ {0}
  BY <1>2
<1>5. Shape'
  BY ZenonT(40), <1>2, <1>3, <1>4 DEF EInv, Shape
<1>6. ErrorsSeen'
  BY ZenonT(40), <1>2, <1>5, SeenBefore
<1> QED
  BY ZenonT(40), <1>5, <1>6 DEF EInv

LEMMA StartAnalyzeSeen == ASSUME EInv, StartAnalyze PROVE EInv'
<1>1. calls # <<>> /\ (stackState < AnalysisPerformed => errors = {})
  <2>1. Calling("analyze")
    BY ZenonT(40) DEF StartAnalyze
  <2> QED
    BY ZenonT(40), <2>1, NotFailed
<1>2. CASE stackState # ParsingPerformed
  BY ZenonT(40), <1>1, <1>2, ThrowSeen DEF StartAnalyze
<1>3. CASE stackState = ParsingPerformed
  <2>1. errors = {}
    BY SMTT(40), <1>1, <1>3 DEF ParsingPerformed, AnalysisPerformed
  <2>2. /\ \E s \in Listed(sources) : GoTo("toposort", Visits(s))
        /\ order' = <<>>
        /\ UNCHANGED <<project, calls, stackState, hasError, noErrors, errors, sources, asts>>
    BY ZenonT(40), <1>3 DEF StartAnalyze, driver, checks
  <2>3. hasError' \in BOOLEAN
    BY ZenonT(40), <2>2 DEF EInv, Shape
  <2> QED
    BY ZenonT(40), <1>1, <1>3, <2>1, <2>2, <2>3, TopoStarts
<1> QED
  BY ZenonT(40), <1>2, <1>3
-----------------------------------------------------------------------------
(* parse() and resolveImports.                                             *)

LEMMA NodesAre ==
  ASSUME Shape, NEW p \in DOMAIN project.files
  PROVE  /\ IsSeq(NodesOf(p)) /\ Len(NodesOf(p)) = Len(project.files[p]) /\ Len(project.files[p]) \in Nat
         /\ DOMAIN project.files[p] = 1..Len(project.files[p])
         /\ \A i \in 1..Len(project.files[p]) : NodesOf(p)[i] = <<p, i>>
<1>1. DOMAIN project.files[p] = 1..Len(project.files[p]) /\ Len(project.files[p]) \in Nat
  BY ZenonT(40), FilesAre DEF Shape
<1>2. NodesOf(p) = [i \in 1..Len(project.files[p]) |-> NodesOf(p)[i]] /\ \A i \in 1..Len(project.files[p]) : NodesOf(p)[i] = <<p, i>>
  BY ZenonT(40), <1>1 DEF NodesOf
<1> QED
  BY ZenonT(40), <1>1, <1>2, SeqMade

LEMMA ImportsAre ==
  ASSUME Shape, NEW p \in DOMAIN project.files, NEW n \in SeqSet(NodesOf(p)), Kind(n) = "import", Decl(n).at # <<>>
  PROVE  ImportedBy(n) \in DOMAIN project.files
<1>1. PICK i \in DOMAIN project.files[p] : n = <<p, i>>
  BY ZenonT(40) DEF SeqSet, NodesOf
<1>2. Decl(n) = project.files[p][i]
  BY ZenonT(40), <1>1 DEF Decl
<1>3. IsSeq(Decl(n).at) /\ SeqSet(Decl(n).at) \subseteq DOMAIN project.files
  <2>1. project \in Projects
    BY ZenonT(40) DEF Shape
  <2> QED
    BY ZenonT(40), <1>2, <2>1, ProjectsAssumption DEF Kind
<1>4. Len(Decl(n).at) \in 1..Len(Decl(n).at)
  BY <1>3, SeqIs
<1> QED
  BY ZenonT(40), <1>3, <1>4, SeqIs DEF ImportedBy

LEMMA ParseFileSeen == ASSUME EInv, ParseFile PROVE EInv'
<1> DEFINE p == Head(todo)
<1>1. stage = "parse" /\ todo # <<>> /\ IsSeq(todo) /\ SeqSet(todo) \subseteq sources /\ sources \subseteq DOMAIN project.files /\ Shape
  BY ZenonT(40) DEF EInv, Shape, ParseFile, Doing
<1>2. UNCHANGED <<project, calls, stackState, hasError, stage, at, noErrors, order>>
  BY ZenonT(40) DEF ParseFile, driver
<1>3. p \in sources /\ IsSeq(Tail(todo)) /\ SeqSet(Tail(todo)) \subseteq SeqSet(todo)
  BY SMTT(40), <1>1, SeqIs, SeqTail
<1>4. /\ sources' \subseteq DOMAIN project.files /\ asts' \subseteq sources' /\ IsSeq(todo') /\ SeqSet(todo') \subseteq sources'
  <2>1. CASE project.broken[p] = "null"
    <3>1. todo' = Tail(todo) /\ sources' = sources /\ asts' = asts
      BY ZenonT(40), <2>1 DEF ParseFile
    <3> QED
      BY ZenonT(40), <1>1, <1>3, <3>1 DEF Shape
  <2>2. CASE project.broken[p] # "null"
    <3> DEFINE new == newSources(p)
    <3>1. /\ sources' = sources \cup new /\ asts' = asts \cup {p}
          /\ \E s \in Listed(new) : todo' = Tail(todo) \o s
      BY ZenonT(40), <2>2 DEF ParseFile
    <3>2. new \subseteq DOMAIN project.files
      <4> SUFFICES ASSUME NEW x \in new PROVE x \in DOMAIN project.files
        BY ZenonT(40)
      <4>1. PICK n \in SeqSet(NodesOf(p)) : Kind(n) = "import" /\ Decl(n).at # <<>> /\ x = ImportedBy(n)
        BY ZenonT(40) DEF newSources, ImportsOf
      <4> QED
        BY ZenonT(40), <1>1, <1>3, <4>1, ImportsAre
    <3> HIDE DEF new
    <3>3. PICK s \in Listed(new) : todo' = Tail(todo) \o s
      BY ZenonT(40), <3>1
    <3>4. IsSeq(todo') /\ SeqSet(todo') = SeqSet(Tail(todo)) \cup new
      BY SMTT(40), <1>1, <1>3, <3>3, FilesAre, ListedIs, SeqConcat DEF Shape
    <3>5. asts \subseteq sources
      BY ZenonT(40), <1>1 DEF Shape
    <3> QED
      BY ZenonT(40), <1>1, <1>3, <3>1, <3>2, <3>4, <3>5
  <2> QED
    BY ZenonT(40), <2>1, <2>2
<1>5. Shape'
  <2>1. stage' \notin Walking /\ stage' # "merge" /\ stackState' # 0 /\ stackState' = SourcesSet
    BY SMTT(40), <1>1, <1>2 DEF Shape, Walking, SourcesSet
  <2> QED
    BY ZenonT(40), <1>1, <1>2, <1>4, <2>1 DEF Shape
<1>6. ErrorsSeen'
  BY ZenonT(40), <1>1, <1>2, <1>5, SeenBefore
<1> QED
  BY ZenonT(40), <1>5, <1>6 DEF EInv

LEMMA EndParseSeen == ASSUME EInv, EndParse PROVE EInv'
<1>1. /\ stage = "parse" /\ calls # <<>> /\ stackState' = ParsingPerformed /\ hasError' = (hasError \/ errors # {})
      /\ UNCHANGED <<project, noErrors, errors, sources, asts>>
  BY ZenonT(40) DEF EInv, Shape, EndParse, EndOf, checks
<1>2. hasError' \in BOOLEAN /\ stackState' \in 0..4 /\ stackState' # 0 /\ stackState' # CompilationSuccessful
  BY <1>1 DEF ParsingPerformed, CompilationSuccessful
<1>3. CASE Return(~hasError') /\ order' = order
  <2>1. Shape' /\ stage' = "idle" /\ (hasError' => Failed')
    <3>1. /\ noErrors' \in BOOLEAN /\ IsSeq(order') /\ sources' \subseteq DOMAIN project.files /\ asts' \subseteq sources'
      BY ZenonT(40), <1>1, <1>3 DEF EInv, Shape
    <3> QED
      BY ZenonT(40), <1>1, <1>2, <1>3, <3>1, Returned DEF EInv
  <2>2. ~hasError' => errors' = {}
    BY ZenonT(40), <1>1
  <2>3. Failed' \/ (errors' \subseteq {"pragma"} /\ (stackState' < AnalysisPerformed => errors' = {}))
    BY ZenonT(40), <2>1, <2>2
  <2>4. ErrorsSeen'
    BY ZenonT(40), <1>2, <2>1, <2>3, SeenIdle
  <2> QED
    BY ZenonT(40), <2>1, <2>4 DEF EInv
<1>4. CASE (\E s \in Listed(sources) : GoTo("toposort", Visits(s))) /\ order' = <<>> /\ calls' = calls
  BY ZenonT(40), <1>1, <1>2, <1>4, TopoStarts
<1> QED
  BY ZenonT(40), <1>3, <1>4 DEF EndParse
LEMMA TopoSeen ==
  ASSUME EInv, stage = "toposort", IsSeq(todo'), IsSeq(order'),
         UNCHANGED <<project, calls, stackState, hasError, stage, at, noErrors, errors, sources, asts>>
  PROVE  EInv'
<1>1. stage' \notin Walking /\ stage' # "merge" /\ stage' # "parse" /\ stackState' = ParsingPerformed /\ stackState' # 0
  BY DEF EInv, Shape, Walking, ParsingPerformed
<1>2. Shape'
  BY ZenonT(40), <1>1 DEF EInv, Shape
<1>3. errors # {} => hasError
  BY ZenonT(40) DEF EInv, ErrorsSeen
<1>4. ErrorsSeen'
  BY ZenonT(40), <1>2, <1>3, SeenBefore
<1> QED
  BY ZenonT(40), <1>2, <1>4 DEF EInv

LEMMA VisitIs ==
  ASSUME EInv, stage = "toposort", todo # <<>>, NEW p
  PROVE  IsSeq(Visit(p))
<1>1. IsSeq(todo) /\ IsSeq(Tail(todo)) /\ Shape
  BY ZenonT(40), SeqTail DEF EInv, Shape
<1> DEFINE nodes == IF p \in asts THEN [i \in DOMAIN NodesOf(p) |-> <<"node", <<p, i>> >>] ELSE <<>>
<1>2. IsSeq(nodes)
  <2>1. CASE p \in asts
    <3>1. p \in DOMAIN project.files
      BY ZenonT(40), <1>1, <2>1 DEF Shape
    <3>2. Len(NodesOf(p)) \in Nat /\ DOMAIN NodesOf(p) = 1..Len(NodesOf(p))
      BY ZenonT(40), <1>1, <3>1, NodesAre, SeqIs
    <3>3. nodes = [i \in 1..Len(NodesOf(p)) |-> nodes[i]]
      BY ZenonT(40), <2>1, <3>2
    <3> HIDE DEF nodes
    <3> QED
      BY ZenonT(40), <3>2, <3>3, SeqMade
  <2>2. CASE p \notin asts
    BY ZenonT(40), <2>2, EmptyIsSeq
  <2> QED
    BY ZenonT(40), <2>1, <2>2
<1> HIDE DEF nodes
<1>3. IsSeq((nodes \o << <<"leave", p>> >>) \o Tail(todo))
  <2>1. IsSeq(<< <<"leave", p>> >>)
    BY ZenonT(40), OneIsSeq
  <2>2. IsSeq(nodes \o << <<"leave", p>> >>)
    BY ZenonT(40), <1>2, <2>1, SeqConcat
  <2> QED
    BY ZenonT(40), <1>1, <2>2, SeqConcat
<1> QED
  BY ZenonT(40), <1>1, <1>3 DEF Visit, nodes

LEMMA TopoSortSeen == ASSUME EInv, TopoSort PROVE EInv'
<1>1. /\ stage = "toposort" /\ todo # <<>> /\ todo' = Visit(Head(todo)[2])
      /\ UNCHANGED <<project, calls, stackState, hasError, stage, at, noErrors, errors, sources, asts, order>>
  BY ZenonT(40) DEF TopoSort, Doing, driver, checks, trees
<1>2. IsSeq(todo') /\ IsSeq(order')
  BY ZenonT(40), <1>1, VisitIs DEF EInv, Shape
<1> QED
  BY ZenonT(40), <1>1, <1>2, TopoSeen

LEMMA TopoSortNodeSeen == ASSUME EInv, TopoSortNode PROVE EInv'
<1> DEFINE n == Head(todo)[2]
<1>1. /\ stage = "toposort" /\ todo # <<>> /\ calls # <<>>
      /\ UNCHANGED <<project, stackState, hasError, noErrors, errors, sources, asts, order>>
  BY ZenonT(40) DEF TopoSortNode, Doing, checks, trees, EInv, Shape
<1>2. \/ todo' \in {Tail(todo), Visit(ImportedBy(n))} /\ UNCHANGED <<stage, at, calls>>
      \/ Return(FALSE)
  BY ZenonT(40) DEF TopoSortNode
<1>3. CASE todo' \in {Tail(todo), Visit(ImportedBy(n))} /\ UNCHANGED <<stage, at, calls>>
  <2>1. IsSeq(Tail(todo)) /\ IsSeq(Visit(ImportedBy(n)))
    BY ZenonT(40), <1>1, VisitIs, SeqTail DEF EInv, Shape
  <2>2. IsSeq(todo') /\ IsSeq(order')
    BY ZenonT(40), <1>1, <1>3, <2>1 DEF EInv, Shape
  <2> QED
    BY ZenonT(40), <1>1, <1>3, <2>2, TopoSeen
<1>4. CASE Return(FALSE)
  <2>1. Shape' /\ stage' = "idle" /\ Failed'
    BY ZenonT(40), <1>1, <1>4, Returned DEF EInv, Shape
  <2>2. stackState' # CompilationSuccessful
    BY <1>1 DEF EInv, Shape, ParsingPerformed, CompilationSuccessful, Walking
  <2>3. ErrorsSeen'
    BY ZenonT(40), <2>1, <2>2, SeenIdle
  <2> QED
    BY ZenonT(40), <2>1, <2>3 DEF EInv
<1> QED
  BY ZenonT(40), <1>2, <1>3, <1>4

LEMMA TopoSortedSeen == ASSUME EInv, TopoSorted PROVE EInv'
<1>1. /\ stage = "toposort" /\ todo # <<>> /\ todo' = Tail(todo) /\ order' = Append(order, Head(todo)[2])
      /\ UNCHANGED <<project, calls, stackState, hasError, stage, at, noErrors, errors, sources, asts>>
  BY ZenonT(40) DEF TopoSorted, Doing, driver, checks
<1>2. IsSeq(todo') /\ IsSeq(order')
  BY ZenonT(40), <1>1, SeqTail, SeqAppend DEF EInv, Shape
<1> QED
  BY ZenonT(40), <1>1, <1>2, TopoSeen

-----------------------------------------------------------------------------
(* analyze().                                                              *)

\* A new stage goes through the files in the order of resolveImports.
LEMMA StageShape ==
  ASSUME Shape, stage \in Walking \cup {"toposort"}, stage' \in (Walking \cup {"end"}) \ {"merge"}, at' = 1, noErrors' \in BOOLEAN,
         todo' \in {<<>>, order},
         UNCHANGED <<project, calls, stackState, hasError, sources, asts, order>>
  PROVE  Shape'
<1>1. stage # "idle" /\ stage' # "idle" /\ stage' # "parse" /\ stackState' = ParsingPerformed /\ stage' # "merge" /\ stackState' # 0
  BY DEF Shape, Walking, ParsingPerformed
<1>2. IsSeq(todo') /\ SeqSet(todo') \subseteq SeqSet(order')
  BY ZenonT(40), EmptyIsSeq DEF Shape
<1>3. at' \in Nat \ {0}
  OBVIOUS
<1> QED
  BY ZenonT(40), <1>1, <1>2, <1>3 DEF Shape

LEMMA EndTopoSortSeen == ASSUME EInv, EndTopoSort PROVE EInv'
<1>1. /\ stage = "toposort" /\ stage' = "syntax" /\ todo' = order /\ at' = 1 /\ noErrors' = TRUE
      /\ UNCHANGED <<project, calls, stackState, hasError, errors, sources, asts, order>>
  BY ZenonT(40) DEF EndTopoSort, EndOf, GoTo, driver, trees
<1>2. stage' \in (Walking \cup {"end"}) \ {"merge"} /\ stage' \in Walking \cup {"end"} /\ noErrors' \in BOOLEAN
  BY ZenonT(40), <1>1 DEF Walking
<1>3. Shape'
  BY ZenonT(40), <1>1, <1>2, StageShape DEF EInv
<1>4. errors # {} => hasError
  BY ZenonT(40), <1>1 DEF EInv, ErrorsSeen
<1>5. ErrorsSeen'
  BY ZenonT(40), <1>1, <1>2, <1>3, <1>4, SeenFlagged DEF Flagged
<1> QED
  BY ZenonT(40), <1>3, <1>5 DEF EInv

LEMMA StagesAre ==
  /\ DOMAIN Stages = 1..14 /\ StageIndex("types") = 7
  /\ \A i \in 1..14 : StageIndex(Stages[i]) = i
<1>1. DOMAIN Stages = 1..14 /\ \A i, j \in 1..14 : Stages[i] = Stages[j] => i = j
  BY DEF Stages
<1>2. ASSUME NEW i \in 1..14 PROVE StageIndex(Stages[i]) = i
  BY ZenonT(40), <1>1 DEF StageIndex
<1>3. Stages[7] = "types"
  BY ZenonT(40) DEF Stages
<1> QED
  BY SMTT(40), <1>1, <1>2, <1>3
LEMMA NextStageSeen == ASSUME EInv, NextStage PROVE EInv'
<1>1. /\ stage \in SeqSet(Stages) /\ stage # "end" /\ todo = <<>> /\ at' = 1
      /\ UNCHANGED <<project, calls, stackState, hasError, noErrors, errors, sources, asts, order>>
  BY ZenonT(40) DEF NextStage, GoTo, driver, checks, trees
<1>2. PICK i \in 1..13 : stage = Stages[i] /\ StageIndex(stage) = i
  <2>1. PICK i \in 1..14 : stage = Stages[i]
    BY ZenonT(40), <1>1, StagesAre DEF SeqSet
  <2>2. Stages[14] = "end"
    BY ZenonT(40) DEF Stages
  <2>3. i \in 1..13
    BY SMTT(40), <1>1, <2>1, <2>2
  <2> QED
    BY ZenonT(40), <2>1, <2>3, StagesAre
<1>3. \/ ~noErrors /\ stage' = "end" /\ todo' = <<>>
      \/ (i >= 7 => noErrors) /\ stage' = Stages[i + 1] /\ todo' = order
  BY ZenonT(40), <1>2, StagesAre DEF NextStage, GoTo
<1>4. stage \in Walking /\ stage # "merge" /\ Stages[i + 1] \in (Walking \cup {"end"}) \ {"merge"}
  BY SMTT(40), <1>2 DEF Stages, Walking
<1>5. Shape'
  <2>1. stage' \in (Walking \cup {"end"}) \ {"merge"} /\ todo' \in {<<>>, order} /\ noErrors' \in BOOLEAN
    BY ZenonT(40), <1>1, <1>3, <1>4 DEF EInv, Shape
  <2> QED
    BY ZenonT(40), <1>1, <1>4, <2>1, StageShape DEF EInv
<1>6. stage' \in Walking \cup {"end"}
  BY ZenonT(40), <1>3, <1>4
<1>7. Flagged' = Flagged /\ Met' = Met
  BY ZenonT(40), <1>1 DEF Flagged, Met, WithNodes, SeqSet
<1>8. ErrorsSeen'
  <2>1. CASE errors # {} => Flagged
    BY ZenonT(40), <1>1, <1>5, <1>6, <1>7, <2>1, SeenFlagged
  <2>2. CASE errors # {} /\ ~Flagged
    <3>1. stage \notin Late /\ (stage \in Early => Met) /\ (stage = "types" => Ahead)
      BY ZenonT(40), <2>2 DEF EInv, ErrorsSeen
    <3>2. stage # "types"
      BY ZenonT(40), <1>1, <3>1 DEF Ahead
    <3>3. i \in {3, 4, 5, 6}
      BY SMTT(40), <1>2, <3>1, <3>2 DEF Stages, Late
    <3>4. Met /\ stage' = Stages[i + 1] /\ todo' = order
      <4>1. stage \in Early
        BY <1>2, <3>3 DEF Stages, Early
      <4>2. noErrors
        BY ZenonT(40), <2>2 DEF Flagged
      <4> QED
        BY ZenonT(40), <1>3, <3>1, <4>1, <4>2
    <3>5. CASE i \in {3, 4, 5}
      <4>1. stage' \in Early
        BY <3>4, <3>5 DEF Stages, Early
      <4> QED
        BY ZenonT(40), <1>5, <1>7, <3>4, <4>1, SeenEarly
    <3>6. CASE i = 6
      <4>1. stage' = "types"
        BY <3>4, <3>6 DEF Stages
      <4>2. Ahead'
        <5>1. PICK p \in SeqSet(order) : p \in asts /\ project.files[p] # <<>>
          BY ZenonT(40), <3>4 DEF Met, WithNodes
        <5>2. IsSeq(order) /\ Len(order) \in Nat /\ DOMAIN order = 1..Len(order)
          BY ZenonT(40), SeqIs DEF EInv, Shape
        <5>3. PICK k \in 1..Len(order) : order[k] = p
          BY ZenonT(40), <5>2 DEF SeqSet
        <5>4. order # <<>> /\ Head(order) = order[1]
          <6>1. order # <<>>
            BY ZenonT(40), <5>1, EmptyIsSeq
          <6> QED
            BY ZenonT(40), <5>2, <6>1, SeqIs
        <5>5. CASE k = 1
          <6>1. Len(project.files[p]) \in Nat /\ Len(project.files[p]) >= 1
            <7>1. IsSeq(project.files[p])
              BY ZenonT(40), <5>1, FilesAre DEF EInv, Shape
            <7> QED
              BY ZenonT(40), <5>1, <7>1, SeqIs
          <6> QED
            BY ZenonT(40), <1>1, <3>4, <5>1, <5>3, <5>4, <5>5, <6>1 DEF Ahead
        <5>6. CASE k # 1
          <6>1. k \in 2..Len(order)
            BY <5>2, <5>3, <5>6
          <6> QED
            BY ZenonT(40), <1>1, <3>4, <5>1, <5>3, <5>4, <6>1 DEF Ahead, WithNodes
        <5> QED
          BY ZenonT(40), <5>5, <5>6
      <4> QED
        BY ZenonT(40), <1>5, <4>1, <4>2, SeenTypes
    <3> QED
      BY ZenonT(40), <3>3, <3>5, <3>6
  <2> QED
    BY ZenonT(40), <2>1, <2>2
<1> QED
  BY ZenonT(40), <1>5, <1>8 DEF EInv

\* The stage goes on with the same files.
LEMMA WalkShape ==
  ASSUME Shape, stage \in Walking, stage' \in Walking, at' \in Nat \ {0}, noErrors' \in BOOLEAN,
         todo' = todo \/ (todo # <<>> /\ todo' = Tail(todo) /\ stage' # "merge"),
         stage' = "merge" => todo # <<>> /\ Head(todo) \in asts /\ project.files[Head(todo)] # <<>>,
         UNCHANGED <<project, calls, stackState, hasError, sources, asts, order>>
  PROVE  Shape'
<1>1. stage # "generate" /\ stage' # "idle" /\ stage # "idle" /\ stage' # "parse" /\ stackState' = ParsingPerformed /\ stackState' # 0
  BY DEF Shape, Walking, ParsingPerformed
<1>2. IsSeq(todo) /\ SeqSet(todo) \subseteq SeqSet(order)
  BY ZenonT(40), <1>1 DEF Shape
<1>3. IsSeq(todo') /\ SeqSet(todo') \subseteq SeqSet(order')
  BY ZenonT(40), <1>2, SeqTail
<1>4. stage' = "merge" => todo' # <<>> /\ Head(todo') \in asts' /\ project'.files[Head(todo')] # <<>>
  BY ZenonT(40)
<1> QED
  BY ZenonT(40), <1>1, <1>3, <1>4 DEF Shape

LEMMA EndItemsSeen == ASSUME EInv, EndItems PROVE EInv'
<1>1. /\ stage \in SeqSet(Stages) \cup {"generate"} /\ todo # <<>> /\ ~Going(stage) /\ todo' = Tail(todo) /\ at' = 1
      /\ UNCHANGED <<project, calls, stackState, hasError, stage, noErrors, errors, sources, asts, order>>
  BY ZenonT(40) DEF EndItems, driver, checks, trees
<1>2. CASE stage = "generate"
  <2>1. stage' \notin Walking /\ stage' # "idle" /\ stage' # "merge" /\ stage' # "parse" /\ at' \in Nat \ {0}
    BY <1>1, <1>2 DEF Walking
  <2>2. Shape'
    BY ZenonT(40), <1>1, <1>2, <2>1 DEF EInv, Shape
  <2>3. SelectError' = SelectError
    BY ZenonT(40), <1>1, SelectionFixed
  <2>4. ErrorsSeen'
    <3>1. ~hasError /\ errors \subseteq {"pragma"} /\ ~SelectError
      BY ZenonT(40), <1>2 DEF EInv, ErrorsSeen
    <3> QED
      BY ZenonT(40), <1>1, <1>2, <2>3, <3>1, SeenCompiling
  <2> QED
    BY ZenonT(40), <2>2, <2>4 DEF EInv
<1>3. CASE stage # "generate"
  <2>1. stage \in (Walking \cup {"end"}) \ {"merge"}
    <3>1. PICK i \in 1..14 : stage = Stages[i]
      BY ZenonT(40), <1>1, <1>3, StagesAre DEF SeqSet
    <3> QED
      BY <3>1 DEF Stages, Walking
  <2>2. CASE stage = "end"
    <3>1. stage' \notin Walking /\ stage' # "idle" /\ stage' # "merge" /\ stage' # "parse" /\ at' \in Nat \ {0} /\ stage' \in Walking \cup {"end"}
      BY SMTT(40), <1>1, <2>2 DEF Walking
    <3>2. IsSeq(todo')
      BY ZenonT(40), <1>1, <2>2, SeqTail DEF EInv, Shape
    <3>3. Shape'
      BY ZenonT(40), <1>1, <2>2, <3>1, <3>2 DEF EInv, Shape
    <3>4. errors # {} => Flagged
      <4>1. stage \in Late
        BY ZenonT(40), <2>2 DEF Late
      <4> QED
        BY ZenonT(40), <4>1 DEF EInv, ErrorsSeen
    <3>5. ErrorsSeen'
      BY ZenonT(40), <1>1, <3>1, <3>3, <3>4, SeenFlagged DEF Flagged
    <3> QED
      BY ZenonT(40), <3>3, <3>5 DEF EInv
  <2>3. CASE stage # "end"
    <3>1. Shape'
      <4>1. noErrors' \in BOOLEAN /\ Shape /\ at' \in Nat \ {0}
        BY SMTT(40), <1>1 DEF EInv, Shape
      <4> QED
        BY ZenonT(40), <1>1, <2>1, <2>3, <4>1, WalkShape
    <3>2. Flagged' = Flagged /\ Met' = Met
      BY ZenonT(40), <1>1 DEF Flagged, Met, WithNodes, SeqSet
    <3>3. CASE errors # {} => Flagged
      BY ZenonT(40), <1>1, <2>1, <3>1, <3>2, <3>3, SeenFlagged DEF EInv
    <3>4. CASE errors # {} /\ ~Flagged
      <4>1. stage \notin Late /\ (stage \in Early => Met) /\ (stage = "types" => Ahead)
        BY ZenonT(40), <3>4 DEF EInv, ErrorsSeen
      <4>2. CASE stage = "types"
        <5>1. ~(Head(todo) \in asts /\ at <= Len(project.files[Head(todo)]))
          <6> SUFFICES ASSUME Head(todo) \in asts PROVE ~(at <= Len(project.files[Head(todo)]))
            BY ZenonT(40)
          <6>1. Head(todo) \in DOMAIN project.files
            BY ZenonT(40) DEF EInv, Shape
          <6>2. Len(ItemsOf(Head(todo))) = Len(project.files[Head(todo)])
            BY ZenonT(40), <4>2, <6>1, NodesAre DEF EInv, ItemsOf
          <6> QED
            BY ZenonT(40), <1>1, <4>2, <6>2 DEF Going, Doing
        <5>2. PICK k \in 2..Len(todo) : WithNodes(todo[k])
          BY ZenonT(40), <4>1, <4>2, <5>1 DEF Ahead
        <5>3. IsSeq(todo) /\ Len(todo) \in Nat /\ Len(Tail(todo)) = Len(todo) - 1 /\ IsSeq(Tail(todo))
              /\ \A j \in 1..(Len(todo) - 1) : Tail(todo)[j] = todo[j + 1]
          BY ZenonT(40), <1>1, <4>2, SeqIs, SeqTail DEF EInv, Shape
        <5>4. k - 1 \in 1..(Len(todo) - 1) /\ (k - 1) + 1 = k /\ Len(Tail(todo)) >= 1
          BY SMTT(40), <5>3
        <5>5. Tail(todo)[k - 1] = todo[k] /\ Tail(todo) # <<>> /\ Head(Tail(todo)) = Tail(todo)[1]
          <6>1. Tail(todo) # <<>>
            <7> DEFINE t == Tail(todo)
            <7>1. Len(t) >= 1
              BY ZenonT(40), <5>4
            <7> HIDE DEF t
            <7>2. t # <<>>
              BY SMTT(40), <7>1, EmptyIsSeq
            <7> QED
              BY ZenonT(40), <7>2 DEF t
          <6>2. Tail(todo)[k - 1] = todo[(k - 1) + 1]
            BY ZenonT(40), <5>3, <5>4
          <6> QED
            BY ZenonT(40), <5>3, <5>4, <6>1, <6>2, SeqIs
        <5>6. Ahead'
          <6>1. CASE k = 2
            <7>1. Head(todo') = todo[k] /\ todo[k] \in asts /\ project.files[todo[k]] # <<>>
              BY SMTT(40), <1>1, <5>2, <5>5, <6>1 DEF WithNodes
            <7>2. Len(project.files[todo[k]]) \in Nat /\ Len(project.files[todo[k]]) >= 1
              <8>1. IsSeq(project.files[todo[k]])
                BY ZenonT(40), <7>1, FilesAre DEF EInv, Shape
              <8> QED
                BY ZenonT(40), <7>1, <8>1, SeqIs
            <7> QED
              BY ZenonT(40), <1>1, <5>5, <7>1, <7>2 DEF Ahead
          <6>2. CASE k # 2
            <7>1. k - 1 \in 2..Len(Tail(todo)) /\ WithNodes(Tail(todo)[k - 1])
              BY SMTT(40), <5>2, <5>3, <5>5, <6>2
            <7> QED
              BY ZenonT(40), <1>1, <5>5, <7>1 DEF Ahead, WithNodes
          <6> QED
            BY ZenonT(40), <6>1, <6>2
        <5> QED
          BY ZenonT(40), <1>1, <3>1, <4>2, <5>6, SeenTypes DEF EInv
      <4>3. CASE stage # "types"
        <5>1. stage \in Early
          BY ZenonT(40), <2>1, <2>3, <4>1, <4>3 DEF Walking, Early, Late
        <5> QED
          BY ZenonT(40), <1>1, <3>1, <3>2, <4>1, <5>1, SeenEarly DEF EInv
      <4> QED
        BY ZenonT(40), <4>2, <4>3
    <3> QED
      BY ZenonT(40), <3>1, <3>3, <3>4 DEF EInv
  <2> QED
    BY ZenonT(40), <2>1, <2>2, <2>3
<1> QED
  BY ZenonT(40), <1>2, <1>3
\* A check whose result is added to the flag
LEMMA CheckedSeen ==
  ASSUME EInv, NEW s, NEW p, NEW found, Checked(s, p, found), stage \in Walking, stage # "merge"
  PROVE  EInv'
<1>1. /\ noErrors' = (noErrors /\ errors' = {})
      /\ UNCHANGED <<project, calls, stackState, hasError, sources, asts, order>>
  BY ZenonT(40) DEF Checked, driver, trees
<1>2. noErrors' \in BOOLEAN /\ (errors' # {} => Flagged')
  BY ZenonT(40), <1>1 DEF Flagged
<1>3. CASE stage' = "end" /\ todo' = <<>> /\ at' = 1
  <2>1. stage' \in (Walking \cup {"end"}) \ {"merge"} /\ stage' \in Walking \cup {"end"} /\ todo' \in {<<>>, order}
    BY ZenonT(40), <1>3 DEF Walking
  <2>2. Shape'
    BY ZenonT(40), <1>1, <1>2, <1>3, <2>1, StageShape DEF EInv
  <2> QED
    BY ZenonT(40), <1>2, <2>1, <2>2, SeenFlagged DEF EInv
<1>4. CASE at' = at + 1 /\ stage' = stage /\ todo' = todo
  <2>1. at' \in Nat \ {0}
    BY SMTT(40), <1>4 DEF EInv, Shape
  <2>2. Shape'
    BY ZenonT(40), <1>1, <1>2, <1>4, <2>1, WalkShape DEF EInv
  <2>3. stage' \in Walking \cup {"end"}
    BY ZenonT(40), <1>4
  <2> QED
    BY ZenonT(40), <1>2, <2>2, <2>3, SeenFlagged DEF EInv
<1> QED
  BY ZenonT(40), <1>3, <1>4 DEF Checked, GoTo, GoOn

\* A check that adds no error, or that adds one when there is a node that is still to be checked
LEMMA GoOnSeen ==
  ASSUME EInv, stage \in Early \cup {"flow"}, stage' \in Early \cup {"flow"}, at' \in Nat \ {0}, todo' = todo,
         stage' = "merge" => todo # <<>> /\ Head(todo) \in asts /\ project.files[Head(todo)] # <<>>,
         stage = "flow" <=> stage' = "flow", errors' = errors \/ (stage' \in Early /\ Met),
         UNCHANGED <<project, calls, stackState, hasError, noErrors, sources, asts, order>>
  PROVE  EInv'
<1>1. stage \in Walking /\ stage' \in Walking /\ (stage # "flow" => stage \in Early) /\ (stage' # "flow" => stage' \in Early)
  BY ZenonT(40) DEF Walking, Early
<1>2. Shape'
  BY ZenonT(40), <1>1, WalkShape DEF EInv, Shape
<1>3. Flagged' = Flagged /\ Met' = Met
  BY ZenonT(40) DEF Flagged, Met, WithNodes, SeqSet
<1>4. CASE stage = "flow"
  <2>1. stage \in Late /\ stage' \notin Early
    BY ZenonT(40), <1>4 DEF Late, Early
  <2>2. errors # {} => Flagged
    BY ZenonT(40), <2>1 DEF EInv, ErrorsSeen
  <2> QED
    BY ZenonT(40), <1>1, <1>2, <1>3, <2>1, <2>2, SeenFlagged DEF EInv
<1>5. CASE stage # "flow"
  <2>1. errors # {} => Flagged \/ Met
    BY ZenonT(40), <1>1, <1>5 DEF EInv, ErrorsSeen
  <2>2. errors' # {} => Flagged' \/ Met'
    BY ZenonT(40), <1>3, <2>1
  <2> QED
    BY ZenonT(40), <1>1, <1>2, <1>5, <2>2, SeenEarly DEF EInv
<1> QED
  BY ZenonT(40), <1>4, <1>5

\* analyze() returns false.
LEMMA AnalyzeFailsSeen ==
  ASSUME EInv, stage \in Walking, Return(FALSE),
         UNCHANGED <<project, stackState, hasError, noErrors, sources, asts, order>>
  PROVE  EInv'
<1>1. calls # <<>> /\ stackState' = ParsingPerformed /\ stackState' \in 0..4 /\ stackState' # 0
  BY SMTT(40) DEF EInv, Shape, Walking, ParsingPerformed
<1>2. Shape' /\ stage' = "idle" /\ Failed'
  BY ZenonT(40), <1>1, Returned DEF EInv, Shape
<1>3. stackState' # CompilationSuccessful
  BY SMTT(40), <1>1 DEF ParsingPerformed, CompilationSuccessful
<1> QED
  BY ZenonT(40), <1>2, <1>3, SeenIdle DEF EInv

LEMMA CheckFileSeen == ASSUME EInv, CheckFile PROVE EInv'
<1>1. stage \in Walking /\ stage # "merge" /\ Checked(stage, Current, FALSE)
  BY ZenonT(40) DEF CheckFile, Going, Doing, Walking
<1> QED
  BY ZenonT(40), <1>1, CheckedSeen

\* The file that a stage is at has a node.
LEMMA MetHere ==
  ASSUME EInv, stage \in Walking, todo # <<>>, Head(todo) \in asts, project.files[Head(todo)] # <<>>
  PROVE  Met
<1>1. IsSeq(todo) /\ SeqSet(todo) \subseteq SeqSet(order)
  <2>1. stage # "generate"
    BY ZenonT(40) DEF Walking
  <2> QED
    BY ZenonT(40), <2>1 DEF EInv, Shape
<1>2. Head(todo) \in SeqSet(todo)
  BY SMTT(40), <1>1, SeqIs
<1> QED
  BY ZenonT(40), <1>1, <1>2 DEF Met, WithNodes

LEMMA RegisteredNothing == ASSUME NEW con PROVE RegisterInOrder(con, <<>>).errors = {}
<1> DEFINE first == [con |-> con, errors |-> {}]
           step(f, n) == LET e == <<Name(<<>>[n]), <<>>[n]>>
                         IN  [con |-> registerDeclaration(f[n - 1].con, {e}, ~isVisibleInContract(<<>>[n])),
                              errors |-> f[n - 1].errors \cup Conflicts(f[n - 1].con, {e})]
           is(f) == f = [n \in 0..Len(<<>>) |-> IF n = 0 THEN first ELSE step(f, n)]
<1>1. Len(<<>>) = 0
  BY ZenonT(40), EmptyIsSeq
<1>2. is([n \in 0..Len(<<>>) |-> first])
  <2> HIDE DEF first, step
  <2> QED
    BY SMTT(40), <1>1
<1>3. is(CHOOSE f : is(f))
  <2> HIDE DEF is
  <2> QED
    BY ZenonT(40), <1>2
<1>4. RegisterInOrder(con, <<>>) = (CHOOSE f : is(f))[Len(<<>>)]
  BY ZenonT(40) DEF RegisterInOrder
<1>5. (CHOOSE f : is(f))[0] = first
  <2> DEFINE g == CHOOSE f : is(f)
  <2>1. g = [n \in 0..Len(<<>>) |-> IF n = 0 THEN first ELSE step(g, n)]
    BY ZenonT(40), <1>3
  <2> HIDE DEF g, first, step
  <2> QED
    BY SMTT(40), <1>1, <2>1 DEF g
<1> QED
  BY SMTT(40), <1>1, <1>4, <1>5
LEMMA WholeFile ==
  ASSUME EInv, Going("register") \/ Going("perform")
  PROVE  todo # <<>> /\ Head(todo) \in asts /\ Current = Head(todo)
<1>1. todo # <<>> /\ Head(todo) \in asts /\ at <= Len(ItemsOf(Head(todo))) /\ ItemsOf(Head(todo)) = <<Head(todo)>>
  BY ZenonT(40) DEF Going, Doing, ItemsOf
<1>2. at \in Nat \ {0}
  BY ZenonT(40) DEF EInv, Shape
<1>3. at = 1
  <2>1. Len(ItemsOf(Head(todo))) = 1
    BY ZenonT(40), <1>1, OneIsSeq
  <2>2. at <= 1
    BY ZenonT(40), <1>1, <2>1
  <2> QED
    BY SMTT(40), <1>2, <2>2
<1> QED
  BY ZenonT(40), <1>1, <1>3, OneIsSeq DEF Current

\* A stage that goes through the nodes of a file is at one of them.
LEMMA NodeMet ==
  ASSUME EInv, stage \in {"resolve", "level", "types"}, Going(stage)
  PROVE  todo # <<>> /\ Head(todo) \in asts /\ project.files[Head(todo)] # <<>>
<1>1. todo # <<>> /\ Head(todo) \in asts /\ at <= Len(ItemsOf(Head(todo))) /\ ItemsOf(Head(todo)) = NodesOf(Head(todo))
  BY ZenonT(40) DEF Going, Doing, ItemsOf
<1>2. at \in Nat \ {0} /\ Head(todo) \in DOMAIN project.files
  BY ZenonT(40), <1>1 DEF EInv, Shape
<1>3. Len(project.files[Head(todo)]) >= 1
  BY SMTT(40), <1>1, <1>2, NodesAre DEF EInv
<1> QED
  BY <1>1, <1>3, EmptyIsSeq

LEMMA RegisterDeclarationsSeen == ASSUME EInv, RegisterDeclarations PROVE EInv'
<1>1. /\ stage = "register" /\ at' = at + 1 /\ stage' = stage /\ todo' = todo
      /\ UNCHANGED <<project, calls, stackState, hasError, noErrors, sources, asts, order>>
  BY ZenonT(40) DEF RegisterDeclarations, Going, Doing, GoOn, driver, trees
<1>2. todo # <<>> /\ Head(todo) \in asts /\ Current = Head(todo)
  BY ZenonT(40), WholeFile DEF RegisterDeclarations
<1> DEFINE p == Head(todo)
<1>3. errors' = errors \/ Met
  <2>1. CASE project.files[p] # <<>>
    <3>1. stage \in Walking
      BY ZenonT(40), <1>1 DEF Walking
    <3> QED
      BY ZenonT(40), <1>2, <2>1, <3>1, MetHere
  <2>2. CASE project.files[p] = <<>>
    <3>1. NodesOf(p) = <<>> /\ SeqSet(NodesOf(p)) = {}
      <4>1. IsSeq(NodesOf(p)) /\ Len(NodesOf(p)) = 0
        <5>1. p \in DOMAIN project.files
          BY ZenonT(40), <1>2 DEF EInv, Shape
        <5> QED
          BY ZenonT(40), <2>2, <5>1, NodesAre, EmptyIsSeq DEF EInv
      <4>2. NodesOf(p) = <<>>
        BY SMTT(40), <4>1, SeqIs
      <4> QED
        BY ZenonT(40), <4>2, EmptyIsSeq
    <3>2. RegisterInOrder(scopes[<<p>>], NodesOf(p)).errors = {}
      BY ZenonT(40), <3>1, RegisteredNothing
    <3>3. errors' = errors
      BY ZenonT(40), <1>2, <3>1, <3>2 DEF RegisterDeclarations, Reporting
    <3> QED
      BY ZenonT(40), <3>3
  <2> QED
    BY ZenonT(40), <2>1, <2>2
<1>4. stage \in Early /\ stage' \in Early /\ stage' # "merge" /\ stage # "flow"
  BY ZenonT(40), <1>1 DEF Early
<1>5. at' \in Nat \ {0}
  BY SMTT(40), <1>1 DEF EInv, Shape
<1> QED
  BY ZenonT(40), <1>1, <1>3, <1>4, <1>5, GoOnSeen

LEMMA PerformImportsSeen == ASSUME EInv, PerformImports PROVE EInv'
<1>1. /\ stage = "perform" /\ stage \in Walking /\ stage \in Early /\ stage # "flow" /\ stage # "merge"
      /\ UNCHANGED <<project, stackState, hasError, noErrors, sources, asts, order>>
  BY ZenonT(40) DEF PerformImports, Going, Doing, trees, Walking, Early
<1>2. CASE Return(FALSE)
  BY ZenonT(40), <1>1, <1>2, AnalyzeFailsSeen
<1>3. CASE GoOn /\ calls' = calls /\ errors' = errors
  <2>1. at' \in Nat \ {0} /\ stage' = stage /\ todo' = todo
    BY SMTT(40), <1>3 DEF GoOn, EInv, Shape
  <2> QED
    BY ZenonT(40), <1>1, <1>3, <2>1, GoOnSeen
<1> QED
  BY ZenonT(40), <1>2, <1>3 DEF PerformImports, Reporting

LEMMA ResolveOtherSeen == ASSUME EInv, ResolveOther PROVE EInv'
<1>1. /\ stage = "resolve" /\ stage \in Early /\ stage # "flow" /\ stage # "merge" /\ GoOn /\ calls' = calls /\ errors' = errors
      /\ UNCHANGED <<project, stackState, hasError, noErrors, sources, asts, order>>
  BY ZenonT(40) DEF ResolveOther, Going, Doing, driver, checks, trees, Early
<1>2. at' \in Nat \ {0} /\ stage' = stage /\ todo' = todo
  BY SMTT(40), <1>1 DEF GoOn, EInv, Shape
<1> QED
  BY ZenonT(40), <1>1, <1>2, GoOnSeen

LEMMA ResolveContractSeen == ASSUME EInv, ResolveContract PROVE EInv'
<1>1. /\ stage = "resolve" /\ stage \in Walking /\ stage \in Early /\ stage # "flow"
      /\ UNCHANGED <<project, stackState, hasError, noErrors, sources, asts, order>>
  BY ZenonT(40) DEF ResolveContract, Going, Doing, trees, Walking, Early
<1>2. CASE Return(FALSE)
  BY ZenonT(40), <1>1, <1>2, AnalyzeFailsSeen
<1>3. CASE stage' = "merge" /\ UNCHANGED <<calls, todo, at, errors>>
  <2>1. stage' \in Early /\ stage' # "flow" /\ at' \in Nat \ {0}
    BY ZenonT(40), <1>3 DEF Early, EInv, Shape
  <2>2. todo # <<>> /\ Head(todo) \in asts /\ project.files[Head(todo)] # <<>>
    BY ZenonT(40), <1>1, NodeMet DEF ResolveContract
  <2> QED
    BY ZenonT(40), <1>1, <1>3, <2>1, <2>2, GoOnSeen
<1> QED
  BY ZenonT(40), <1>2, <1>3 DEF ResolveContract

LEMMA PlaceCandidateSeen == ASSUME EInv, PlaceCandidate PROVE EInv'
<1>1. UNCHANGED evars
  BY ZenonT(40) DEF PlaceCandidate, evars, driver, checks, trees
<1> QED
  BY ZenonT(40), <1>1, Unseen

LEMMA MergeFailsSeen == ASSUME EInv, MergeFails PROVE EInv'
<1>1. /\ stage \in Walking /\ Return(FALSE)
      /\ UNCHANGED <<project, stackState, hasError, noErrors, sources, asts, order>>
  BY ZenonT(40) DEF MergeFails, trees, Walking
<1> QED
  BY ZenonT(40), <1>1, AnalyzeFailsSeen

LEMMA LinearizedSeen == ASSUME EInv, Linearized PROVE EInv'
<1>1. /\ stage = "merge" /\ stage \in Walking /\ stage \in Early /\ stage # "flow"
      /\ UNCHANGED <<project, stackState, hasError, noErrors, sources, asts, order>>
  BY ZenonT(40) DEF Linearized, trees, Walking, Early
<1>2. CASE Return(FALSE)
  BY ZenonT(40), <1>1, <1>2, AnalyzeFailsSeen
<1>3. CASE stage' = "resolve" /\ at' = at + 1 /\ UNCHANGED <<todo, calls>>
  <2>1. stage' \in Early /\ stage' # "flow" /\ stage' # "merge" /\ at' \in Nat \ {0}
    BY SMTT(40), <1>3 DEF Early, EInv, Shape
  <2>2. Met
    <3>1. todo # <<>> /\ Head(todo) \in asts /\ project.files[Head(todo)] # <<>>
      BY ZenonT(40), <1>1 DEF EInv, Shape
    <3> QED
      BY ZenonT(40), <1>1, <3>1, MetHere
  <2> QED
    BY ZenonT(40), <1>1, <1>3, <2>1, <2>2, GoOnSeen
<1> QED
  BY ZenonT(40), <1>2, <1>3 DEF Linearized
LEMMA CheckContractLevelSeen == ASSUME EInv, CheckContractLevel PROVE EInv'
<1>1. stage = "level" /\ stage \in Walking /\ stage \in Early /\ stage # "flow" /\ stage # "merge"
  BY ZenonT(40) DEF CheckContractLevel, Going, Doing, Walking, Early
<1>2. CASE Kind(Current) # "contract"
  <2>1. GoOn /\ UNCHANGED <<project, calls, stackState, hasError, noErrors, errors, sources, asts, order>>
    BY ZenonT(40), <1>2 DEF CheckContractLevel, driver, checks, trees
  <2>2. at' \in Nat \ {0} /\ stage' = stage /\ todo' = todo
    BY SMTT(40), <2>1 DEF GoOn, EInv, Shape
  <2> QED
    BY ZenonT(40), <1>1, <2>1, <2>2, GoOnSeen
<1>3. CASE Kind(Current) = "contract"
  <2>1. \E found : Checked("level", Current[1], found)
    BY ZenonT(40), <1>3 DEF CheckContractLevel
  <2> QED
    BY ZenonT(40), <1>1, <2>1, CheckedSeen
<1> QED
  BY ZenonT(40), <1>2, <1>3

LEMMA OtherChecksSeen ==
  ASSUME EInv, CheckTypes \/ CheckPostTypes \/ CheckViewPure \/ CheckTvmTypes
  PROVE  EInv'
<1>1. stage \in Walking /\ stage # "merge"
  BY ZenonT(40) DEF CheckTypes, CheckPostTypes, CheckViewPure, CheckTvmTypes, Going, Doing, Walking
<1>2. \E s, p, found : Checked(s, p, found)
  <2>1. CASE CheckTypes
    BY ZenonT(40), <2>1 DEF CheckTypes
  <2>2. CASE CheckPostTypes
    BY ZenonT(40), <2>2 DEF CheckPostTypes
  <2>3. CASE CheckViewPure
    BY ZenonT(40), <2>3 DEF CheckViewPure
  <2>4. CASE CheckTvmTypes
    BY ZenonT(40), <2>4 DEF CheckTvmTypes
  <2> QED
    BY ZenonT(40), <2>1, <2>2, <2>3, <2>4
<1> QED
  BY ZenonT(40), <1>1, <1>2, CheckedSeen

LEMMA CrashSeen == ASSUME EInv, Crash PROVE EInv'
<1>1. calls # <<>> /\ Throw
  BY ZenonT(40) DEF Crash, Going, Doing, EInv, Shape
<1> QED
  BY ZenonT(40), <1>1, ThrowSeen

LEMMA FlowSeen == ASSUME EInv, StartFlow \/ ContinueFlow \/ AnalyzeFlow PROVE EInv'
<1>1. CASE StartFlow \/ ContinueFlow
  <2>1. UNCHANGED evars
    BY ZenonT(40), <1>1 DEF StartFlow, ContinueFlow, evars, driver, checks, trees
  <2> QED
    BY ZenonT(40), <2>1, Unseen
<1>2. CASE AnalyzeFlow
  <2>1. /\ stage = "flow" /\ GoOn
        /\ UNCHANGED <<project, calls, stackState, hasError, noErrors, errors, sources, asts, order>>
    BY ZenonT(40), <1>2 DEF AnalyzeFlow, Going, Doing, driver, checks, trees
  <2>2. at' \in Nat \ {0} /\ stage' = stage /\ todo' = todo
    BY SMTT(40), <2>1 DEF GoOn, EInv, Shape
  <2> QED
    BY ZenonT(40), <2>1, <2>2, GoOnSeen
<1> QED
  BY ZenonT(40), <1>1, <1>2

\* Code generation starts, or goes on.
LEMMA CompileShape ==
  ASSUME Shape, stage' \in {"select", "generate"}, stage' # "generate" => IsSeq(todo'), at' \in Nat \ {0}, calls # <<>>,
         stackState' \in 0..4, stackState' >= AnalysisPerformed, hasError' \in BOOLEAN,
         UNCHANGED <<project, calls, noErrors, sources, asts, order>>
  PROVE  Shape'
<1>1. stackState' # 0 /\ stage' \notin Walking /\ stage' # "idle" /\ stage' # "parse" /\ stage' # "merge"
  BY SMTT(40) DEF Walking, AnalysisPerformed
<1> QED
  BY ZenonT(40), <1>1 DEF Shape

LEMMA EndAnalyzeSeen == ASSUME EInv, EndAnalyze PROVE EInv'
<1>1. /\ stage = "end" /\ stackState' = AnalysisPerformed /\ calls # <<>>
      /\ UNCHANGED <<project, noErrors, errors, sources, asts, order>>
  BY ZenonT(40) DEF EndAnalyze, checks, trees, EInv, Shape
<1>2. hasError' = Flagged /\ hasError' \in BOOLEAN
  BY ZenonT(40) DEF EndAnalyze, Flagged
<1>3. errors' # {} => hasError'
  <2>1. stage \in Late
    BY ZenonT(40), <1>1 DEF Late
  <2>2. errors # {} => Flagged
    BY ZenonT(40), <2>1 DEF EInv, ErrorsSeen
  <2> QED
    BY ZenonT(40), <1>1, <1>2, <2>2
<1>4. stackState' \in 0..4 /\ stackState' # 0 /\ stackState' # CompilationSuccessful /\ ~(stackState' < AnalysisPerformed)
      /\ stackState' >= AnalysisPerformed
  BY <1>1 DEF AnalysisPerformed, CompilationSuccessful
<1>5. CASE ~hasError' /\ GoTo("select", <<>>) /\ calls' = calls
  <2>1. stage' = "select" /\ IsSeq(todo') /\ at' \in Nat \ {0}
    BY SMTT(40), <1>5, EmptyIsSeq DEF GoTo
  <2>2. Shape'
    BY ZenonT(40), <1>1, <1>2, <1>4, <1>5, <2>1, CompileShape DEF EInv
  <2>3. errors' = {}
    BY ZenonT(40), <1>3, <1>5
  <2>4. ErrorsSeen'
    BY ZenonT(40), <1>4, <1>5, <2>1, <2>3, SeenCompiling
  <2> QED
    BY ZenonT(40), <2>2, <2>4 DEF EInv
<1>6. CASE Return(~hasError')
  <2>1. Shape' /\ stage' = "idle" /\ (hasError' => Failed')
    <3>1. noErrors' \in BOOLEAN /\ IsSeq(order') /\ sources' \subseteq DOMAIN project.files /\ asts' \subseteq sources'
      BY ZenonT(40), <1>1 DEF EInv, Shape
    <3> QED
      BY ZenonT(40), <1>1, <1>2, <1>4, <1>6, <3>1, Returned DEF EInv
  <2>2. ErrorsSeen'
    BY ZenonT(40), <1>3, <1>4, <2>1, SeenIdle
  <2> QED
    BY ZenonT(40), <2>1, <2>2 DEF EInv
<1> QED
  BY ZenonT(40), <1>5, <1>6 DEF EndAnalyze

LEMMA StartCompileSeen == ASSUME EInv, StartCompile PROVE EInv'
<1>1. calls # <<>> /\ errors \subseteq {"pragma"}
  <2>1. Calling("compile")
    BY ZenonT(40) DEF StartCompile
  <2> QED
    BY ZenonT(40), <2>1, NotFailed
<1>2. CASE hasError
  BY ZenonT(40), <1>1, <1>2, ThrowSeen DEF StartCompile
<1>3. CASE ~hasError
  <2>1. /\ stage' = "select" /\ todo' = <<>> /\ at' = 1 /\ stackState >= AnalysisPerformed
        /\ UNCHANGED <<project, calls, stackState, hasError, noErrors, errors, sources, asts, order>>
    BY ZenonT(40), <1>3 DEF StartCompile, GoTo, driver, checks, trees
  <2>2. IsSeq(todo') /\ at' \in Nat \ {0}
    BY SMTT(40), <2>1, EmptyIsSeq
  <2>3. stackState' \in 0..4 /\ hasError' \in BOOLEAN
    BY ZenonT(40), <2>1 DEF EInv, Shape
  <2>4. Shape'
    BY ZenonT(40), <1>1, <2>1, <2>2, <2>3, CompileShape DEF EInv
  <2>5. SelectError' = SelectError /\ (stackState = CompilationSuccessful => ~SelectError)
    <3>1. SelectError' = SelectError
      BY ZenonT(40), <2>1, SelectionFixed
    <3>2. stackState = CompilationSuccessful => ~SelectError
      BY ZenonT(40) DEF EInv, ErrorsSeen
    <3> QED
      BY ZenonT(40), <3>1, <3>2
  <2>6. ErrorsSeen'
    BY ZenonT(40), <1>1, <1>3, <2>1, <2>5, SeenCompiling
  <2> QED
    BY ZenonT(40), <2>4, <2>6 DEF EInv
<1> QED
  BY ZenonT(40), <1>2, <1>3

LEMMA SelectSeen == ASSUME EInv, Select PROVE EInv'
<1>1. /\ stage = "select" /\ calls # <<>> /\ stackState \in 0..4 /\ stackState >= AnalysisPerformed
      /\ UNCHANGED <<project, hasError, noErrors, sources, asts, order>>
  BY ZenonT(40) DEF Select, trees, EInv, Shape, Walking
<1>2. ~hasError /\ errors \subseteq {"pragma"} /\ (stackState = CompilationSuccessful => ~SelectError)
  BY ZenonT(40), <1>1 DEF EInv, ErrorsSeen
<1>3. SelectError' = SelectError
  BY ZenonT(40), <1>1, SelectionFixed
<1>4. ~SelectError => errors' \subseteq {"pragma"}
  BY ZenonT(40), <1>2 DEF Select
<1>5. \A n \in {stackState, CompilationSuccessful} : n \in 0..4 /\ n # 0 /\ ~(n < AnalysisPerformed)
  BY SMTT(40), <1>1 DEF CompilationSuccessful, AnalysisPerformed
<1>6. /\ hasError' \in BOOLEAN /\ noErrors' \in BOOLEAN /\ IsSeq(order')
      /\ sources' \subseteq DOMAIN project.files /\ asts' \subseteq sources'
  BY ZenonT(40), <1>1 DEF EInv, Shape
<1>7. CASE SelectError
  <2>1. Return(FALSE) /\ stackState' = stackState
    BY ZenonT(40), <1>7 DEF Select
  <2>2. Shape' /\ stage' = "idle" /\ Failed'
    BY ZenonT(40), <1>1, <1>5, <1>6, <2>1, Returned DEF EInv
  <2>3. ErrorsSeen'
    BY ZenonT(40), <1>2, <1>7, <2>1, <2>2, SeenIdle
  <2> QED
    BY ZenonT(40), <2>2, <2>3 DEF EInv
<1>8. CASE ~SelectError /\ Wanted = {}
  <2>1. Return(TRUE) /\ stackState' = CompilationSuccessful
    BY ZenonT(40), <1>8 DEF Select
  <2>2. Shape' /\ stage' = "idle"
    BY ZenonT(40), <1>1, <1>5, <1>6, <2>1, Returned DEF EInv
  <2>3. ErrorsSeen'
    BY ZenonT(40), <1>3, <1>4, <1>5, <1>8, <2>1, <2>2, SeenIdle
  <2> QED
    BY ZenonT(40), <2>2, <2>3 DEF EInv
<1>9. CASE ~SelectError /\ Wanted # {}
  <2>1. stage' = "generate" /\ at' = 1 /\ UNCHANGED <<calls, stackState>>
    BY ZenonT(40), <1>9 DEF Select, GoTo
  <2>2. Shape'
    <3>1. at' \in Nat \ {0}
      BY SMTT(40), <2>1
    <3> QED
      BY ZenonT(40), <1>1, <1>6, <2>1, <3>1, CompileShape DEF EInv
  <2>3. ErrorsSeen'
    BY ZenonT(40), <1>1, <1>2, <1>3, <1>4, <1>9, <2>1, SeenCompiling
  <2> QED
    BY ZenonT(40), <2>2, <2>3 DEF EInv
<1> QED
  BY ZenonT(40), <1>7, <1>8, <1>9

LEMMA GenerateFunctionSeen == ASSUME EInv, GenerateFunction PROVE EInv'
<1>1. /\ stage = "generate" /\ stage' = "generate" /\ at' = at + 1
      /\ UNCHANGED <<project, calls, stackState, hasError, noErrors, errors, sources, asts, order>>
  BY ZenonT(40) DEF GenerateFunction, GoOn, Going, Doing, driver, checks, trees
<1>2. calls # <<>> /\ stackState \in 0..4 /\ stackState >= AnalysisPerformed /\ at' \in Nat \ {0} /\ hasError \in BOOLEAN
  BY SMTT(40), <1>1 DEF EInv, Shape, Walking
<1>3. Shape'
  BY ZenonT(40), <1>1, <1>2, CompileShape DEF EInv
<1>4. SelectError' = SelectError
  BY ZenonT(40), <1>1, SelectionFixed
<1>5. ~hasError /\ errors \subseteq {"pragma"} /\ ~SelectError
  BY ZenonT(40), <1>1 DEF EInv, ErrorsSeen
<1>6. ErrorsSeen'
  BY ZenonT(40), <1>1, <1>4, <1>5, SeenCompiling
<1> QED
  BY ZenonT(40), <1>3, <1>6 DEF EInv

LEMMA EndGenerateSeen == ASSUME EInv, EndGenerate PROVE EInv'
<1>1. /\ stage = "generate" /\ Return(TRUE) /\ stackState' = CompilationSuccessful /\ calls # <<>>
      /\ UNCHANGED <<project, hasError, noErrors, errors, sources, asts, order>>
  BY ZenonT(40) DEF EndGenerate, EndOf, checks, trees, EInv, Shape
<1>2. ~hasError /\ errors \subseteq {"pragma"} /\ ~SelectError
  BY ZenonT(40), <1>1 DEF EInv, ErrorsSeen
<1>3. stackState' \in 0..4 /\ stackState' # 0 /\ ~(stackState' < AnalysisPerformed)
  BY <1>1 DEF CompilationSuccessful, AnalysisPerformed
<1>4. Shape' /\ stage' = "idle"
  <2>1. /\ hasError' \in BOOLEAN /\ noErrors' \in BOOLEAN /\ IsSeq(order')
        /\ sources' \subseteq DOMAIN project.files /\ asts' \subseteq sources'
    BY ZenonT(40), <1>1 DEF EInv, Shape
  <2> QED
    BY ZenonT(40), <1>1, <1>3, <2>1, Returned DEF EInv
<1>5. SelectError' = SelectError
  BY ZenonT(40), <1>1, SelectionFixed
<1>6. ErrorsSeen'
  BY ZenonT(40), <1>1, <1>2, <1>3, <1>4, <1>5, SeenIdle
<1> QED
  BY ZenonT(40), <1>4, <1>6 DEF EInv

LEMMA StepSeen == ASSUME EInv, [Next]_vars PROVE EInv'
<1>1. CASE Execute \/ Done \/ UNCHANGED vars
  <2>1. UNCHANGED evars
    BY ZenonT(40), <1>1 DEF Execute, Done, Enter, Leave, Abort, Evaluate, Placeholder, Branch, IterateOnce, EndIterations, Jump,
                Stays, vars, evars, driver, checks, trees
  <2> QED
    BY ZenonT(40), <2>1, Unseen
<1> QED
  BY ZenonT(40), <1>1, resetSeen, setSourcesSeen, StartParseSeen, StartAnalyzeSeen, ParseFileSeen, EndParseSeen,
     TopoSortSeen, TopoSortNodeSeen, TopoSortedSeen, EndTopoSortSeen, NextStageSeen, EndItemsSeen, CheckFileSeen,
     RegisterDeclarationsSeen, PerformImportsSeen, ResolveOtherSeen, ResolveContractSeen, PlaceCandidateSeen,
     MergeFailsSeen, LinearizedSeen, CheckContractLevelSeen, OtherChecksSeen, CrashSeen, FlowSeen, EndAnalyzeSeen,
     StartCompileSeen, SelectSeen, GenerateFunctionSeen, EndGenerateSeen DEF Next

\* For all projects and all sequences of calls of a driver: no code is generated and no compilation
\* succeeds after an error of any stage of parse() and analyze(), whichever stage reports it and
\* whether or not it clears the flag at once; only the error of a pragma's parameters can be there.
THEOREM ErrorsStopProved == Spec => []ErrorsStop
<1>1. EInv => ErrorsStop
  BY ZenonT(40) DEF EInv, ErrorsSeen, ErrorsStop
<1> QED
  BY <1>1, InitSeen, StepSeen, PTL DEF Spec
=============================================================================
