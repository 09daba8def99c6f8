--------------------------- MODULE CompilerStack ---------------------------
(***************************************************************************)
(* CompilerStack: the calls of a driver, the parsing of the files and of   *)
(* what they import, the analysis stage by stage, the choice of the target *)
(* contract and the names of its functions; and then the execution of the  *)
(* functions, as the semantics of the language has it.                     *)
(* A project is [files, broken, unreadable, faults, pragma, recovery,      *)
(* contract, calls].  faults are the errors of checks that are not         *)
(* modelled, [at, file, fatal]; file 1 is the input file.                  *)
(***************************************************************************)
EXTENDS FlowGraph, ContractChecks

CONSTANTS Projects,
          MaxDepth    \* how deep calls are nested at most in an execution

IsSeq(s) == s \in Seq(SeqSet(s))
\* Calls, files, nodes and the bases of a contract are sequences, and imports are of files of the project.
ASSUME ProjectsAssumption ==
  \A q \in Projects :
    /\ q.calls \in Seq(STRING)
    /\ IsSeq(q.files) /\ q.files # <<>>
    /\ \A p \in DOMAIN q.files :
         /\ IsSeq(q.files[p])
         /\ \A i \in DOMAIN q.files[p] :
              LET n == q.files[p][i]
              IN  /\ n.k = "import" => IsSeq(n.at) /\ SeqSet(n.at) \subseteq DOMAIN q.files
                  /\ n.k = "contract" => IsSeq(n.bases)

\* StackState
Empty == 0
SourcesSet == 1
ParsingPerformed == 2
AnalysisPerformed == 3
CompilationSuccessful == 4

VARIABLES calls,       \* the calls that the driver has still to make, the current one first
          stackState, hasError,
          stage,       \* what the current call does; "idle" between calls
          todo,        \* the files, or contracts, that the stage has still to go through
          at,          \* the place in the first of them
          noErrors,    \* the flag of analyze()
          errors,      \* the stages that the error list has errors of
          sources,     \* m_sources
          asts,        \* those with a syntax tree
          order,       \* m_sourceOrder
          scopes,      \* m_scopes
          bases,       \* linearizedBaseContracts
          toMerge, result,  \* the lists of cThreeMerge, and what it has placed
          overriding,  \* baseFunctions
          unreachable, \* the warnings: <<function, text>>
          target,      \* the contract that code is generated for
          labels,      \* the names of the generated functions: <<name, function>>
          frames,      \* an execution: the functions entered, the outermost first
          effect       \* whether it has read, and written, state variables: a Rank

driver == <<calls, stackState, hasError>>
checks == <<noErrors, errors>>
trees == <<sources, asts, order>>
merging == <<toMerge, result>>
names == <<scopes, bases>>
output == <<target, labels>>
execution == <<frames, effect>>
vars == <<project, driver, stage, todo, at, checks, trees, names, merging, overriding, flow, unreachable, output, execution>>

NoTarget == <<>>
Nodes == UNION {SeqSet(NodesOf(p)) : p \in asts}
Contracts == {n \in Nodes : Kind(n) = "contract"}
Flatten(ss) == LET upTo[n \in 0 .. Len(ss)] == IF n = 0 THEN <<>> ELSE upTo[n - 1] \o ss[n] IN upTo[Len(ss)]
InOrder(ps, S) == SelectSeq(ps, LAMBDA p : p \in S)
Functions(c) == InOrder(MembersOf(c), {f \in definedFunctions(c) : Decl(f).implemented})

NoFlow == [NewFlow(<<>>, <<>>) EXCEPT !.work = <<>>]
Init ==
  /\ project \in Projects
  /\ calls = project.calls
  /\ stackState = Empty /\ hasError = FALSE
  /\ stage = "idle" /\ todo = <<>> /\ at = 1
  /\ noErrors = TRUE /\ errors = {}
  /\ sources = {} /\ asts = {} /\ order = <<>>
  /\ scopes = <<>> /\ bases = <<>> /\ toMerge = <<>> /\ result = <<>>
  /\ overriding = {} /\ flow = NoFlow /\ unreachable = {}
  /\ target = NoTarget /\ labels = {} /\ frames = <<>> /\ effect = 0

-----------------------------------------------------------------------------
(* The calls.                                                              *)

Calling(c) == stage = "idle" /\ calls # <<>> /\ Head(calls) = c
\* After a failure a driver makes no call but a reset.
AfterFailure ==
  LET later == {i \in 2 .. Len(calls) : calls[i] = "reset"}
  IN  IF later = {} THEN {<<>>} ELSE {SubSeq(calls, i, Len(calls)) : i \in LeastOf(later)}
GoTo(s, list) == stage' = s /\ todo' = list /\ at' = 1
Return(ok) == GoTo("idle", <<>>) /\ calls' \in IF ok THEN {Tail(calls)} ELSE AfterFailure
\* BOOST_THROW_EXCEPTION(CompilerError()), solAssert
Throw ==
  /\ Return(FALSE)
  /\ UNCHANGED <<project, stackState, hasError, checks, trees, names, merging, overriding, flow, unreachable, output, execution>>

reset ==
  /\ Calling("reset")
  /\ stackState' = Empty /\ hasError' = FALSE
  /\ noErrors' = TRUE /\ errors' = {}
  /\ sources' = {} /\ asts' = {} /\ order' = <<>>
  /\ scopes' = <<>> /\ bases' = <<>> /\ toMerge' = <<>> /\ result' = <<>>
  /\ overriding' = {} /\ flow' = NoFlow /\ unreachable' = {}
  /\ target' = NoTarget /\ labels' = {} /\ frames' = <<>> /\ effect' = 0
  /\ Return(TRUE)
  /\ UNCHANGED project

setSources ==
  /\ Calling("setSources")
  /\ IF stackState # Empty THEN Throw
     ELSE /\ sources' = {1} /\ stackState' = SourcesSet
          /\ Return(TRUE)
          /\ UNCHANGED <<project, hasError, checks, asts, order, names, merging, overriding, flow, unreachable, output, execution>>

\* parse(), as a call or in parseAndAnalyze() and compile()
StartParse ==
  /\ \/ Calling("parse") \/ Calling("parseAndAnalyze")
     \/ Calling("compile") /\ stackState < AnalysisPerformed
  /\ IF stackState # SourcesSet THEN Throw
     ELSE /\ errors' = {}
          /\ \E s \in Listed(sources) : GoTo("parse", s)
          /\ UNCHANGED <<project, driver, noErrors, trees, names, merging, overriding, flow, unreachable, output, execution>>

Visits(ps) == [i \in DOMAIN ps |-> <<"visit", ps[i]>>]
StartAnalyze ==
  /\ Calling("analyze")
  /\ IF stackState # ParsingPerformed THEN Throw
     ELSE /\ \E s \in Listed(sources) : GoTo("toposort", Visits(s))
          /\ order' = <<>>
          /\ UNCHANGED <<project, driver, checks, sources, asts, names, merging, overriding, flow, unreachable, output, execution>>

-----------------------------------------------------------------------------
(* parse().                                                                *)

Doing(s) == stage = s /\ todo # <<>>
EndOf(s) == stage = s /\ todo = <<>>
Reporting(s, found) == errors' = errors \cup (IF found THEN {s} ELSE {})

\* loadMissingSources: the files imported by p that can be read
newSources(p) ==
  {ImportedBy(n) : n \in {m \in ImportsOf(p) : Decl(m).at # <<>>}} \ (sources \cup project.unreadable)
importErrors(p) ==
  \E n \in ImportsOf(p) :
    \/ Len(Decl(n).at) # 1
    \/ ImportedBy(n) \in project.unreadable \ sources
ParseFile ==
  /\ Doing("parse")
  /\ LET p == Head(todo)
     IN  IF project.broken[p] = "null"
         THEN /\ Reporting("parse", TRUE)
              /\ todo' = Tail(todo)
              /\ UNCHANGED <<sources, asts>>
         ELSE /\ Reporting("parse", project.broken[p] = "error" \/ importErrors(p))
              /\ sources' = sources \cup newSources(p)
              /\ asts' = asts \cup {p}
              /\ \E s \in Listed(newSources(p)) : todo' = Tail(todo) \o s
  /\ UNCHANGED <<project, driver, stage, at, noErrors, order, names, merging, overriding, flow, unreachable, output, execution>>

EndParse ==
  /\ EndOf("parse")
  /\ stackState' = ParsingPerformed
  /\ hasError' = (hasError \/ errors # {})
  /\ IF Head(calls) = "parse" \/ (hasError' /\ ~project.recovery)
     THEN Return(~hasError') /\ UNCHANGED order
     ELSE /\ \E s \in Listed(sources) : GoTo("toposort", Visits(s))
          /\ order' = <<>> /\ UNCHANGED calls
  /\ UNCHANGED <<project, checks, sources, asts, names, merging, overriding, flow, unreachable, output, execution>>

-----------------------------------------------------------------------------
(* analyze().                                                              *)

\* resolveImports: depth first; todo has the files to enter and to leave, and the nodes to look at.
\* Mutant: a file comes before those it imports.
VisitBefore(p) ==
  IF p \in SeqSet(order) \/ \E i \in DOMAIN todo : todo[i] = <<"leave", p>> THEN Tail(todo)
  ELSE << <<"leave", p>> >> \o (IF p \in asts THEN [i \in DOMAIN NodesOf(p) |-> <<"node", <<p, i>> >>] ELSE <<>>) \o Tail(todo)
Visit(p) ==
  IF p \in SeqSet(order) \/ \E i \in DOMAIN todo : todo[i] = <<"leave", p>> THEN Tail(todo)
  ELSE (IF p \in asts THEN [i \in DOMAIN NodesOf(p) |-> <<"node", <<p, i>> >>] ELSE <<>>) \o << <<"leave", p>> >> \o Tail(todo)
TopoSort ==
  /\ Doing("toposort") /\ Head(todo)[1] = "visit"
  /\ todo' = Visit(Head(todo)[2])
  /\ UNCHANGED <<project, driver, stage, at, checks, trees, names, merging, overriding, flow, unreachable, output, execution>>
TopoSortNode ==
  /\ Doing("toposort") /\ Head(todo)[1] = "node"
  /\ LET n == Head(todo)[2]
     IN  IF Kind(n) # "import" THEN todo' = Tail(todo) /\ UNCHANGED <<stage, at, calls>>
         ELSE IF Decl(n).at = <<>> THEN Return(FALSE)
         ELSE IF ImportedBy(n) \notin sources THEN Return(FALSE)
         ELSE todo' = Visit(ImportedBy(n)) /\ UNCHANGED <<stage, at, calls>>
  /\ UNCHANGED <<project, stackState, hasError, checks, trees, names, merging, overriding, flow, unreachable, output, execution>>
TopoSorted ==
  /\ Doing("toposort") /\ Head(todo)[1] = "leave"
  /\ order' = Append(order, Head(todo)[2])
  /\ todo' = Tail(todo)
  /\ UNCHANGED <<project, driver, stage, at, checks, sources, asts, names, merging, overriding, flow, unreachable, output, execution>>

Stages == <<"syntax", "doc", "register", "perform", "resolve", "level", "types",
            "post", "flow", "static", "view", "tvm", "tvmtypes", "end">>
StageIndex(s) == CHOOSE i \in DOMAIN Stages : Stages[i] = s
\* analyze() starts with a new resolver.
EndTopoSort ==
  /\ EndOf("toposort")
  /\ GoTo("syntax", order)
  /\ noErrors' = TRUE
  /\ scopes' = [x \in {<<p>> : p \in sources} \cup Contracts |-> EmptyContainer]
  /\ bases' = [c \in Contracts |-> <<>>]
  /\ UNCHANGED <<project, driver, errors, trees, merging, overriding, flow, unreachable, output, execution>>
\* After the types every stage runs only when there was no error.
NextStage ==
  /\ stage \in SeqSet(Stages) \ {"end"} /\ todo = <<>>
  /\ IF StageIndex(stage) >= StageIndex("types") /\ ~noErrors THEN GoTo("end", <<>>)
     ELSE GoTo(Stages[StageIndex(stage) + 1], order)
  /\ UNCHANGED <<project, driver, checks, trees, names, merging, overriding, flow, unreachable, output, execution>>

\* What a stage goes through in a file, and the generator in a contract
FunctionsIn(p) == Flatten([i \in DOMAIN NodesOf(p) |-> IF Kind(NodesOf(p)[i]) = "contract" THEN Functions(NodesOf(p)[i]) ELSE <<>>])
ItemsOf(x) == CASE stage \in {"resolve", "merge", "level", "types"} -> NodesOf(x)
                [] stage = "flow" -> FunctionsIn(x)
                [] stage = "generate" -> Functions(x)
                [] OTHER -> <<x>>
Current == ItemsOf(Head(todo))[at]
Going(s) == Doing(s) /\ (stage # "generate" => Head(todo) \in asts) /\ at <= Len(ItemsOf(Head(todo)))
GoOn == at' = at + 1 /\ UNCHANGED <<stage, todo>>
EndItems ==
  /\ stage \in SeqSet(Stages) \cup {"generate"} /\ todo # <<>>
  /\ ~Going(stage) /\ (stage = "tvmtypes" => Head(todo) \in asts)
  /\ todo' = Tail(todo) /\ at' = 1
  /\ UNCHANGED <<project, driver, stage, checks, trees, names, merging, overriding, flow, unreachable, output, execution>>

Faulty(s, p) == \E x \in project.faults : x.at = s /\ x.file = p
\* A name that TypeChecker cannot resolve is a fatal error.
IsFatal(s, p, found) == (s = "types" /\ found) \/ \E x \in project.faults : x.at = s /\ x.file = p /\ x.fatal
\* Mutant: a check returns whether it found nothing itself.
CheckedAlone(s, p, found) ==
  /\ Reporting(s, found \/ Faulty(s, p))
  /\ noErrors' = (noErrors /\ ~found /\ ~Faulty(s, p))
  /\ IF IsFatal(s, p, found) THEN GoTo("end", <<>>) ELSE GoOn
  /\ UNCHANGED <<project, driver, trees, merging, output, execution>>
\* A check of one item: it returns whether the error list has only warnings.  A FatalError ends analyze().
Checked(s, p, found) ==
  /\ Reporting(s, found \/ Faulty(s, p))
  /\ noErrors' = (noErrors /\ errors' = {})
  /\ IF IsFatal(s, p, found) THEN GoTo("end", <<>>) ELSE GoOn
  /\ UNCHANGED <<project, driver, trees, merging, output, execution>>

\* SyntaxChecker, DocStringAnalyser, StaticAnalyzer, TVMAnalyzer
CheckFile ==
  /\ \E s \in {"syntax", "doc", "static", "tvm"} : Going(s)
  /\ Checked(stage, Current, FALSE)
  /\ UNCHANGED <<names, overriding, flow, unreachable>>

\* An import of a file without a tree
ImportsNoTree(p) == \E n \in ImportsOf(p) : ImportedBy(n) \notin asts
\* registerDeclarations returns false only for a fatal error.
RegisterDeclarations ==
  /\ Going("register") /\ ~ImportsNoTree(Current)
  /\ LET p == Current
         nodes == NodesOf(p)
         unit == RegisterInOrder(scopes[<<p>>], nodes)
         Inside(c) == RegisterInOrder(EmptyContainer, MembersOf(c))
         own == {c \in SeqSet(nodes) : Kind(c) = "contract"}
     IN  /\ scopes' = [x \in DOMAIN scopes |-> IF x = <<p>> THEN unit.con ELSE IF x \in own THEN Inside(x).con ELSE scopes[x]]
         /\ Reporting("register", unit.errors # {} \/ \E c \in own : Inside(c).errors # {})
  /\ GoOn
  /\ UNCHANGED <<project, driver, noErrors, trees, bases, merging, overriding, flow, unreachable, output, execution>>

\* An error ends analyze() here, and leaves the state and the flag as they are.
PerformImports ==
  /\ Going("perform")
  /\ LET imported == performImports(Current, scopes)
     IN  /\ scopes' = [scopes EXCEPT ![<<Current>>] = imported.con]
         /\ Reporting("perform", imported.errors # {})
         /\ IF imported.errors # {} THEN Return(FALSE) ELSE GoOn /\ UNCHANGED calls
  /\ UNCHANGED <<project, stackState, hasError, noErrors, trees, bases, merging, overriding, flow, unreachable, output, execution>>

-----------------------------------------------------------------------------
(* resolveNamesAndTypes of the contracts.                                  *)

ResolveOther ==
  /\ Going("resolve") /\ Kind(Current) # "contract"
  /\ GoOn
  /\ UNCHANGED <<project, driver, checks, trees, names, merging, overriding, flow, unreachable, output, execution>>

BasesOf(c) == [i \in DOMAIN Decl(c).bases |-> resolveName(scopes[<<c[1]>>], Decl(c).bases[i])]
\* "Identifier not found or not unique", "Contract expected", "Definition of base has to precede ..."
IsBase(b) == b \in Contracts /\ bases[b] # <<>>
BasesFound(c) == \A i \in DOMAIN BasesOf(c) : \E b \in BasesOf(c)[i] : BasesOf(c)[i] = {b} /\ IsBase(b)
\* The list of direct bases comes last; those mentioned later come first.
Input(c) ==
  LET direct == DirectBases(c, scopes)
      n == Len(direct)
  IN  [i \in 1 .. n |-> bases[direct[n + 1 - i]]] \o << <<c>> \o [i \in 1 .. n |-> direct[n + 1 - i]] >>
ResolveContract ==
  /\ Going("resolve") /\ Kind(Current) = "contract"
  /\ IF BasesFound(Current)
     THEN /\ toMerge' = Input(Current) /\ result' = <<>>
          /\ stage' = "merge"
          /\ UNCHANGED <<calls, todo, at, errors>>
     ELSE /\ Reporting("resolve", TRUE)
          /\ Return(FALSE)
          /\ UNCHANGED merging
  /\ UNCHANGED <<project, stackState, hasError, noErrors, trees, names, overriding, flow, unreachable, output, execution>>

\* cThreeMerge: what is placed is removed from the lists.
Placed == SeqSet(result)
Left(list) == {i \in DOMAIN list : list[i] \notin Placed}
\* Mutant: the list of direct bases does not count.
appearsOnlyAtHeadOfBases(x) == \A k \in DOMAIN toMerge \ {Len(toMerge)} : \A j \in Left(toMerge[k]) :
                                 toMerge[k][j] = x => j \in LeastOf(Left(toMerge[k]))
appearsOnlyAtHead(x) == \A k \in DOMAIN toMerge : \A j \in Left(toMerge[k]) :
                          toMerge[k][j] = x => j \in LeastOf(Left(toMerge[k]))
NotEmpty == {k \in DOMAIN toMerge : Left(toMerge[k]) # {}}
front(k) == {toMerge[k][i] : i \in LeastOf(Left(toMerge[k]))}
Candidates == {k \in NotEmpty : \A x \in front(k) : appearsOnlyAtHead(x)}
PlaceCandidate ==
  /\ stage = "merge"
  /\ \E k \in LeastOf(Candidates) : \E x \in front(k) : result' = Append(result, x)
  /\ UNCHANGED <<project, driver, stage, todo, at, checks, trees, names, toMerge, overriding, flow, unreachable, output, execution>>
\* "Linearization of inheritance graph impossible"
MergeFails ==
  /\ stage = "merge" /\ NotEmpty # {} /\ Candidates = {}
  /\ Reporting("resolve", TRUE)
  /\ Return(FALSE)
  /\ UNCHANGED <<project, stackState, hasError, noErrors, trees, names, merging, overriding, flow, unreachable, output, execution>>
Linearized ==
  /\ stage = "merge" /\ NotEmpty = {}
  /\ LET c == Current
         imported == importInheritedScopes(c, result, scopes)
         now == [scopes EXCEPT ![c] = imported.con]
         unresolved == UnresolvedNames(c, now) # {}
     IN  /\ bases' = [bases EXCEPT ![c] = result]
         /\ scopes' = now
         /\ Reporting("resolve", imported.errors # {} \/ unresolved)
         /\ IF unresolved THEN Return(FALSE) ELSE stage' = "resolve" /\ at' = at + 1 /\ UNCHANGED <<todo, calls>>
  /\ UNCHANGED <<project, stackState, hasError, noErrors, trees, merging, overriding, flow, unreachable, output, execution>>

-----------------------------------------------------------------------------
(* The checks of contracts.                                                *)

ContractsOf(p) == {n \in SeqSet(NodesOf(p)) : Kind(n) = "contract"}
CheckContractLevel ==
  /\ Going("level")
  /\ LET c == Current
     IN  IF Kind(c) # "contract" THEN GoOn /\ UNCHANGED <<project, driver, checks, trees, merging, overriding, output, execution>>
         ELSE /\ overriding' = overriding \cup BaseFunctions(c, bases, scopes)
              /\ Checked("level", c[1], checkContractLevel(c, overriding', bases, scopes) # {})
  /\ UNCHANGED <<names, flow, unreachable>>
CheckTypes ==
  /\ Going("types")
  /\ LET n == Current
     IN  Checked("types", n[1], Kind(n) = "contract" /\ ReferenceErrors(n, bases, scopes) # {})
  /\ UNCHANGED <<names, overriding, flow, unreachable>>
CheckPostTypes ==
  /\ Going("post")
  /\ Checked("post", Current, \E c \in ContractsOf(Current) : checkPostType(c, scopes) # {})
  /\ UNCHANGED <<names, overriding, flow, unreachable>>
CheckViewPure ==
  /\ Going("view")
  /\ Checked("view", Current, \E c \in ContractsOf(Current) : checkViewPure(c, bases, scopes) # {})
  /\ UNCHANGED <<names, overriding, flow, unreachable>>
CheckTvmTypes ==
  /\ Going("tvmtypes")
  /\ Checked("tvmtypes", Current, \E c \in ContractsOf(Current) : checkOverrideAndOverload(c, overriding, bases) # {})
  /\ UNCHANGED <<names, overriding, flow, unreachable>>
\* The assertion of visit(ImportDirective), and TVMTypeChecker, where the tree is used whether there is one or not
Crash ==
  /\ \/ Going("register") /\ ImportsNoTree(Current)
     \/ Doing("tvmtypes") /\ Head(todo) \notin asts
  /\ Throw

\* The control flow of one function after the other
TextOf(ms) == [i \in DOMAIN ms |-> Decl(ms[i]).body]
StartFlow ==
  /\ Going("flow") /\ flow = NoFlow
  /\ LET f == Current IN flow' = NewFlow(TextOf(ModifiersOf(f, bases, scopes)), Decl(f).body)
  /\ UNCHANGED <<project, driver, stage, todo, at, checks, trees, names, merging, overriding, unreachable, output, execution>>
ContinueFlow ==
  /\ stage = "flow" /\ flow # NoFlow
  /\ BuildFlow
  /\ UNCHANGED <<project, driver, stage, todo, at, checks, trees, names, merging, overriding, unreachable, output, execution>>
AnalyzeFlow ==
  /\ Going("flow") /\ flow # NoFlow /\ flow.work = <<>>
  /\ unreachable' = unreachable \cup {<<Current, l>> : l \in checkUnreachable(flow)}
  /\ flow' = NoFlow
  /\ GoOn
  /\ UNCHANGED <<project, driver, checks, trees, names, merging, overriding, output, execution>>

EndAnalyze ==
  /\ stage = "end"
  /\ stackState' = AnalysisPerformed
  /\ hasError' = (hasError \/ ~noErrors)
  /\ IF Head(calls) = "compile" /\ ~hasError'
     THEN GoTo("select", <<>>) /\ UNCHANGED calls
     ELSE Return(~hasError')
  /\ UNCHANGED <<project, checks, trees, names, merging, overriding, flow, unreachable, output, execution>>

-----------------------------------------------------------------------------
(* compile().                                                              *)

StartCompile ==
  /\ Calling("compile") /\ stackState >= AnalysisPerformed
  /\ IF hasError THEN Throw
     ELSE /\ GoTo("select", <<>>)
          /\ UNCHANGED <<project, driver, checks, trees, names, merging, overriding, flow, unreachable, output, execution>>

\* The contracts of the input file that may be the target
Wanted == {c \in ContractsOf(1) : /\ ~isLibrary(c)
                                  /\ IF project.contract # "" THEN Name(c) = project.contract ELSE canBeDeployed(c)}
SelectError == IF project.contract # "" THEN Wanted = {} \/ \E c \in Wanted : ~canBeDeployed(c) ELSE Cardinality(Wanted) > 1
\* The result of the check of a pragma's parameters is not looked at.
Select ==
  /\ stage = "select"
  /\ errors' = errors \cup (IF project.pragma = "bad" THEN {"pragma"} ELSE {}) \cup (IF SelectError THEN {"select"} ELSE {})
  /\ IF SelectError THEN Return(FALSE) /\ UNCHANGED <<stackState, output>>
     ELSE IF Wanted = {} THEN Return(TRUE) /\ stackState' = CompilationSuccessful /\ UNCHANGED output
     ELSE LET c == CHOOSE x \in Wanted : TRUE
          IN  /\ target' = c /\ labels' = {}
              /\ GoTo("generate", bases[c])
              /\ UNCHANGED <<calls, stackState>>
  /\ UNCHANGED <<project, hasError, noErrors, trees, names, merging, overriding, flow, unreachable, execution>>

isBaseFunction(f) == \E e \in overriding : e[2] = f /\ ContractOf(e[1]) \in SeqSet(bases[target])
getFunctionInternalName(f) == IF isBaseFunction(f) THEN <<Name(ContractOf(f)), Name(f)>> ELSE <<"", Name(f)>>
\* receive, fallback, onBounce: that of the most derived contract
GenerateFunction ==
  /\ Going("generate")
  /\ LET f == Current
         name == IF Decl(f).fk = "function" THEN getFunctionInternalName(f) ELSE <<"", Decl(f).fk>>
         again == Decl(f).fk \in {"receive", "fallback", "onBounce"} /\ \E x \in labels : x[1] = name
     IN  labels' = IF again \/ isConstructor(f) THEN labels ELSE labels \cup {<<name, f>>}
  /\ GoOn
  /\ UNCHANGED <<project, driver, checks, trees, names, merging, overriding, flow, unreachable, target, execution>>
EndGenerate ==
  /\ EndOf("generate")
  /\ stackState' = CompilationSuccessful
  /\ Return(TRUE)
  /\ UNCHANGED <<project, hasError, checks, trees, names, merging, overriding, flow, unreachable, output, execution>>

\* The name that the code of a call has: checkLocalFunctionOrLibCall, checkBaseContractCall, superFunctionCall
\* Mutant: super is looked for in the contract's own linearization.
getSuperContractOfSource(c, name) ==
  LET With(b) == \E f \in definedFunctions(b) : Name(f) = name
      after == {i \in 2 .. Len(bases[c]) : With(bases[c][i])}
  IN  IF after = {} THEN {} ELSE {bases[c][Least(after)]}
getSuperContract(c, name) ==
  LET chain == bases[target]
      here == CHOOSE i \in DOMAIN chain : chain[i] = c
  IN  {chain[i] : i \in {j \in DOMAIN chain : /\ j > here /\ \E f \in definedFunctions(chain[j]) : Name(f) = name
                                              /\ \A k \in here + 1 .. j - 1 :
                                                   \A f \in definedFunctions(chain[k]) : Name(f) # name}}
CallName(c, u) ==
  CASE u.k = "call" -> <<"", u.name>>
    [] u.k = "base" -> getFunctionInternalName(Referenced(c, u, bases, scopes))
    [] u.k = "super" -> <<Name(CHOOSE b \in getSuperContract(c, u.name) : TRUE), u.name>>

-----------------------------------------------------------------------------
(* The execution of the generated functions.  A frame is a function, the   *)
(* number of the modifier in it or of its body, the statements to do, and  *)
(* whether super led to it.  Conditions come out either way.               *)

TextAt(f, k) ==
  LET ms == ModifiersOf(f, bases, scopes) IN IF k <= Len(ms) THEN Decl(ms[k]).body ELSE Decl(f).body
InFunction(frame) == frame.k > Len(Decl(frame.fn).mods)
Frame(f, k, s) == [fn |-> f, k |-> k, work |-> TextAt(f, k), bySuper |-> s]
Inner == frames[Len(frames)]
Doing1(kinds) == frames # <<>> /\ Inner.work # <<>> /\ Head(Inner.work).s \in kinds
Left1 == Tail(Inner.work)
Then(work) == [frames EXCEPT ![Len(frames)].work = work]
Stays == UNCHANGED <<project, driver, stage, todo, at, checks, trees, names, merging, overriding, flow, unreachable, output>>

\* The linker gives every name that is called its code, or none of the code can be executed.
Linked == \A x \in labels : \A u \in CallsOf(x[2]) : \E y \in labels : y[1] = CallName(ContractOf(x[2]), u)
Enter ==
  /\ stage = "idle" /\ calls = <<>> /\ stackState = CompilationSuccessful /\ frames = <<>> /\ Linked
  /\ \E x \in labels : frames' = <<Frame(x[2], 1, FALSE)>>
  /\ effect' = 0
  /\ Stays
\* The end of a function, or of a modifier
Leave ==
  /\ frames # <<>>
  /\ Inner.work # <<>> => Head(Inner.work).s = "return"
  /\ frames' = SubSeq(frames, 1, Len(frames) - 1)
  /\ UNCHANGED effect /\ Stays
Abort ==
  /\ Doing1({"throw", "revert", "require"})
  /\ frames' = <<>>
  /\ UNCHANGED effect /\ Stays
Higher(n) == IF InFunction(Inner) /\ ~Inner.bySuper /\ n > effect THEN n ELSE effect
\* A call that is nested too deep ends the execution.
Evaluate ==
  /\ Doing1({"expr", "require", "mark"})
  /\ LET u == Head(Inner.work).u
     IN  IF u.k \in {"call", "base", "super"}
         THEN /\ frames' = IF Len(frames) = MaxDepth THEN <<>>
                           ELSE LET f == (CHOOSE x \in labels : x[1] = CallName(ContractOf(Inner.fn), u))[2]
                                IN  Append(Then(Left1), Frame(f, 1, Inner.bySuper \/ u.k = "super"))
              /\ UNCHANGED effect
         ELSE /\ frames' = Then(Left1)
              /\ effect' = Higher(CASE u.k = "none" -> 0 [] OTHER -> Rank(Mutability(ContractOf(Inner.fn), u, bases, scopes)))
  /\ Stays
Placeholder ==
  /\ Doing1({"_"})
  /\ frames' = IF Len(frames) = MaxDepth THEN <<>> ELSE Append(Then(Left1), Frame(Inner.fn, Inner.k + 1, Inner.bySuper))
  /\ UNCHANGED effect /\ Stays
Branch ==
  /\ Doing1({"if", "and", "ifelse", "cond"})
  /\ \E b \in {Head(Inner.work).t, Head(Inner.work).f} : frames' = Then(b \o Left1)
  /\ UNCHANGED effect /\ Stays
\* A body; what continue goes to; and the loop again
Mark == [s |-> "mark", a |-> 0, z |-> 0, t |-> <<>>, f |-> <<>>, u |-> [k |-> "none"]]
Again(st) == [st EXCEPT !.s = "again", !.a = 0, !.z = 0]
Body(st) == st.t \o <<Mark>> \o st.f \o <<Again(st)>>
IterateOnce ==
  /\ Doing1({"while", "for", "foreach", "repeat", "do", "again"})
  /\ frames' = Then(Body(Head(Inner.work)) \o Left1)
  /\ UNCHANGED effect /\ Stays
EndIterations ==
  /\ Doing1({"while", "for", "foreach", "repeat", "again"})
  /\ frames' = Then(Left1)
  /\ UNCHANGED effect /\ Stays
Jump ==
  /\ Doing1({"break", "continue"})
  /\ LET to == IF Head(Inner.work).s = "break" THEN "again" ELSE "mark"
         there == Least({i \in DOMAIN Inner.work : Inner.work[i].s = to})
     IN  frames' = Then(SubSeq(Inner.work, there + 1, Len(Inner.work)))
  /\ UNCHANGED effect /\ Stays
Execute == Enter \/ Leave \/ Abort \/ Evaluate \/ Placeholder \/ Branch \/ IterateOnce \/ EndIterations \/ Jump

\* All calls are made, and no function can be executed.
Done == stage = "idle" /\ calls = <<>> /\ UNCHANGED vars

Next ==
  \/ reset \/ setSources \/ StartParse \/ StartAnalyze \/ ParseFile \/ EndParse
  \/ TopoSort \/ TopoSortNode \/ TopoSorted \/ EndTopoSort \/ NextStage \/ EndItems
  \/ CheckFile \/ RegisterDeclarations \/ PerformImports
  \/ ResolveOther \/ ResolveContract \/ PlaceCandidate \/ MergeFails \/ Linearized
  \/ CheckContractLevel \/ CheckTypes \/ CheckPostTypes \/ CheckViewPure \/ CheckTvmTypes \/ Crash
  \/ StartFlow \/ ContinueFlow \/ AnalyzeFlow \/ EndAnalyze
  \/ StartCompile \/ Select \/ GenerateFunction \/ EndGenerate
  \/ Execute \/ Done
Spec == Init /\ [][Next]_vars

-----------------------------------------------------------------------------
(* Properties.                                                             *)

\* analyze, compile: although errors of the registration and of inherited names do not stop the
\* analysis where they are found, no code is generated, and no compilation succeeds, after an error;
\* an error in the parameters of a pragma is the exception.
ErrorsStop ==
  stage \in {"select", "generate"} \/ stackState = CompilationSuccessful => errors \subseteq {"pragma"}

\* linearizeBaseContracts, cThreeMerge: a linearization starts with the contract, has every base
\* contract once and nothing else, keeps the order of the linearization of each base, and has direct
\* bases that are mentioned later first.
Before(list, x, y) == \E i, j \in DOMAIN list : i < j /\ list[i] = x /\ list[j] = y
IsLinearization(c, list) ==
  LET direct == DirectBases(c, scopes)
  IN  /\ list[1] = c
      /\ \A i, j \in DOMAIN list : list[i] = list[j] => i = j
      /\ SeqSet(list) = {c} \cup UNION {SeqSet(bases[direct[i]]) : i \in DOMAIN direct}
      /\ \A i \in DOMAIN direct : \A j, k \in DOMAIN bases[direct[i]] :
           j < k => Before(list, bases[direct[i]][j], bases[direct[i]][k])
      /\ \A i, j \in DOMAIN direct : i < j => Before(list, direct[j], direct[i])
LinearizedRight == \A c \in DOMAIN bases : bases[c] # <<>> => IsLinearization(c, bases[c])

\* performImports, resolveImports: once the imports are performed in the order of resolveImports, a
\* file sees its own declarations and what its import directives bring of what the imported files
\* see; with cyclic imports it may see less, never more.
OwnNames(p) == {<<Name(n), n>> : n \in {m \in SeqSet(NodesOf(p)) : Name(m) # ""}}
Brings(n, seen) ==
  IF Decl(n).aliases # <<>>
  THEN UNION {{<<IF a[2] # "" THEN a[2] ELSE a[1], x[2]>> : x \in {y \in seen : y[1] = a[1]}} : a \in SeqSet(Decl(n).aliases)}
  ELSE IF Name(n) = "" THEN seen ELSE {}
\* What the files see after n imports
SeenAfter(files, n) ==
  LET after[i \in 0 .. n] ==
        IF i = 0 THEN [p \in files |-> OwnNames(p)]
        ELSE LET was == after[i - 1]
             IN  [p \in files |-> was[p] \cup UNION {Brings(m, was[ImportedBy(m)]) : m \in ImportsOf(p)}]
  IN  after[n]
ImportEdges == UNION {{<<p, ImportedBy(m)>> : m \in ImportsOf(p)} : p \in asts}
Cyclic(p) == p \in Reach({e[2] : e \in {x \in ImportEdges : x[1] = p}}, ImportEdges)
ImportsDone == stage \in {"resolve", "merge"}
ImportsRight ==
  ImportsDone /\ todo = order /\ at = 1 /\ errors = {} =>
    LET seen == SeenAfter(asts, Cardinality(asts))
    IN  \A p \in asts : /\ scopes[<<p>>].visible \subseteq seen[p]
                        /\ (\A q \in asts : ~Cyclic(q)) => scopes[<<p>>].visible = seen[p]

\* getFunctionInternalName, superFunctionCall: each call in the generated code names exactly one
\* generated function, and that is the one that the language means: the most derived implementation,
\* the function of the base that is named, or the next implementation after the contract of the call.
\* The exception: superFunctionCall always writes the name that an overridden function gets, so that
\* the code of super.f() names no function at all where nothing overrides that f (README.md).
Chain == bases[target]
Implementations(u, from) ==
  {f \in UNION {definedFunctions(Chain[i]) : i \in from} :
     Name(f) = u.name /\ Decl(f).params = u.params /\ Decl(f).implemented}
Meant(c, u) ==
  LET here == CHOOSE i \in DOMAIN Chain : Chain[i] = c
      First(fs) == CHOOSE f \in fs : \A g \in fs : IndexIn(target, f, bases) <= IndexIn(target, g, bases)
  IN  CASE u.k = "call" -> First(Implementations(u, DOMAIN Chain))
        [] u.k = "base" -> Referenced(c, u, bases, scopes)
        [] u.k = "super" -> First(Implementations(u, here + 1 .. Len(Chain)))
CallsRight ==
  stage = "idle" /\ stackState = CompilationSuccessful /\ target # NoTarget =>
    \A x \in labels : \A u \in CallsOf(x[2]) :
      LET c == ContractOf(x[2])
          named == {y \in labels : y[1] = CallName(c, u)}
      IN  IF u.k = "super" /\ ~isBaseFunction(Meant(c, u)) THEN named = {} ELSE named = {<<CallName(c, u), Meant(c, u)>>}

\* ViewPureChecker: whatever functions override the ones that are called, a pure function never reads
\* and a view function never writes a state variable.  The exceptions: what modifiers do, and what a
\* function that is called by super does, is not checked, so that a pure function that calls super.f()
\* may well write (README.md); Higher counts neither.
MutabilityKept == frames # <<>> => effect <= Rank(Decl(frames[1].fn).mut)

\* ControlFlowAnalyzer: code that is reported as unreachable in a function is never executed in it.
DeadCodeIsDead ==
  frames # <<>> /\ Inner.work # <<>> =>
    LET st == Head(Inner.work)
    IN  ~\E w \in unreachable : w[1] = Inner.fn /\ st.a # 0 /\ w[2][1] <= st.a /\ st.z <= w[2][2]
=============================================================================
