--------------------------- MODULE ContractChecks ---------------------------
(***************************************************************************)
(* What the checks after name resolution find wrong: ContractLevelChecker  *)
(* with OverrideChecker, the references of TypeChecker, PostTypeChecker,   *)
(* ViewPureChecker, and the checks of TVMTypeChecker on overriding.  Each  *)
(* operator is the set of the errors it reports.  lin is the annotation    *)
(* linearizedBaseContracts, over the annotation baseFunctions: the pairs   *)
(* <<f, g>> with g among the base functions of f.                          *)
(***************************************************************************)
EXTENDS Declarations

CONSTANT Nesting   \* how deep statements are nested at most

\* The statements of a block, those of inner blocks included
StatementsOf(body) ==
  LET within[n \in 0 .. Nesting] ==
        IF n = 0 THEN SeqSet(body)
        ELSE LET outer == within[n - 1] IN outer \cup UNION {SeqSet(st.t) \cup SeqSet(st.f) : st \in outer}
  IN  within[Nesting]
\* What the expressions of a function or modifier use: [k, name, params, via]
UsesOf(f) == {st.u : st \in {x \in StatementsOf(Decl(f).body) : x.s = "expr"}}
CallsOf(f) == {u \in UsesOf(f) : u.k \in {"call", "super", "base"}}

-----------------------------------------------------------------------------
(* OverrideChecker.                                                        *)

\* overrideComparator: public state variables are functions without parameters
Signature(d) == CASE Kind(d) = "function" -> <<Decl(d).fk, Name(d), Decl(d).params>>
                  [] Kind(d) = "variable" -> <<"function", Name(d), <<>> >>
                  [] Kind(d) = "modifier" -> <<"modifier", Name(d)>>
Overridable(c) ==
  {f \in definedFunctions(c) : ~isConstructor(f)} \cup functionModifiers(c)
    \cup {v \in stateVariables(c) : Decl(v).vis = "public"}
NotThere == <<>>
\* resolveDirectBaseContracts: base names are resolved where the contract stands
DirectBases(c, scopes) ==
  [i \in DOMAIN Decl(c).bases |-> CHOOSE b \in resolveName(scopes[<<c[1]>>], Decl(c).bases[i]) : TRUE]

\* functionsInBase: a contract's own function of a signature, or that of the first base that has one
FunctionInBase(sig, contracts, scopes) ==
  LET found[b \in contracts] ==
        LET own == {f \in Overridable(b) : Signature(f) = sig}
            direct == DirectBases(b, scopes)
            with == {i \in DOMAIN direct : found[direct[i]] # NotThere}
        IN  IF own # {} THEN CHOOSE f \in own : \A g \in own : f[3] <= g[3]
            ELSE IF with = {} THEN NotThere
            ELSE found[direct[Least(with)]]
  IN  found
\* inheritedFunctions, inheritedModifiers: those of one signature
inherited(c, sig, lin, scopes) ==
  LET found == FunctionInBase(sig, SeqSet(lin[c]), scopes)
      direct == DirectBases(c, scopes)
  IN  {found[direct[i]] : i \in DOMAIN direct} \ {NotThere}

Unimplemented(f) == Kind(f) = "function" /\ ~Decl(f).implemented
virtualSemantics(f) == Decl(f).virtual \/ (Kind(f) = "function" /\ isInterface(ContractOf(f)))
Visibility(f) == CASE Kind(f) = "function" -> Decl(f).vis [] Kind(f) = "variable" -> "external" [] OTHER -> "internal"

When(wrong, f, what) == IF wrong THEN {<<what, f>>} ELSE {}
\* Mutant: the mutability of an overriding function is not compared.
checkOverrideAnyMutability(f, g) ==
  When(Kind(f) = "modifier" /\ Decl(f).params # Decl(g).params, f, "changes modifier signature")
    \cup When(~Decl(f).hasOverride, f, "missing override specifier")
    \cup When(IF Kind(g) = "variable" THEN TRUE ELSE ~virtualSemantics(g), g, "cannot be overridden")
    \cup When(IF Kind(f) = "variable" THEN Visibility(g) # "external"
              ELSE Visibility(f) # Visibility(g) /\ ~(Visibility(g) = "external" /\ Visibility(f) = "public"),
              f, "visibility differs")
    \cup When(Kind(f) = "function" /\ Kind(g) = "function" /\ Decl(f).ret # Decl(g).ret, f, "return types differ")
    \cup When(Kind(f) = "function" /\ Unimplemented(f) /\ ~Unimplemented(g), f, "unimplemented")
checkOverride(f, g) ==
  When(Kind(f) = "modifier" /\ Decl(f).params # Decl(g).params, f, "changes modifier signature")
    \cup When(~Decl(f).hasOverride, f, "missing override specifier")
    \cup When(IF Kind(g) = "variable" THEN TRUE ELSE ~virtualSemantics(g), g, "cannot be overridden")
    \cup When(IF Kind(f) = "variable" THEN Visibility(g) # "external"
              ELSE Visibility(f) # Visibility(g) /\ ~(Visibility(g) = "external" /\ Visibility(f) = "public"),
              f, "visibility differs")
    \cup When(Kind(f) = "function" /\ Kind(g) = "function" /\ Decl(f).ret # Decl(g).ret, f, "return types differ")
    \cup When(Kind(f) = "function" /\ Kind(g) = "function" /\ Decl(f).mut # Decl(g).mut, f, "changes state mutability")
    \cup When(Kind(f) = "function" /\ Unimplemented(f) /\ ~Unimplemented(g), f, "unimplemented")
\* A contract that the override specifier names; of other kinds PostTypeChecker complains.
Specified(f, scopes) ==
  LET c == ContractOf(f)
      Named(n) == resolveName(scopes[c], n) \cup resolveName(scopes[<<c[1]>>], n)
  IN  {b \in UNION {Named(n) : n \in SeqSet(Decl(f).overrides)} : Kind(b) = "contract"}
checkOverrideList(f, lin, scopes) ==
  LET supers == inherited(ContractOf(f), Signature(f), lin, scopes)
      expected == {ContractOf(g) : g \in supers}
      specified == Specified(f, scopes)
  IN  UNION {checkOverride(f, g) : g \in supers}
        \cup When(Decl(f).hasOverride /\ Cardinality(specified) # Len(Decl(f).overrides), f, "duplicate in override list")
        \cup When(Decl(f).hasOverride /\ expected = {}, f, "does not override anything")
        \cup When(Cardinality(expected) > 1 /\ ~(expected \subseteq specified), f, "needs to specify overridden contract")
        \cup When(~(specified \subseteq expected), f, "surplus in override list")
\* storeBaseFunction
BaseFunctions(c, lin, scopes) ==
  {e \in Overridable(c) \X UNION {Overridable(b) : b \in SeqSet(lin[c])} :
     e[2] \in inherited(c, Signature(e[1]), lin, scopes) /\ Kind(e[2]) # "variable"}

\* OverrideGraph, without direction: <<0>> is the contract, <<1>> the artificial top
OverrideGraph(callables, over) ==
  LET followed == {e \in over : Decl(e[1]).hasOverride}
      functions == Reach(callables, followed)
      down == {<< <<0>>, f>> : f \in callables} \cup {e \in followed : e[1] \in functions}
                \cup {<<f, <<1>> >> : f \in {g \in functions : ~Decl(g).hasOverride}}
  IN  down \cup {<<e[2], e[1]>> : e \in down}
cutVertices(graph) ==
  LET all == Reach({<<0>>}, graph)
  IN  {f \in all \ {<<0>>, <<1>>} :
         Reach({<<0>>}, {e \in graph : e[1] # f /\ e[2] # f}) # all \ {f}}
checkAmbiguousOverridesInternal(c, callables, over) ==
  LET cut == cutVertices(OverrideGraph(callables, over))
      below == Reach({e[2] : e \in {x \in over : x[1] \in cut}}, over)
      left == callables \ (below \cup {f \in cut : Unimplemented(f)})
  IN  When(Cardinality(callables) > 1 /\ Cardinality(left) > 1, c, "must override")
Signatures(c, lin) == UNION {{Signature(f) : f \in Overridable(b)} : b \in SeqSet(lin[c])}
checkAmbiguousOverrides(c, over, lin, scopes) ==
  UNION {checkAmbiguousOverridesInternal(c, inherited(c, sig, lin, scopes), over) :
           sig \in Signatures(c, lin) \ {Signature(f) : f \in Overridable(c)}}
\* A name that changes from a modifier to a function or public state variable, or the other way round
ChangesKind(f, lin, scopes) ==
  When(\E sig \in Signatures(ContractOf(f), lin) :
         /\ sig[2] = Name(f) /\ (sig[1] = "modifier") # (Kind(f) = "modifier")
         /\ inherited(ContractOf(f), sig, lin, scopes) # {}, f, "override changes the kind")

-----------------------------------------------------------------------------
(* ContractLevelChecker.                                                   *)

checkDuplicateFunctions(c) ==
  UNION {When(/\ f[3] < g[3] /\ Decl(f).fk = Decl(g).fk
              /\ Decl(f).fk = "function" => Signature(f) = Signature(g), f, "defined twice") :
           f \in definedFunctions(c), g \in definedFunctions(c)}
\* The contracts of the hierarchy that give arguments to the constructor of b
ArgumentsFor(b, c, lin) == {d \in SeqSet(lin[c]) : Name(b) \in SeqSet(Decl(d).args)}
Constructors(c) == {f \in definedFunctions(c) : isConstructor(f)}
checkBaseConstructorArguments(c, lin) ==
  UNION {When(Constructors(b) # {} /\ Cardinality(ArgumentsFor(b, c, lin)) > 1, c, "arguments given twice") :
           b \in SeqSet(lin[c])}
\* The signatures without an implementation, and the bases whose constructors lack arguments
unimplementedFunctions(c, lin) ==
  LET all == UNION {definedFunctions(b) : b \in SeqSet(lin[c])}
      getters == {v \in UNION {stateVariables(b) : b \in SeqSet(lin[c])} : Decl(v).vis = "public"}
      Done(f) == \E g \in all \cup getters : Signature(g) = Signature(f) /\ ~Unimplemented(g)
  IN  {Signature(f) : f \in {g \in all : ~isConstructor(g) /\ ~Done(g)}}
        \cup {<<"constructor", Name(b)>> : b \in {d \in SeqSet(lin[c]) \ {c} :
                 ArgumentsFor(d, c, lin) = {} /\ \E f \in Constructors(d) : Decl(f).params # <<>>}}
checkAbstractFunctions(c, lin) ==
  When(Decl(c).abstract /\ Decl(c).ck # "contract", c, "cannot be abstract")
    \cup When(Decl(c).ck = "contract" /\ ~Decl(c).abstract /\ unimplementedFunctions(c, lin) # {}, c,
              "should be marked as abstract")
checkLibraryRequirements(c) ==
  When(isLibrary(c) /\ Decl(c).bases # <<>>, c, "library is not allowed to inherit")
    \cup UNION {When(isLibrary(c) /\ ~Decl(v).constant, v, "library cannot have variables") : v \in stateVariables(c)}
checkContractLevel(c, over, lin, scopes) ==
  checkDuplicateFunctions(c)
    \cup UNION {checkOverrideList(f, lin, scopes) \cup ChangesKind(f, lin, scopes) : f \in Overridable(c)}
    \cup checkAmbiguousOverrides(c, over, lin, scopes)
    \cup checkBaseConstructorArguments(c, lin) \cup checkAbstractFunctions(c, lin) \cup checkLibraryRequirements(c)

-----------------------------------------------------------------------------
(* References: what the name in a use stands for in contract c.            *)

\* A name is looked for in the contract's scope, then in its file's.
Lookup(c, name, scopes) ==
  IF resolveName(scopes[c], name) # {} THEN resolveName(scopes[c], name) ELSE resolveName(scopes[<<c[1]>>], name)
IndexIn(c, d, lin) == CHOOSE i \in DOMAIN lin[c] : lin[c][i] = ContractOf(d)
\* cleanedDeclarations: of those with the same parameters, the one of the most derived contract
MostDerived(ds, c, lin) == {d \in ds : \A e \in ds : IndexIn(c, d, lin) <= IndexIn(c, e, lin)}
FunctionsFor(ds, u) == {d \in ds : Kind(d) = "function" /\ Name(d) = u.name /\ Decl(d).params = u.params}
referencedDeclaration(c, u, lin, scopes) ==
  CASE u.k = "call" -> MostDerived(FunctionsFor(Lookup(c, u.name, scopes), u), c, lin)
    [] u.k = "base" -> UNION {FunctionsFor(definedFunctions(b), u) :
                                b \in Lookup(c, u.via, scopes) \cap SeqSet(lin[c])}
    [] u.k = "super" ->
         LET bases == SeqSet(lin[c]) \ {c}
         IN  MostDerived({f \in FunctionsFor(UNION {definedFunctions(b) : b \in bases}, u) :
                            isVisibleInDerivedContracts(f) /\ Decl(f).implemented}, c, lin)
    [] OTHER -> {d \in Lookup(c, u.name, scopes) : Kind(d) = "variable"}
Uses(c) == UNION {UsesOf(f) : f \in definedFunctions(c) \cup functionModifiers(c)}
Named(u) == u.k # "none"
\* ReferencesResolver: the names that are not declared
UnresolvedNames(c, scopes) ==
  {n \in {IF u.k = "base" THEN u.via ELSE u.name : u \in {x \in Uses(c) : x.k \notin {"none", "super"}}}
          \cup UNION {SeqSet(Decl(f).mods) : f \in definedFunctions(c)}
          \cup UNION {SeqSet(Decl(f).overrides) : f \in Overridable(c)} : Lookup(c, n, scopes) = {}}
\* TypeChecker: a call that no function, or more than one, fits
ReferenceErrors(c, lin, scopes) ==
  {u \in Uses(c) : Named(u) /\ Cardinality(referencedDeclaration(c, u, lin, scopes)) # 1}
Referenced(c, u, lin, scopes) == CHOOSE d \in referencedDeclaration(c, u, lin, scopes) : TRUE
\* The modifiers of a function, resolved where the function stands
ModifiersOf(f, lin, scopes) ==
  [i \in DOMAIN Decl(f).mods |->
     CHOOSE m \in MostDerived(resolveName(scopes[ContractOf(f)], Decl(f).mods[i]), ContractOf(f), lin) : TRUE]

-----------------------------------------------------------------------------
(* PostTypeChecker, ViewPureChecker, TVMTypeChecker.                       *)

\* A constant that its own value depends on
CyclicConstants(c, scopes) ==
  LET constants == {v \in stateVariables(c) : Decl(v).constant}
      uses == {e \in constants \X constants : \E n \in SeqSet(Decl(e[1]).uses) : e[2] \in Lookup(c, n, scopes)}
  IN  {v \in constants : v \in Reach({e[2] : e \in {x \in uses : x[1] = v}}, uses)}
checkPostType(c, scopes) ==
  CyclicConstants(c, scopes)
    \cup {f \in Overridable(c) : \E n \in SeqSet(Decl(f).overrides) :
                                   \E d \in Lookup(c, n, scopes) : Kind(d) # "contract"}
    \cup (IF isInterface(c) THEN stateVariables(c) ELSE {})

Rank(mut) == CASE mut = "pure" -> 0 [] mut = "view" -> 1 [] mut = "nonpayable" -> 2
\* The mutability that a use needs; ViewPureChecker takes a member of super, as of any contract, for
\* one of a value of contract type, and asks for none.
Mutability(c, u, lin, scopes) ==
  LET d == Referenced(c, u, lin, scopes)
  IN  CASE u.k \in {"none", "super"} -> "pure"
        [] u.k = "read" -> IF Decl(d).constant THEN "pure" ELSE "view"
        [] u.k = "write" -> IF Decl(d).constant THEN "pure" ELSE "nonpayable"
        [] OTHER -> Decl(d).mut
reportMutability(f, lin, scopes) ==
  {u \in UsesOf(f) : Rank(Mutability(ContractOf(f), u, lin, scopes)) > Rank(Decl(f).mut)}
checkViewPure(c, lin, scopes) ==
  UNION {{<<f, u>> : u \in reportMutability(f, lin, scopes)} : f \in definedFunctions(c)}

checkOverrideAndOverload(c, over, lin) ==
  LET functions == {f \in UNION {definedFunctions(b) : b \in SeqSet(lin[c])} :
                      Decl(f).fk \notin {"constructor", "receive", "fallback", "onTickTock"}}
      pairs == {e \in over : e[1] \in functions}
      overridedFunctions == {e[1] : e \in pairs} \cup {e[2] : e \in pairs}
      others == functions \ overridedFunctions
  IN  {e \in others \X others : e[1] # e[2] /\ Name(e[1]) = Name(e[2])}
=============================================================================
