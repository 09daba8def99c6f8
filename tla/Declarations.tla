---------------------------- MODULE Declarations ----------------------------
(***************************************************************************)
(* The syntax trees of a project, the scopes that DeclarationContainer     *)
(* keeps, and what NameAndTypeResolver puts into them.                     *)
(*                                                                         *)
(* project.files is a sequence of files, a file a sequence of nodes:       *)
(*   import    [k, name, at, aliases]: `import at as name', or the symbols *)
(*             of aliases, pairs <<symbol, alias or "">>, or every name    *)
(*   contract  [k, name, ck, abstract, bases, args, members], args: the    *)
(*             bases to whose constructors it gives arguments              *)
(*   struct    [k, name]                                                   *)
(* and a member of a contract is                                           *)
(*   function  [k, name, fk, params, ret, vis, mut, virtual, hasOverride,  *)
(*              overrides, implemented, body, mods]                        *)
(*   modifier  [k, name, params, virtual, hasOverride, overrides, body]    *)
(*   variable  [k, name, vis, constant, uses, hasOverride, overrides]      *)
(* A declaration is named by its way in the tree: <<file, node>> or        *)
(* <<file, node, member>>.  scopes has a container for each file <<file>>  *)
(* and for each contract.                                                  *)
(***************************************************************************)
EXTENDS Naturals, Sequences, FiniteSets

VARIABLE project

SeqSet(s) == {s[i] : i \in DOMAIN s}
\* The smallest number of a set that is not empty
LeastOf(S) == {i \in S : \A j \in S : i <= j}
Least(S) == CHOOSE i \in LeastOf(S) : TRUE
\* What can be reached from a set in a graph
Reach(from, edges) ==
  LET after[n \in Nat] == IF n = 0 THEN from
                          ELSE LET known == after[n - 1] IN known \cup {e[2] : e \in {x \in edges : x[1] \in known}}
  IN  after[Cardinality(edges)]
\* The files of a map in its order: the one list of them
Listed(S) ==
  {s \in UNION {[1 .. n -> S] : n \in 0 .. Len(project.files)} :
     SeqSet(s) = S /\ \A i, j \in DOMAIN s : i < j => s[i] < s[j]}

Decl(d) == IF Len(d) = 2 THEN project.files[d[1]][d[2]] ELSE project.files[d[1]][d[2]].members[d[3]]
Kind(d) == Decl(d).k
Name(d) == Decl(d).name
ContractOf(d) == <<d[1], d[2]>>
NodesOf(p) == [i \in DOMAIN project.files[p] |-> <<p, i>>]
MembersOf(c) == [j \in DOMAIN Decl(c).members |-> <<c[1], c[2], j>>]
definedFunctions(c) == {d \in SeqSet(MembersOf(c)) : Kind(d) = "function"}
functionModifiers(c) == {d \in SeqSet(MembersOf(c)) : Kind(d) = "modifier"}
stateVariables(c) == {d \in SeqSet(MembersOf(c)) : Kind(d) = "variable"}
isInterface(c) == Decl(c).ck = "interface"
isLibrary(c) == Decl(c).ck = "library"
isConstructor(f) == Decl(f).fk = "constructor"
constructorIsPublic(c) == \A f \in definedFunctions(c) : isConstructor(f) => Decl(f).vis = "public"
canBeDeployed(c) == constructorIsPublic(c) /\ ~Decl(c).abstract /\ ~isInterface(c) /\ ~isLibrary(c)

isVisibleInContract(d) == Kind(d) = "function" => Decl(d).vis # "external" /\ Decl(d).fk = "function"
isVisibleInDerivedContracts(d) ==
  \/ Kind(d) \in {"struct", "modifier"}
  \/ isVisibleInContract(d) /\ Decl(d).vis # "private"

-----------------------------------------------------------------------------
(* DeclarationContainer: entries are pairs <<name, declaration>>.          *)

EmptyContainer == [visible |-> {}, invisible |-> {}]

conflictingDeclaration(con, e) ==
  LET same == {x \in con.visible \cup con.invisible : x[1] = e[1]}
  IN  IF Kind(e[2]) = "function" THEN \E x \in same : Kind(x[2]) # "function"
      ELSE same # {} /\ same # {e}
Conflicts(con, entries) == {e \in entries : e[1] # "" /\ conflictingDeclaration(con, e)}
\* Entries of one container do not conflict with each other: they are registered in any order.
registerDeclaration(con, entries, invisible) ==
  LET new == {e \in entries : e[1] # ""} \ Conflicts(con, entries)
  IN  IF invisible THEN [con EXCEPT !.invisible = @ \cup new] ELSE [con EXCEPT !.visible = @ \cup new]
resolveName(con, name) == {x[2] : x \in {y \in con.visible : y[1] = name}}

\* DeclarationRegistrationHelper: the declarations one after the other, and those that conflict
RegisterInOrder(con, ds) ==
  LET after[n \in 0 .. Len(ds)] ==
        IF n = 0 THEN [con |-> con, errors |-> {}]
        ELSE LET was == after[n - 1]
                 e == <<Name(ds[n]), ds[n]>>
             IN  [con |-> registerDeclaration(was.con, {e}, ~isVisibleInContract(ds[n])),
                  errors |-> was.errors \cup Conflicts(was.con, {e})]
  IN  after[Len(ds)]

-----------------------------------------------------------------------------
(* performImports, one import after the other.                             *)

ImportsOf(p) == {n \in SeqSet(NodesOf(p)) : Kind(n) = "import"}
ImportedBy(n) == Decl(n).at[Len(Decl(n).at)]
\* What an import directive brings, in the order in which it is registered
Imported(n, scopes) ==
  LET from == scopes[<<ImportedBy(n)>>]
      aliases == Decl(n).aliases
  IN  IF aliases # <<>>
      THEN [i \in DOMAIN aliases |->
              {<<IF aliases[i][2] # "" THEN aliases[i][2] ELSE Name(d), d>> : d \in resolveName(from, aliases[i][1])}]
      ELSE IF Name(n) = "" THEN <<from.visible>> ELSE <<>>
ImportAll(con, groups) ==
  LET after[n \in 0 .. Len(groups)] ==
        IF n = 0 THEN [con |-> con, errors |-> {}]
        ELSE LET was == after[n - 1]
             IN  [con |-> registerDeclaration(was.con, groups[n], FALSE),
                  errors |-> was.errors \cup Conflicts(was.con, groups[n])]
  IN  after[Len(groups)]
\* A symbol that the imported file does not have
NotFound(n, groups) == Decl(n).aliases # <<>> /\ {} \in SeqSet(groups)
performImports(p, scopes) ==
  LET after[i \in 0 .. Len(project.files[p])] ==
        IF i = 0 THEN [con |-> scopes[<<p>>], errors |-> {}]
        ELSE LET was == after[i - 1]
             IN  IF Kind(<<p, i>>) # "import" THEN was
                 ELSE LET groups == Imported(<<p, i>>, [scopes EXCEPT ![<<p>>] = was.con])
                          now == ImportAll(was.con, groups)
                      IN  [now EXCEPT !.errors = @ \cup was.errors
                                                   \cup (IF NotFound(<<p, i>>, groups) THEN {<<p, i>>} ELSE {})]
  IN  after[Len(project.files[p])]

-----------------------------------------------------------------------------
(* importInheritedScope, for the bases of a contract in their order.       *)

\* Shadowing of modifiers, and functions that a public state variable overrides
Tolerated(con, e) ==
  \E x \in con.visible \cup con.invisible :
    /\ x[1] = e[1]
    /\ \/ Kind(e[2]) = "modifier" /\ Kind(x[2]) = "modifier"
       \/ Kind(e[2]) = "function" /\ Kind(x[2]) = "variable" /\ Decl(x[2]).vis = "public"
importInheritedScopes(c, linearized, scopes) ==
  LET after[n \in 1 .. Len(linearized)] ==
        IF n = 1 THEN [con |-> scopes[c], errors |-> {}]
        ELSE LET was == after[n - 1]
                 new == {e \in scopes[linearized[n]].visible :
                           Len(e[2]) = 3 /\ ContractOf(e[2]) = linearized[n] /\ isVisibleInDerivedContracts(e[2])}
             IN  [con |-> registerDeclaration(was.con, new, FALSE),
                  errors |-> was.errors \cup {e \in Conflicts(was.con, new) : ~Tolerated(was.con, e)}]
  IN  after[Len(linearized)]
=============================================================================
