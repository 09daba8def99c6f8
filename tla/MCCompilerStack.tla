-------------------------- MODULE MCCompilerStack --------------------------
(***************************************************************************)
(* The families of projects, for TLC.                                      *)
(***************************************************************************)
EXTENDS CompilerStack

CONSTANT Families  \* the families of projects to compile

Fun(name, body) ==
  [k |-> "function", name |-> name, fk |-> "function", params |-> <<>>, ret |-> "", vis |-> "public",
   mut |-> "nonpayable", virtual |-> TRUE, hasOverride |-> FALSE, overrides |-> <<>>, implemented |-> TRUE,
   body |-> body, mods |-> <<>>]
Declared(name) == [Fun(name, <<>>) EXCEPT !.implemented = FALSE]
Override(f, list) == [f EXCEPT !.hasOverride = TRUE, !.overrides = list]
Special(fk, vis, params) == [Fun("", <<>>) EXCEPT !.fk = fk, !.vis = vis, !.params = params, !.virtual = FALSE]
Modifier(name, body) ==
  [k |-> "modifier", name |-> name, params |-> <<>>, virtual |-> TRUE, hasOverride |-> FALSE, overrides |-> <<>>, body |-> body]
Var(name, constant, uses) ==
  [k |-> "variable", name |-> name, vis |-> "internal", constant |-> constant, uses |-> uses,
   hasOverride |-> FALSE, overrides |-> <<>>]
Contract(name, list, members) ==
  [k |-> "contract", name |-> name, ck |-> "contract", abstract |-> FALSE, bases |-> list, args |-> <<>>, members |-> members]
Abstract(c) == [c EXCEPT !.abstract = TRUE]
Struct(name) == [k |-> "struct", name |-> name]
Import(paths, name, aliases) == [k |-> "import", name |-> name, at |-> paths, aliases |-> aliases]

Compile == <<"setSources", "compile">>
Project(files) ==
  [files |-> files, broken |-> [i \in DOMAIN files |-> "ok"], unreadable |-> {}, faults |-> {}, pragma |-> "none",
   recovery |-> FALSE, contract |-> "", calls |-> Compile]

St(s, a, z, t, f, u) == [s |-> s, a |-> a, z |-> z, t |-> t, f |-> f, u |-> u]
Use(k, name, via) == [k |-> k, name |-> name, params |-> <<>>, via |-> via]
Nothing == Use("none", "", "")
Plain(s, a) == St(s, a, a, <<>>, <<>>, Nothing)
Doing2(us) == [i \in DOMAIN us |-> St("expr", i, i, <<>>, <<>>, us[i])]

-----------------------------------------------------------------------------
(* Three files with a structure each, that import each other.              *)

StructOf(p) == <<"S1", "S2", "S3">>[p]
Directives(p) ==
  UNION {{Import(<<q>>, "", <<>>), Import(<<q>>, "Q", <<>>), Import(<<q>>, "", << <<StructOf(q), "">> >>)} : q \in {1, 2, 3} \ {p}}
    \cup {Import(<<q>>, "", << <<StructOf(r), "X">> >>) : q \in {1, 2, 3} \ {p}, r \in {2, 3}}
    \cup {Import(<<2>>, "", << <<"S3", "">> >>)}
Both(p) == {<<Import(<<q>>, "", <<>>), Import(<<r>>, "", <<>>)>> : q \in {1, 2, 3} \ {p}, r \in {1, 2, 3} \ {p}}
OneImport(p) == {<<>>} \cup {<<d>> : d \in Directives(p)}
ImportProjects(k) ==
  {Project(<<a \o <<Struct("S1")>>, b \o <<Struct("S2")>>, c \o <<Struct("S3")>> >>) :
     a \in OneImport(k) \cup Both(k), b \in OneImport(2), c \in OneImport(3)}

-----------------------------------------------------------------------------
(* Hierarchies of four contracts.                                          *)

Lists(S) == {<<>>} \cup {<<x>> : x \in S} \cup {s \in S \X S : s[1] # s[2]}
              \cup {s \in S \X S \X S : s[1] # s[2] /\ s[1] # s[3] /\ s[2] # s[3]}
Four(b, c, d, members) ==
  << << Contract("A", <<>>, members[1]), Contract("B", b, members[2]), Contract("C", c, members[3]), Contract("D", d, members[4]) >> >>
Target(p, name) == [p EXCEPT !.contract = name]
HierarchyProjects(all) ==
  {Target(Project(Four(b, c, d, << <<>>, <<>>, <<>>, <<>> >>)), "D") :
     b \in {<<>>, <<"A">>}, c \in Lists({"A", "B"}), d \in Lists(all)}

\* f in some of the contracts, with calls of it, by super also from g and k
Shapes == { << <<"A">>, <<"A">>, <<"B", "C">> >>, << <<"A">>, <<"A">>, <<"C", "B">> >>, << <<"A">>, <<"B">>, <<"C">> >>,
            << <<"A">>, <<>>, <<"B", "C">> >>, << <<"A">>, <<"A">>, <<"A", "B", "C">> >>, << <<>>, <<"A", "B">>, <<"C">> >> }
CallOf(name) == Use("call", name, "")
Super == Use("super", "f", "")
F(uses, over, list) == IF over THEN Override(Fun("f", Doing2(uses)), list) ELSE Fun("f", Doing2(uses))
CallsIn(s, a, b, c, d, last) ==
  Target(Project(Four(s[1], s[2], s[3], <<a, b, c, d \o <<Fun("g", Doing2(<<CallOf("f"), last>>))>> >>)), "D")
InA == {<<F(<<>>, FALSE, <<>>)>>, <<F(<<CallOf("f")>>, FALSE, <<>>)>>}
InB == {<<>>, <<F(<<Super>>, TRUE, <<>>)>>, <<F(<<>>, FALSE, <<>>)>>}
InC == {<<>>, <<F(<<Super>>, TRUE, <<>>)>>, <<F(<<Super>>, TRUE, <<"A", "B">>)>>}
InD == {<<>>, <<F(<<Super>>, TRUE, <<>>)>>, <<F(<<Super>>, TRUE, <<"B", "C">>)>>, <<F(<<Super>>, TRUE, <<"A", "B", "C">>)>>}
CallProjects(shapes) ==
  {CallsIn(s, a, b, c, d, Use("base", "f", via)) : s \in shapes, a \in InA, b \in InB, c \in InC, d \in InD, via \in {"A", "C"}}
    \cup {CallsIn(s, <<F(<<>>, FALSE, <<>>)>>, b, c, d, Super) :
             s \in shapes, b \in InB \cup {<<Fun("k", Doing2(<<Super>>))>>}, c \in InC, d \in InD}

-----------------------------------------------------------------------------
(* Bodies with loops, jumps and modifiers.  A statement takes ten places.  *)

Simple(p) == {Plain(s, p) : s \in {"expr", "return", "break", "continue", "throw"}}
Statement(p) ==
  {St("expr", p, p + 9, <<>>, <<>>, Nothing), St("require", p, p + 9, <<>>, <<>>, Nothing)}
    \cup {St(s, p, p + 9, <<>>, <<>>, Nothing) : s \in {"return", "break", "continue", "throw", "revert"}}
    \cup {St("if", p, p + 9, <<x>>, <<>>, Nothing) : x \in Simple(p + 1)}
    \cup {St("ifelse", p, p + 9, <<x>>, <<y>>, Nothing) : x \in Simple(p + 1), y \in Simple(p + 2)}
    \cup {St(s, p, p + 9, <<Plain("expr", p + 1)>>, <<Plain("expr", p + 2)>>, Nothing) : s \in {"cond"}}
    \cup {St("and", p, p + 9, <<Plain("revert", p + 1)>>, <<>>, Nothing)}
Short(p) == {Plain("expr", p)} \cup Simple(p) \cup {St("if", p, p + 9, <<x>>, <<>>, Nothing) : x \in Simple(p + 1)}
LoopBodies(kinds) ==
  {<<St(s, 1, 39, <<x, y>>, IF s \in {"do", "for"} THEN <<Plain("expr", 5)>> ELSE <<>>, Nothing), Plain("expr", 40)>> :
     s \in kinds, x \in Statement(10), y \in Short(20)}
Modifiers(p) == { <<Plain("expr", p + 1), Plain("_", p + 2), Plain("expr", p + 3)>>,
                  <<St("if", p + 1, p + 3, <<Plain("return", p + 2)>>, <<>>, Nothing), Plain("_", p + 4), Plain("expr", p + 5)>>,
                  <<Plain("return", p + 1), Plain("_", p + 2)>>,
                  <<St("while", p + 1, p + 5, <<Plain("_", p + 2)>>, <<>>, Nothing), Plain("throw", p + 6), Plain("expr", p + 7)>> }
ModifiedBodies == {<<Plain("expr", 1), Plain("expr", 2)>>, <<Plain("return", 1), Plain("expr", 2)>>, <<Plain("throw", 1)>>}
BodyProjects(kinds) ==
  {Project(<< << Contract("A", <<>>, <<Fun("f", b)>>) >> >>) : b \in LoopBodies(kinds)}
    \cup {Project(<< << Contract("A", <<>>, <<Modifier("m", m), Modifier("n", n), [Fun("f", b) EXCEPT !.mods = ms]>>) >> >>) :
            m \in Modifiers(100), n \in Modifiers(200), b \in ModifiedBodies, ms \in {<<"m">>, <<"m", "n">>}}

-----------------------------------------------------------------------------
(* Functions that read, write and call.                                    *)

Mut(f, mut) == [f EXCEPT !.mut = mut]
Muts == {"pure", "view", "nonpayable"}
Effects == {Nothing, Use("read", "x", ""), Use("write", "x", ""), Use("read", "K", "")}
Reading(u, m, v, n, w, o, more) ==
  Target(Project(<< << Contract("A", <<>>, <<Var("x", FALSE, <<>>), Var("K", TRUE, <<>>),
                                             Mut(Fun("g", Doing2(<<u>>)), m), Mut(Fun("f", Doing2(<<CallOf("g"), v>>)), n)>>),
                       Contract("B", <<"A">>, <<Override(Mut(Fun("g", Doing2(<<w, Use("super", "g", "")>>)), o), <<>>)>> \o more) >> >>), "B")
MutabilityProjects(muts) ==
  {Reading(u, m, v, n, w, o, <<>>) :
     u \in Effects, v \in {Nothing, Use("write", "x", "")}, w \in Effects, m \in muts, n \in muts, o \in muts}
    \cup {Reading(u, m, Nothing, m, Nothing, m, <<Mut(Fun("h", Doing2(<<w, Use("super", "g", "")>>)), n)>>) :
             u \in Effects, w \in Effects, m \in muts, n \in muts}

-----------------------------------------------------------------------------
(* The calls of drivers, and errors of every stage.                        *)

Twice(s) == s \o <<"reset">> \o s
Drivers == {Compile, <<"setSources", "parseAndAnalyze">>, <<"setSources", "parse", "analyze">>, <<"setSources", "parseAndAnalyze", "compile">>,
            <<"setSources", "setSources">>, <<"setSources", "parseAndAnalyze", "parse">>, <<"analyze">>, <<"setSources", "compile", "compile">>}
Main == << <<Import(<<2>>, "", <<>>), Contract("D", <<"A">>, <<Fun("f", Doing2(<<CallOf("g")>>))>>)>>,
           <<Struct("S"), Contract("A", <<>>, <<Fun("g", <<>>), Special("constructor", "public", <<>>)>>)>> >>
Faults == [at : {"syntax", "doc", "level", "types", "post", "static", "view", "tvm", "tvmtypes"}, file : {1, 2}, fatal : {FALSE}]
            \cup [at : {"level", "types", "post"}, file : {1, 2}, fatal : {TRUE}]
\* Files with an error each
A(members) == Contract("A", <<>>, members)
WithErrors == {
  <<Struct("S"), Struct("S")>>, <<A(<<Fun("f", <<>>), Var("f", FALSE, <<>>)>>)>>, <<A(<<Fun("f", <<>>), Fun("f", <<>>)>>)>>,
  <<A(<<Declared("f")>>)>>, <<Contract("B", <<"A">>, <<>>)>>, <<Struct("A"), Contract("B", <<"A">>, <<>>)>>,
  <<Contract("B", <<"A">>, <<>>), A(<<>>)>>, <<A(<<Fun("f", Doing2(<<CallOf("g")>>))>>)>>,
  <<A(<<Var("K", TRUE, <<"L">>), Var("L", TRUE, <<"K">>)>>)>>, <<[A(<<Var("x", FALSE, <<>>)>>) EXCEPT !.ck = "library"]>>,
  <<[A(<<Var("x", FALSE, <<>>)>>) EXCEPT !.ck = "interface"]>>, <<A(<<Fun("f", <<>>), [Fun("f", <<>>) EXCEPT !.params = <<"int">>]>>)>>,
  <<A(<<Fun("f", <<>>)>>), Contract("B", <<"A">>, <<Modifier("f", <<>>)>>)>>, <<A(<<Override(Fun("f", <<>>), <<>>)>>)>>,
  <<A(<<Special("constructor", "public", <<"int">>)>>), Contract("B", <<"A">>, <<>>)>>, <<A(<<>>), Contract("B", <<>>, <<>>)>>,
  <<A(<<Var("x", FALSE, <<>>)>>), Contract("B", <<"A">>, <<Var("x", FALSE, <<>>)>>)>>, <<>>, <<Struct("S")>>,
  <<A(<<Special("receive", "external", <<>>), Special("receive", "external", <<>>)>>)>>,
  <<Import(<<>>, "", <<>>), A(<<>>)>>, <<Import(<<2>>, "", << <<"T", "">> >>), A(<<>>)>>, <<Import(<<1, 2>>, "", <<>>), Struct("T")>> }
DriverProjects(drivers) ==
  {[Project(Main) EXCEPT !.calls = c, !.faults = x] : c \in drivers \cup {Twice(d) : d \in drivers}, x \in {{y} : y \in Faults}}
    \cup {[Project(Main) EXCEPT !.calls = c, !.pragma = pr] : c \in drivers \cup {Twice(d) : d \in drivers}, pr \in {"none", "bad"}}
    \cup {[Project(Main) EXCEPT !.broken = b, !.recovery = r, !.unreadable = u, !.contract = name] :
            b \in [{1, 2} -> {"ok", "error", "null"}], r \in BOOLEAN, u \in {{}, {2}}, name \in {"", "D", "A", "Z"}}
    \cup {[Project(<<f, <<Struct("S")>> >>) EXCEPT !.recovery = r, !.calls = c] : f \in WithErrors, r \in BOOLEAN, c \in {Compile, Twice(Compile)}}

ProjectsOf(k) ==
  CASE k = "imports" -> ImportProjects(1)
    [] k = "hierarchies" -> HierarchyProjects({"A", "B", "C"})
    [] k = "calls" -> CallProjects(Shapes)
    [] k = "bodies" -> BodyProjects({"while", "do", "for", "repeat"})
    [] k = "mutability" -> MutabilityProjects(Muts)
    [] k = "drivers" -> DriverProjects(Drivers)
MCProjects == UNION {ProjectsOf(f) : f \in Families}
=============================================================================
