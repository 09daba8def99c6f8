----------------------------- MODULE FlowGraph -----------------------------
(***************************************************************************)
(* ControlFlowBuilder and ControlFlowAnalyzer: the control flow graph of a *)
(* function with its modifiers, and the warnings about unreachable code.   *)
(* A statement is [s, a, z, t, f, u]: its kind, the first and the last     *)
(* position of its text, its blocks, and for an expression what it uses.   *)
(* The builder's visits are the steps of work: statements still to visit,  *)
(* and, between them, what a visit does once its parts have been visited.  *)
(***************************************************************************)
EXTENDS Declarations

VARIABLE flow   \* the ControlFlowBuilder: see NewFlow

NoLoc == <<>>
Cover(l, a, z) == IF l = NoLoc THEN <<a, z>> ELSE <<IF a < l[1] THEN a ELSE l[1], IF z > l[2] THEN z ELSE l[2]>>

\* Nodes are numbered in the order of their creation; loc[n] is the text of node n.
Entry == 1
Exit == 2
Revert == 3
\* A function's modifiers, outermost first, and its body
NewFlow(modifiers, body) ==
  [loc |-> <<NoLoc, NoLoc, NoLoc>>, edges |-> {}, cur |-> Entry, ret |-> Exit,
   brk |-> 0, cont |-> 0, pEntry |-> 0, pExit |-> 0,
   work |-> [i \in DOMAIN modifiers |-> [s |-> "Modifier", t |-> modifiers[i]]]
              \o <<[s |-> "Block", t |-> body], [s |-> "EndFunction"]>>]

Top == Len(flow.loc)
newNodes(n) == flow.loc \o [i \in 1 .. n |-> NoLoc]
visitNode(loc, st) == [loc EXCEPT ![flow.cur] = Cover(@, st.a, st.z)]
Item == Head(flow.work)
Rest == Tail(flow.work)
Visiting(kinds) == flow.work # <<>> /\ Item.s \in kinds

-----------------------------------------------------------------------------
(* The visits.                                                             *)

VisitBlock ==
  /\ Visiting({"Block"})
  /\ LET b == Item.t
     IN  flow' = IF b = <<>> THEN [flow EXCEPT !.work = Rest]
                 ELSE [flow EXCEPT !.work = b \o Rest,
                                   !.loc = visitNode(visitNode(@, b[1]), b[Len(b)])]

VisitExpression ==
  /\ Visiting({"expr"})
  /\ flow' = [flow EXCEPT !.work = Rest, !.loc = visitNode(@, Item)]

\* What follows a jump is a node without entries.
JumpTo(node) ==
  flow' = [flow EXCEPT !.work = Rest, !.loc = Append(visitNode(@, Item), NoLoc),
                       !.edges = @ \cup {<<flow.cur, node>>}, !.cur = Top + 1]
VisitBreak == Visiting({"break"}) /\ flow.brk # 0 /\ JumpTo(flow.brk)
VisitContinue == Visiting({"continue"}) /\ flow.cont # 0 /\ JumpTo(flow.cont)
VisitReturn == Visiting({"return"}) /\ JumpTo(flow.ret)
VisitThrow == Visiting({"throw", "revert"}) /\ JumpTo(Revert)

VisitRequire ==
  /\ Visiting({"require"})
  /\ flow' = [flow EXCEPT !.work = Rest, !.loc = Append(visitNode(@, Item), NoLoc),
                          !.edges = @ \cup {<<flow.cur, Revert>>, <<flow.cur, Top + 1>>}, !.cur = Top + 1]

\* if (..) t, and l && t: the second branch is empty.
VisitIf ==
  /\ Visiting({"if", "and"})
  /\ flow' = [flow EXCEPT
       !.work = <<[s |-> "Block", t |-> Item.t], [s |-> "Join", to |-> Top + 2]>> \o Rest,
       !.loc = visitNode(@, Item) \o <<NoLoc, NoLoc>>,
       !.edges = @ \cup {<<flow.cur, Top + 1>>, <<flow.cur, Top + 2>>}, !.cur = Top + 1]
Join ==
  /\ Visiting({"Join"})
  /\ flow' = [flow EXCEPT !.work = Rest, !.edges = @ \cup {<<flow.cur, Item.to>>}, !.cur = Item.to]

\* if (..) t else f, and c ? t : f
VisitIfElse ==
  /\ Visiting({"ifelse", "cond"})
  /\ flow' = [flow EXCEPT
       !.work = <<[s |-> "Block", t |-> Item.t], [s |-> "Else", to |-> Top + 2, t |-> Item.f]>> \o Rest,
       !.loc = visitNode(@, Item) \o <<NoLoc, NoLoc>>,
       !.edges = @ \cup {<<flow.cur, Top + 1>>, <<flow.cur, Top + 2>>}, !.cur = Top + 1]
VisitElse ==
  /\ Visiting({"Else"})
  /\ flow' = [flow EXCEPT
       !.work = <<[s |-> "Block", t |-> Item.t], [s |-> "Merge", with |-> flow.cur]>> \o Rest, !.cur = Item.to]
mergeFlow ==
  /\ Visiting({"Merge"})
  /\ flow' = [flow EXCEPT !.work = Rest, !.loc = Append(@, NoLoc),
                          !.edges = @ \cup {<<Item.with, Top + 1>>, <<flow.cur, Top + 1>>}, !.cur = Top + 1]

\* The condition is the node Top + 1, the body Top + 2, what follows the loop Top + 3.
VisitWhile ==
  /\ Visiting({"while"})
  /\ flow' = [flow EXCEPT
       !.work = <<[s |-> "Block", t |-> Item.t],
                  [s |-> "EndBody", label |-> Top + 1, brk |-> flow.brk, cont |-> flow.cont],
                  [s |-> "Place", to |-> Top + 3]>> \o Rest,
       !.loc = visitNode(@, Item) \o <<NoLoc, NoLoc, NoLoc>>,
       !.edges = @ \cup {<<flow.cur, Top + 1>>, <<Top + 1, Top + 2>>, <<Top + 1, Top + 3>>},
       !.cur = Top + 2, !.brk = Top + 3, !.cont = Top + 1]
\* Mutant: continue goes to the condition.
VisitForWithoutStep ==
  /\ Visiting({"for", "foreach"})
  /\ flow' = [flow EXCEPT
       !.work = <<[s |-> "Block", t |-> Item.t],
                  [s |-> "EndBody", label |-> Top + 4, brk |-> flow.brk, cont |-> flow.cont],
                  [s |-> "Block", t |-> Item.f],
                  [s |-> "Back", label |-> Top + 1], [s |-> "Place", to |-> Top + 3]>> \o Rest,
       !.loc = visitNode(@, Item) \o <<NoLoc, NoLoc, NoLoc, NoLoc>>,
       !.edges = @ \cup {<<flow.cur, Top + 1>>, <<Top + 1, Top + 2>>, <<Top + 1, Top + 3>>},
       !.cur = Top + 2, !.brk = Top + 3, !.cont = Top + 1]
\* As a while loop; continue goes to the loop expression, node Top + 4.
VisitFor ==
  /\ Visiting({"for", "foreach"})
  /\ flow' = [flow EXCEPT
       !.work = <<[s |-> "Block", t |-> Item.t],
                  [s |-> "EndBody", label |-> Top + 4, brk |-> flow.brk, cont |-> flow.cont],
                  [s |-> "Block", t |-> Item.f],
                  [s |-> "Back", label |-> Top + 1], [s |-> "Place", to |-> Top + 3]>> \o Rest,
       !.loc = visitNode(@, Item) \o <<NoLoc, NoLoc, NoLoc, NoLoc>>,
       !.edges = @ \cup {<<flow.cur, Top + 1>>, <<Top + 1, Top + 2>>, <<Top + 1, Top + 3>>},
       !.cur = Top + 2, !.brk = Top + 3, !.cont = Top + 4]
\* What follows the loop is the node Top + 1, the body Top + 2, the condition Top + 3.
VisitDoWhile ==
  /\ Visiting({"do"})
  /\ flow' = [flow EXCEPT
       !.work = <<[s |-> "Block", t |-> Item.t],
                  [s |-> "EndBody", label |-> Top + 3, brk |-> flow.brk, cont |-> flow.cont],
                  [s |-> "Block", t |-> Item.f],
                  [s |-> "Back", label |-> Top + 2], [s |-> "Join", to |-> Top + 1]>> \o Rest,
       !.loc = visitNode(@, Item) \o <<NoLoc, NoLoc, NoLoc>>,
       !.edges = @ \cup {<<flow.cur, Top + 2>>}, !.cur = Top + 2, !.brk = Top + 1, !.cont = Top + 3]
\* placeAndConnectLabel, and the end of the BreakContinueScope
EndBody ==
  /\ Visiting({"EndBody"})
  /\ flow' = [flow EXCEPT !.work = Rest, !.edges = @ \cup {<<flow.cur, Item.label>>}, !.cur = Item.label,
                          !.brk = Item.brk, !.cont = Item.cont]
Back == Visiting({"Back"}) /\ flow' = [flow EXCEPT !.work = Rest, !.edges = @ \cup {<<flow.cur, Item.label>>}]
Place == Visiting({"Place"}) /\ flow' = [flow EXCEPT !.work = Rest, !.cur = Item.to]
\* The builder does not look into a repeat loop.
VisitRepeat == Visiting({"repeat"}) /\ flow' = [flow EXCEPT !.work = Rest, !.loc = visitNode(@, Item)]

VisitPlaceholder ==
  /\ Visiting({"_"}) /\ flow.pEntry # 0
  /\ flow' = [flow EXCEPT !.work = Rest, !.loc = Append(@, NoLoc), !.cur = Top + 1,
                          !.edges = @ \cup {<<flow.cur, flow.pEntry>>, <<flow.pExit, Top + 1>>}]
VisitModifier ==
  /\ Visiting({"Modifier"})
  /\ flow' = [flow EXCEPT
       !.work = <<[s |-> "Block", t |-> Item.t], [s |-> "EndModifier"]>> \o Rest,
       !.loc = @ \o <<NoLoc, NoLoc>>, !.pEntry = Top + 1, !.pExit = Top + 2]
EndModifier ==
  /\ Visiting({"EndModifier"})
  /\ flow' = [flow EXCEPT !.work = Rest, !.edges = @ \cup {<<flow.cur, flow.ret>>},
                          !.cur = flow.pEntry, !.ret = flow.pExit, !.pEntry = 0, !.pExit = 0]
EndFunction ==
  /\ Visiting({"EndFunction"})
  /\ flow' = [flow EXCEPT !.work = Rest, !.edges = @ \cup {<<flow.cur, flow.ret>>}]

BuildFlow ==
  \/ VisitBlock \/ VisitExpression \/ VisitBreak \/ VisitContinue \/ VisitReturn \/ VisitThrow \/ VisitRequire
  \/ VisitIf \/ Join \/ VisitIfElse \/ VisitElse \/ mergeFlow
  \/ VisitWhile \/ VisitFor \/ VisitDoWhile \/ EndBody \/ Back \/ Place \/ VisitRepeat
  \/ VisitPlaceholder \/ VisitModifier \/ EndModifier \/ EndFunction

-----------------------------------------------------------------------------
(* checkUnreachable.                                                       *)

\* The text of nodes that the entry does not reach but that lead to an end
unreachableLocations(fl) ==
  LET reachable == Reach({Entry}, fl.edges)
      back == Reach({Exit, Revert}, {<<e[2], e[1]>> : e \in fl.edges})
  IN  {fl.loc[n] : n \in {m \in back \ reachable : fl.loc[m] # NoLoc}}
\* Overlapping texts are reported together.
Covers(l, m) == l[1] <= m[1] /\ m[1] <= l[2]
checkUnreachable(fl) ==
  LET locs == unreachableLocations(fl)
      links == {e \in locs \X locs : Covers(e[1], e[2]) \/ Covers(e[2], e[1])}
      Group(l) == Reach({l}, links)
      First(ls) == CHOOSE a \in {l[1] : l \in ls} : \A l \in ls : a <= l[1]
      Latest(ls) == CHOOSE z \in {l[2] : l \in ls} : \A l \in ls : l[2] <= z
  IN  {<<First(Group(l)), Latest(Group(l))>> : l \in locs}
=============================================================================
