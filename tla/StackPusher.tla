---------------------------- MODULE StackPusher ----------------------------
(***************************************************************************)
(* Class StackPusher of TVMPusher.cpp at work.  It keeps size, the depth   *)
(* it believes the TVM stack to have (m_stack); lockStack, which freezes   *)
(* that size inside opaque code; and instructions (m_instructions), the    *)
(* code blocks that are open.                                              *)
(*                                                                         *)
(* The machine performs the calls of one program, one per step, and then   *)
(* executes the emitted code on the TVM of module Tvm, one instruction per *)
(* step, with every outcome the TVM may produce.                           *)
(***************************************************************************)
EXTENDS PusherCalls

CONSTANTS Programs,  \* records [name, args, code, want]
          MaxLoops   \* iterations explored when the count is not known

ASSUME MaxLoopsAssumption == MaxLoops \in Nat

VARIABLES prog,          \* the program: its arguments on the stack, its calls
          calls,         \* the calls still to be made
          size,          \* m_stack.size()
          lockStack,
          instructions,  \* m_instructions: a sequence of blocks, the innermost last
          marks,         \* saved sizes of the assertions under way
          status,        \* "emit", "run", "done", "thrown" or "cut"
          tvm,           \* the TVM stack
          frames,        \* blocks under execution, the innermost last
          c7             \* global variables set so far

vars == <<prog, calls, size, lockStack, instructions, marks, status, tvm, frames, c7>>
emitted == <<prog, calls, size, lockStack, instructions, marks>>

Node(o, call, body, alt) == [o |-> o, call |-> call, body |-> body, alt |-> alt]
Frame(o, code, loop, low, depth) ==
  [o |-> o, code |-> code, loop |-> loop, low |-> low, depth |-> depth, n |-> 0]

Init == /\ prog \in Programs
        /\ calls = prog.code
        /\ size = Len(prog.args)
        /\ lockStack = 0
        /\ instructions = <<<<>>>>
        /\ marks = <<>>
        /\ status = "emit"
        /\ tvm = prog.args
        /\ frames = <<>>
        /\ c7 = <<>>

-----------------------------------------------------------------------------
(* Emission: one action per kind of method.                                *)

call == Head(calls)
Emitting == status = "emit" /\ calls # <<>>
block == Last(instructions)
IsBlock(i) == i >= 1 /\ block[i].o = "block"
n1 == Len(block)

getOffset(pos) == size - 1 - pos

\* The solAsserts of the methods.  Those on stackSize() are evaluated also while the
\* stack is locked, ensureSize() does nothing then.
MethodAsserts(c) ==
  CASE c.m = "push" -> LET g == gen(c.op, c.n)
                       IN  g[1] >= 0 /\ c.diff \in {NoDiff, g[2] - g[1]}
    [] c.m = "asym" -> lockStack >= 1 /\ c.op \in makeAsym
    [] c.m = "stack" -> WellFormed(c.st)
    [] c.m = "ifelse" -> n1 >= 3 /\ IsBlock(n1) /\ IsBlock(n1 - 1)
    [] c.m = "while" -> IsBlock(n1) /\ IsBlock(n1 - 1)
    [] c.m \in {"if", "ifjmp", "repeat", "until"} -> IsBlock(n1)
    [] c.m \in {"endcont", "callx", "endlog", "endopaque"} -> Len(instructions) >= 2
    [] c.m = "assert" -> size = Last(marks) + c.diff
    [] c.m = "sizeis" -> size = c.n
    [] c.m = "local" -> getOffset(c.n) >= 0
    [] c.m = "assignlocal" -> getOffset(c.n) >= 1
    [] c.m = "unimplemented" -> FALSE
    [] c.m = "ensure" -> lockStack = 0 => size = Last(marks) + c.diff
    [] OTHER -> TRUE
\* change(): the size stays while the stack is locked, and never gets negative.
lockAfter == CASE call.m = "startopaque" -> lockStack + 1
               [] call.m = "endopaque" -> lockStack - 1
               [] OTHER -> lockStack
sizeAfter == IF lockAfter = 0 THEN size + Effect(call) ELSE size
solAssert == MethodAsserts(call) /\ lockAfter >= 0 /\ sizeAfter >= 0

\* One call: the size and the lock follow the call, the code changes as it says.
Calling(ms) == /\ Emitting /\ call.m \in ms /\ solAssert
               /\ size' = sizeAfter
               /\ lockStack' = lockAfter
               /\ calls' = Tail(calls)
               /\ UNCHANGED <<prog, status, tvm, frames, c7>>
Emit(nd) == instructions' = [instructions EXCEPT ![Len(instructions)] = Append(@, nd)]
Close(nd) == LET outer == Front(instructions)
             IN  instructions' = [outer EXCEPT ![Len(outer)] = Append(@, nd)]
TakeBlocks(m, nd) ==
  instructions' = [instructions EXCEPT ![Len(instructions)] =
                     Append(SubSeq(@, 1, Len(@) - m), nd)]

\* push(), pushAsym(), the stack instructions, calls, throws, globals.
PushOpcode == /\ Calling({"push", "asym"})
              /\ Emit(Node("gen", call, <<>>, <<>>)) /\ UNCHANGED marks
PushOther == /\ Calling({"stack", "value", "call", "receive", "throw", "throwif", "getglob", "setglob",
                         "tuplevar", "untuplevar", "pushc7", "popc7", "bottom", "exit"})
             /\ Emit(Node(call.m, call, <<>>, <<>>)) /\ UNCHANGED marks
\* A local variable is addressed from the top; assigning one whose value is on the top
\* would emit nothing.
PushLocal ==
  /\ Calling({"local", "assignlocal"})
  /\ Emit(Node("stack", [call EXCEPT !.st = IF call.m = "local" THEN PUSH_S(getOffset(call.n))
                                            ELSE POP_S(getOffset(call.n))], <<>>, <<>>))
  /\ UNCHANGED marks
\* push(diff, "")
FixStack == Calling({"fix", "sizeis"}) /\ UNCHANGED <<instructions, marks>>
\* startContinuation(), startOpaque()
StartBlock == /\ Calling({"start", "startopaque"})
              /\ instructions' = Append(instructions, <<>>) /\ UNCHANGED marks
\* endContinuation(), callRefOrCallX(), endLogCircuit(), endOpaque()
EndBlock == /\ Calling({"endcont", "callx", "endlog", "endopaque"})
            /\ Close(Node(CASE call.m = "endcont" -> "block" [] call.m = "callx" -> "sub"
                            [] call.m = "endlog" -> "if"
                            [] call.m = "endopaque" -> "opaque", call, block, <<>>))
            /\ UNCHANGED marks
\* ifElse(), pushConditional(), if_or_ifNot(), repeatOrUntil(), _while(): they take
\* the last blocks out of the code.
PushIfElse ==
  /\ Calling({"ifelse"})
  /\ TakeBlocks(2, Node("if", [call EXCEPT !.yes = TRUE], block[n1 - 1].body, block[n1].body))
  /\ UNCHANGED marks
PushIfOrLoop ==
  /\ Calling({"if", "ifjmp", "repeat", "until"})
  /\ TakeBlocks(1, Node(call.m, call, block[n1].body, <<>>))
  /\ UNCHANGED marks
PushWhile ==
  /\ Calling({"while"})
  /\ TakeBlocks(2, Node("while", call, block[n1].body, block[n1 - 1].body))
  /\ UNCHANGED marks
\* A function has a StackPusher of its own: its size starts with the parameters; the
\* caller only knows what the call takes and returns.
StartFunction ==
  /\ Emitting /\ call.m = "function"
  /\ size' = call.n /\ lockStack' = 0
  /\ marks' = marks \o <<size, lockStack>>
  /\ instructions' = Append(instructions, <<>>)
  /\ calls' = Tail(calls)
  /\ UNCHANGED <<prog, status, tvm, frames, c7>>
EndFunction ==
  /\ Emitting /\ call.m \in {"endfunction", "endtransaction"} /\ solAssert
  /\ size' = marks[Len(marks) - 1] + IF Last(marks) = 0 THEN call.ret - call.take ELSE 0
  /\ lockStack' = Last(marks)
  /\ marks' = Front(Front(marks))
  /\ Close(Node(IF call.m = "endfunction" THEN "function" ELSE "transaction", call, block, <<>>))
  /\ calls' = Tail(calls)
  /\ UNCHANGED <<prog, status, tvm, frames, c7>>
\* saving stackSize() and comparing with it
Mark == Calling({"mark"}) /\ marks' = Append(marks, size) /\ UNCHANGED instructions
Check == Calling({"assert", "ensure"}) /\ marks' = Front(marks) /\ UNCHANGED instructions

\* All calls made: the code is executed from the outermost block.
Start == /\ status = "emit" /\ calls = <<>>
         /\ status' = "run"
         /\ frames' = <<Frame("main", instructions[1], <<>>, 0, size)>>
         /\ UNCHANGED <<emitted, tvm, c7>>

Emission == \/ PushOpcode \/ PushOther \/ PushLocal \/ FixStack \/ StartBlock \/ EndBlock
            \/ PushIfElse \/ PushIfOrLoop \/ PushWhile \/ StartFunction \/ EndFunction \/ Mark \/ Check \/ Start

-----------------------------------------------------------------------------
(* Execution.                                                              *)

top == Last(frames)
node == Head(top.code)
Running == status = "run" /\ top.code # <<>>
rest == [frames EXCEPT ![Len(frames)].code = Tail(@)]
compiled == <<emitted, c7>>

\* How many values from the top an instruction may look at.
AsymTake(op) == CASE op \in {"NULLROTRIFNOT", "CDATASIZEQ", "SDATASIZEQ"} \cup DictEndOps -> 2
                  [] op \in DictKeyOps -> 3
                  [] op \in DictSetOps -> 4
                  [] OTHER -> 1
Reach(nd) == CASE nd.o = "gen" -> IF nd.call.m = "asym" THEN AsymTake(nd.call.op)
                                  ELSE gen(nd.call.op, nd.call.n)[1]
               [] nd.o = "stack" -> Need(nd.call.st)
               [] nd.o = "tuplevar" -> nd.call.n + 1
               [] nd.o = "untuplevar" -> 2
               [] nd.o \in {"setglob", "popc7", "if", "ifjmp", "repeat"} -> 1
               [] OTHER -> nd.call.take
InReach == Len(tvm) - Reach(node) >= top.low

\* c7 without the registers c4 and c5
Globals == DOMAIN c7 \ {C4, C5}
c7Tuple == [i \in 1 .. 1 + Max(Globals \cup {-1}) |->
              IF i - 1 \in Globals THEN c7[i - 1] ELSE Null]
Registers == [i \in DOMAIN c7 \ Globals |-> c7[i]]
InTransaction == \E i \in DOMAIN frames : frames[i].o = "transaction"
Results(nd, s) ==
  CASE nd.o = "gen" -> Outcomes(nd.call.op, nd.call.n, nd.call.ch, nd.call.suf, s)
    [] nd.o = "stack" -> Moved(nd.call.st, s)
    [] nd.o = "value" -> {s \o nd.call.v}
    [] nd.o = "call" -> {Pop(s, nd.call.take) \o nd.call.v}
    [] nd.o = "getglob" -> {Append(s, IF nd.call.n \in DOMAIN c7 THEN c7[nd.call.n]
                                      ELSE IF InTransaction THEN Null ELSE nd.call.v[1])}
    [] nd.o \in {"setglob", "popc7"} -> {Pop(s, 1)}
    [] nd.o = "pushc7" -> {Append(s, Tuple(c7Tuple))}
    [] nd.o = "bottom" -> IF Len(s) < nd.call.n THEN {} ELSE {Append(s, s[nd.call.n])}
    [] nd.o = "receive" -> {Append(Pop(s, 1), Slice(Body(Top(s, 0).c)))}
    [] nd.o = "tuplevar" -> TupleOp("TUPLE", nd.call.n, Pop(s, 1))
    [] nd.o = "untuplevar" -> TupleOp("UNTUPLE", nd.call.n, Pop(s, 1))

\* A condition or a counter is on the top.
FlagThere == node.o \in {"if", "ifjmp", "throwif", "repeat"} => Takes(tvm, <<"int">>)
At(os) == Running /\ node.o \in os /\ InReach /\ FlagThere

\* The operands are there and have the kinds and formats that the instruction wants,
\* and an opcode of the table does to the depth what the table says.
Computes == {"gen", "stack", "value", "call", "receive", "getglob", "setglob", "tuplevar", "untuplevar",
             "pushc7", "popc7", "bottom"}
Fitting(nd, results) ==
  /\ results # {}
  /\ nd.o = "popc7" => Takes(tvm, <<"tuple">>)
  /\ nd.o = "gen" /\ nd.call.m = "push" => \A s \in results : Len(s) = Len(tvm) + Effect(nd.call)
Computed(nd, results) == Fitting(nd, results) /\ tvm' \in results

\* An instruction that only works on the stack and the globals.
Execute ==
  /\ At(Computes) /\ Computed(node, Results(node, tvm))
  /\ c7' = CASE node.o = "setglob" -> (node.call.n :> Top(tvm, 0)) @@ c7
             [] node.o = "popc7" -> [i \in 0 .. Len(Top(tvm, 0).c) - 1 |-> Top(tvm, 0).c[i + 1]] @@ Registers
             [] node.call.op = "SENDRAWMSG" -> (C5 :> Top(tvm, 1)) @@ c7
             [] OTHER -> c7
  /\ frames' = rest
  /\ UNCHANGED <<emitted, status>>

Throw ==
  /\ At({"throw", "throwif"})
  /\ \E b \in IF node.o = "throw" THEN {node.call.yes} ELSE Truth(Top(tvm, 0)) :
       status' = IF b = node.call.yes THEN "thrown" ELSE status
  /\ tvm' = Pop(tvm, node.call.take)
  /\ frames' = rest
  /\ UNCHANGED compiled

\* Opaque code and subprograms promise to take `take` values and to leave `ret`:
\* the optimizer does not look inside an opaque node.
InOpaque == \E i \in DOMAIN frames : frames[i].o = "opaque"
Enter ==
  /\ At({"opaque", "sub", "function"})
  /\ LET n == Len(tvm) - node.call.take
     IN  frames' = Append(rest, IF InOpaque \/ node.call.yes THEN Frame(node.o, node.body, <<>>, top.low, -1)
                                ELSE Frame(node.o, node.body, <<>>, n, n + node.call.ret))
  /\ UNCHANGED <<compiled, tvm, status>>

\* A transaction starts with an empty c7 and ends with its code or with THROW 0.
Receive ==
  /\ At({"transaction"})
  /\ frames' = Append(rest, Frame("transaction", node.body, <<>>, top.low, Len(tvm) - node.call.take))
  /\ c7' = Registers
  /\ UNCHANGED <<emitted, tvm, status>>
Exit ==
  /\ At({"exit"}) \/ (status = "run" /\ top.code = <<>> /\ top.o = "transaction")
  /\ InTransaction
  /\ LET i == CHOOSE j \in DOMAIN frames : frames[j].o = "transaction"
     IN  frames' = SubSeq(frames, 1, i - 1) /\ tvm' = SubSeq(tvm, 1, frames[i].depth)
  /\ UNCHANGED <<compiled, status>>

\* A jump leaves the continuation; opaque code is not one of its own.
JumpTo(code) ==
  LET within == {i \in DOMAIN frames : \A j \in i + 1 .. Len(frames) : frames[j].o = "opaque"}
  IN  [i \in DOMAIN frames |->
         IF i = Len(frames) THEN [top EXCEPT !.code = code]
         ELSE IF i \in within THEN [frames[i] EXCEPT !.code = <<>>] ELSE frames[i]]
Branch ==
  /\ At({"if", "ifjmp"})
  /\ tvm' = Pop(tvm, 1)
  /\ \E b \in Truth(Top(tvm, 0)) :
       LET code == IF b = node.call.yes THEN node.body ELSE node.alt
       IN  frames' = IF node.o = "ifjmp" /\ b = node.call.yes THEN JumpTo(code)
                     ELSE Append(rest, Frame("block", code, <<>>, top.low, -1))
  /\ UNCHANGED <<compiled, status>>

LoopFrame(o, n, code) ==
  [Frame(o, code, node, top.low, -1) EXCEPT !.n = n]
Loop ==
  /\ \/ /\ At({"repeat"})
        /\ tvm' = Pop(tvm, 1)
        /\ \E n \in IF IsConst(Top(tvm, 0)) THEN {Top(tvm, 0).n} ELSE 0 .. MaxLoops :
             frames' = IF n <= 0 THEN rest ELSE Append(rest, LoopFrame("repeat", n - 1, node.body))
     \/ /\ At({"until"})
        /\ frames' = Append(rest, LoopFrame("until", MaxLoops, node.body))
        /\ UNCHANGED tvm
     \/ /\ At({"while"})
        /\ frames' = Append(rest, LoopFrame("cond", MaxLoops, node.alt))
        /\ UNCHANGED tvm
  /\ UNCHANGED <<compiled, status>>

\* The end of a block.
AtEnd(os) == status = "run" /\ top.code = <<>> /\ top.o \in os
Leave ==
  /\ AtEnd({"main", "block", "opaque", "sub", "function"})
  /\ status' = IF top.o = "main" THEN "done" ELSE status
  /\ frames' = Front(frames)
  /\ UNCHANGED <<compiled, tvm>>
Again(o, code) == [frames EXCEPT ![Len(frames)] = [top EXCEPT !.o = o, !.code = code,
                                                             !.n = IF o = "body" THEN @ ELSE @ - 1]]
\* After MaxLoops iterations a loop is not followed any further.
Iterate ==
  /\ \/ /\ AtEnd({"repeat"})
        /\ frames' = IF top.n = 0 THEN Front(frames) ELSE Again("repeat", top.loop.body)
        /\ UNCHANGED <<tvm, status>>
     \/ /\ AtEnd({"until"}) /\ Takes(tvm, <<"int">>)
        /\ tvm' = Pop(tvm, 1)
        /\ \E b \in Truth(Top(tvm, 0)) :
             /\ frames' = IF b THEN Front(frames) ELSE Again("until", top.loop.body)
             /\ status' = IF ~b /\ top.n = 0 THEN "cut" ELSE status
     \/ /\ AtEnd({"cond"}) /\ Takes(tvm, <<"int">>)
        /\ tvm' = Pop(tvm, 1)
        /\ \E b \in Truth(Top(tvm, 0)) :
             /\ frames' = IF b THEN Again("body", top.loop.body) ELSE Front(frames)
             /\ status' = IF b /\ top.n = 0 THEN "cut" ELSE status
     \/ /\ AtEnd({"body"})
        /\ frames' = Again("cond", top.loop.alt)
        /\ UNCHANGED <<tvm, status>>
  /\ UNCHANGED compiled

Execution == \/ Execute \/ Throw \/ Enter \/ Receive \/ Exit \/ Branch \/ Loop \/ Leave \/ Iterate

Ended == status \notin {"emit", "run"}
Next == Emission \/ Execution \/ (Ended /\ UNCHANGED vars)
Spec == Init /\ [][Next]_vars

-----------------------------------------------------------------------------
(***************************************************************************)
(* AssertionsHold: no solAssert of the StackPusher fails: the size change  *)
(* that a caller states for an opcode is the one of the opcode table, the  *)
(* believed depth never gets negative, the blocks that an IF or a loop     *)
(* takes are there, and a routine leaves the believed depth it announces.  *)
(***************************************************************************)
AssertionsHold == Emitting => solAssert

(***************************************************************************)
(* OperandsFit: the emitted code never finds an operand missing or of the  *)
(* wrong kind, never reads data in a format other than the one in which it *)
(* was written, never fills a cell beyond 1023 bits or 4 references.       *)
(* CodegenPrograms and EntryPrograms name the programs left out because    *)
(* this fails for them.                                                    *)
(***************************************************************************)
OperandsFit ==
  /\ Running /\ InReach => FlagThere /\ (node.o \in Computes => Fitting(node, Results(node, tvm)))
  /\ AtEnd({"until", "cond"}) => Takes(tvm, <<"int">>)


(***************************************************************************)
(* SizeIsDepth: when the code has run, on whatever path, the TVM stack has *)
(* the depth that the StackPusher computed while emitting it.              *)
(***************************************************************************)
SizeIsDepth == status = "done" => Len(tvm) = size

(***************************************************************************)
(* ResultsWanted: when the code has run, the stack holds what the          *)
(* construct promises: values of the declared types, and where a value is  *)
(* written and read back, that very value.  CodegenPrograms names the      *)
(* constructs left out because what they leave differs.                    *)
(***************************************************************************)
ResultsWanted ==
  status = "done" =>
    /\ Len(tvm) = Len(prog.want)
    /\ \A i \in DOMAIN tvm : Wanted(tvm[i], prog.want[i])
=============================================================================
