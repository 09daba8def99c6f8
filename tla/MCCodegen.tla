----------------------------- MODULE MCCodegen -----------------------------
(***************************************************************************)
(* The families of programs, for TLC.                                      *)
(* TLC orders the fields of a record by the first use of their names: the  *)
(* parameter k makes the kind of a TVM value its first field, so that      *)
(* values of different kinds are never compared field by field.            *)
(***************************************************************************)
EXTENDS EntryPrograms, StackPusher

CONSTANT Families  \* the families of programs to run

ProgramsOf(k) ==
  CASE k = "values" -> ValuePrograms(CellTypes, DictKeys, DictValues)
    [] k = "conversions" -> ConversionPrograms(SimpleTypes, TupleTypes, LiteralTypes)
    [] k = "operators" ->
         OperatorPrograms(CompareOps \cup BitOps \cup ShiftOps \cup BooleanOps \cup ArithmeticOps)
    [] k = "assignments" -> AssignmentPrograms(ArithmeticOps \cup BitOps \cup ShiftOps)
    [] k = "methods" -> MethodPrograms(MethodCalls)
    [] k = "messages" -> MessagePrograms(SendOptions)
    [] k = "references" -> ReferencePrograms([i \in 1 .. 4 |-> TvmCell])
    [] k = "calls" -> CallPrograms(Result)
    [] k = "statements" -> StatementPrograms(Ranges)
    [] k = "wrapped" -> ForeachPrograms(WrappedRanges)
    [] k = "state" -> StatePrograms(StateContracts(StateTypes))
    [] k = "functions" -> FunctionPrograms(EntryContracts)
    [] k = "handlers" -> HandlersOf(EntryContracts)
    [] k = "constructors" -> ConstructorPrograms(Hierarchies)
    [] k = "deployment" -> DeployPrograms(NewContracts)
    [] k = "selector" -> SelectorPrograms({1, 4, 5, 17})
    [] k = "modifiers" -> ModifierPrograms(ModifierLists)

\* LET keeps the cost statistics of TLC away from the code generator.
MCPrograms == LET chosen == Families IN UNION {ProgramsOf(f) : f \in chosen}
=============================================================================
