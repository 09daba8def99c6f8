SPECIFICATION Spec
CONSTANTS
  MaxLoops = 2
  Families = {"values", "conversions", "operators", "assignments", "methods", "messages", "calls", "statements",
              "state", "functions", "handlers", "constructors", "deployment", "selector", "modifiers"}
  Programs <- MCPrograms
INVARIANTS AssertionsHold OperandsFit  SizeIsDepth ResultsWanted
