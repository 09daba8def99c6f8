SPECIFICATION Spec
CONSTANTS
  MaxLoops = 2
  Families = {"references"}
  Programs <- MCPrograms
INVARIANT OperandsFit
