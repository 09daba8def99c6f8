SPECIFICATION Spec
CONSTANTS
  ArgQty = 1
  RetQty = 1
  Loops = {"while", "until", "for", "foreach"}
  LoopVarQtys = {1}
  ContinueUnderFlag = FALSE
  MaxFrames = 4
  MaxSize = 5
INVARIANTS SizeIsDepth JumpsArrive LeavesOnlyResults OnlyFlagsTested NoFlagOnlyJumps
PROPERTIES RestoresSize JumpCompletes
