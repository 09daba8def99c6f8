SPECIFICATION Spec
CONSTANTS
  ArgQty = 0
  RetQty = 0
  Loops = {"while"}
  LoopVarQtys = {0}
  ContinueUnderFlag = TRUE
  MaxFrames = 5
  MaxSize = 5
INVARIANT SizeIsDepth
