SPECIFICATION Spec
CONSTANTS
  ArgQty = 1
  RetQty = 1
  EndOfCode = {"exit", "throw", "ifElse"}
  EndInLoop = {"exit", "throw"}
  Loops = {"while", "until", "for"}
  MaxFrames = 3
  MaxSize = 3
INVARIANT LoopKeepsSize
CHECK_DEADLOCK FALSE
