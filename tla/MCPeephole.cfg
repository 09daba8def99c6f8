SPECIFICATION Spec
CONSTANTS
  IntBits = 10
  CellBitLength = 24
  MaxPushSliceBitLength = 20
  MaxSTSLICECONST = 6
  maxStackDepth = 5
  MinOldSize = 80
  Fuel = 3
  Globals <- MCGlobals
  SymbolValue = 77
  Programs <- MCPrograms
INVARIANTS MeaningKept ExceptionsKept LinesKept
PROPERTY Finishes
