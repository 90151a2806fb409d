SPECIFICATION FlowSpec
CONSTANTS
  VTREG_SIZE = 2
  PTREG_SIZE = 4
  MaxReads = 1
  MaxWrites = 1
  CountMod = 16
  MaskCountMod = 2
  MaxOwed = 2
  MaxInsts = 3
  Insts <- FlowInsts
INVARIANTS MapInjective
PROPERTIES NoWriteUnderRead ImplementsProgram
