SPECIFICATION FairSpec
CONSTANTS
  VTREG_SIZE = 1
  PTREG_SIZE = 2
  MaxReads = 2
  MaxWrites = 1
  CountMod = 16
  MaskCountMod = 1
  MaxOwed = 2
  Insts <- OneInsts
INVARIANTS CountsConserved FreeListExact
PROPERTIES HeldIsRenamed ReplacedIsFreed
