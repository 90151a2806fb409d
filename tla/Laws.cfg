SPECIFICATION Spec
CONSTANTS
  TILE_SIZE = 3
  ByteBase = 4
  MaxStep = 7
  MaxMargin = 4
  BankBits = 3
  Last = 2047
  WORD_BITS = 3
  MaxWidth = 7
  MaxNum = 4599
INVARIANTS TileLaws HashExact IntegersExact AccumulationExact ElementsExact
