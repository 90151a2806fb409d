SPECIFICATION FairSpec
CONSTANTS
  Pacc <- OnePacc
  NoPacc = "none"
  GEMM_LANE_SIZE = 1
  TILE_SIZE = 2
  GEMM_LAST_LEVEL_LATENCY = 1
  ACCGET_CHUNKS = 3
  GEMM_OUTPUT_LATENCY = 2
  Temp <- TwoTemps
  AluInst <- Insts
  Meta <- SomeMeta
  MaxInsts = 1
  MaxFired = 2
  MaxGets = 2
INVARIANTS ChunksConserved AccumulatorComplete
PROPERTIES ImplementsTempUnit RequestsRetire
