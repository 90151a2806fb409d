SPECIFICATION FairSpec
CONSTANTS
  Pacc = {p1, p2}
  NoPacc = NoPacc
  GEMM_LANE_SIZE = 2
  TILE_SIZE = 8
  GEMM_LAST_LEVEL_LATENCY = 3
  MaxInsts = 4
INVARIANTS FeedingWrittenOnce NeverStalls
PROPERTIES ImplementsMatMul EverythingRetires
