SPECIFICATION MCSpec
CONSTANTS
  TILE_SIZE = 2
  MaxBytes = 1
  LSU_LOAD_SLOTS = 1
  LSU_MAX_LOAD_OUTSTANDING = 4
  LSU_BANK_QUEUE_DEPTH = 4
  ChunkCount = 8
  Bank <- OneBank
  BankOf <- ZeroBank
  AddrOf <- SameAddr
  PhysOf <- SamePhys
  Loads <- NoLoads
  Stores <- OneStore
  MaxStores = 4
INVARIANTS WriteQueueFits
