SPECIFICATION MCSpec
CONSTANTS
  TILE_SIZE = 2
  MaxBytes = 2
  LSU_LOAD_SLOTS = 2
  LSU_MAX_LOAD_OUTSTANDING = 6
  LSU_BANK_QUEUE_DEPTH = 6
  ChunkCount = 8
  Bank <- TwoBanks
  BankOf <- HashBank
  AddrOf <- HashAddr
  PhysOf <- HashPhys
  Loads <- MixedLoads
  Stores <- MixedStores
  MaxStores = 3
INVARIANTS LoadsAccounted ReadQueueFits StoreDataWhole
PROPERTIES ImplementsPlanePort LoadsFinish StoresInOrder StoreLands
