SPECIFICATION Spec
CONSTANTS
  WordBits = 2
  ARCH_REGS = 3
  PHYS_REGS = 6
  ROB_SIZE = 4
  IQ_SIZE = 3
  FRONTEND_QUEUE_DEPTH = 6
  INGRESS_WIDTH = 2
  DISPATCH_WIDTH = 2
  COMMIT_WIDTH = 2
  ALU_LANES = 2
  LSU_LANES = 2
  PIPE_SLOTS = 2
  INPUT_DEPTH = 1
  RESULT_DEPTH = 1
  MUL_LATENCY = 2
  DIV_LATENCY = 3
  ADDR_LATENCY = 1
  MaxIdle = 2
  MaxCycles = 30
  Programs <- Mixed
  InitMem <- Memory
INVARIANTS TagsShareOut EntriesInOnePlace WaitsForItsWriter HaltsInTime
PROPERTIES ImplementsInOrder
