SPECIFICATION Spec
CONSTANTS
  WordBits = 3
  ARCH_REGS = 8
  PHYS_REGS = 20
  ROB_SIZE = 16
  IQ_SIZE = 16
  FRONTEND_QUEUE_DEPTH = 16
  INGRESS_WIDTH = 2
  DISPATCH_WIDTH = 2
  COMMIT_WIDTH = 2
  ALU_LANES = 2
  LSU_LANES = 1
  PIPE_SLOTS = 4
  INPUT_DEPTH = 4
  RESULT_DEPTH = 4
  MUL_LATENCY = 3
  DIV_LATENCY = 8
  ADDR_LATENCY = 2
  MaxIdle = 0
  MaxCycles = 600
  Programs <- FiveLoads
  InitMem <- Memory
INVARIANTS HaltsInTime
