CONSTANTS
  W = 8
  PageSize = 16
  Primary = 2
  Secondary = 1
  LineSize = 8
  ChunkSize = 4
  Programs <- AllPrograms
  MemorySize = 64
  Times = {77}
  HostResults = {0, 5}
  HostByte = 2
  StructSize = 6
SPECIFICATION Spec
INVARIANTS SameRegisters SameNextPc SameMemory
CHECK_DEADLOCK FALSE
