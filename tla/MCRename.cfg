CONSTANTS
  r1 = r1
  r2 = r2
  Regs = {r1, r2}
  NTags = 3
  NROB = 4
  NCQ = 2
  NPorts = 2
  NIntUnits = 2
  NIntRS = 1
  NBranchRS = 1
  NFpRS = 1
  DecodeWidth = 2
  MaxBranchs = 1
  Kinds <- MixKinds
  MaxLatency = 2
  MaxInstr = 6
SPECIFICATION Spec
INVARIANTS TypeInvariant EachInstructionOnce RenameExact OperandsCorrect ArchCorrect BranchCountersExact
PROPERTY FlushExact
