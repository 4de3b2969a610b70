CONSTANTS
  r1 = r1
  r2 = r2
  Regs = {r1}
  NTags = 2
  NROB = 3
  NCQ = 2
  NPorts = 1
  NIntUnits = 2
  NIntRS = 1
  NBranchRS = 1
  NFpRS = 1
  DecodeWidth = 2
  MaxBranchs = 1
  Kinds <- KeepKinds
  MaxLatency = 2
  MaxInstr = 5
SPECIFICATION Spec
INVARIANT InterlockCovers
