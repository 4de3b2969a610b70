CONSTANTS
  r1 = r1
  r2 = r2
  Regs = {r1, r2}
  NTags = 4
  NROB = 4
  NCQ = 2
  NPorts = 2
  NIntUnits = 1
  NIntRS = 1
  NBranchRS = 1
  NFpRS = 1
  DecodeWidth = 2
  MaxBranchs = 1
  Kinds <- FpDivKinds
  MaxLatency = 3
  MaxInstr = 5
SPECIFICATION Spec
INVARIANT EachInstructionOnce
