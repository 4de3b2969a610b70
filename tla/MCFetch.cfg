CONSTANTS
  Program <- ThreeLines
  NInstructionQueue = 6
  NBranchQueue = 1
  MaxBeforeFetchStall = 2
  MaxBeforeDispatchStall = 1
  LineInstructions = 4
  FetchInstructions = 4
  NPerBTICEntry = 2
  NIQ = 2
  NIQBranchs = 1
  NBranchRS = 1
  TagZero = {1}
SPECIFICATION Spec
INVARIANTS TypeInvariant BranchCounterExact
PROPERTY DecodesThePath
