CONSTANTS
  Regs = {r1, r2}
  NTags = 3
SPECIFICATION Spec
INVARIANTS TypeInvariant Linked NoLeak ValidOwned
PROPERTIES RenameStable RefinesVersionStack
