CONSTANTS
  r1 = r1
  r2 = r2
  None = None
  Regs = {r1, r2}
  Fields = {0}
  W = 4
  NCQ = 2
  AnyOperands = FALSE
  Instructions <- AllForms
SPECIFICATION Spec
INVARIANTS RegistersAgree CarryExact
