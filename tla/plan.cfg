\* Every pair of dimensions, in narrow integers that wrap.
SPECIFICATION Spec
CONSTANTS
  U16 = 64
  U32 = 4096
  BankSize = 32
  Banks = 12
  Ms <- NarrowShorts
  Ks <- NarrowShorts
  Ns <- NarrowNs
\* The call returns.
CHECK_DEADLOCK FALSE
INVARIANTS
  PlanTypeOK
  PlanFits
  NoSpareBank
  RefusedForCause
