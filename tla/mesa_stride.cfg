\* Mesa's list with an output stride that is a negative int.
SPECIFICATION Spec
CONSTANTS
  U16 = 65536
  U32 <- MCU32
  BankSize = 32768
  Banks = 12
  Ms = {32768}
  Ks = {32}
  Ns = {16, 32768}
  InputDma <- InputPage
  WeightsDma <- WeightsPage
  OutputDma <- OutputPage
  MaxJobs = 1
\* The last list ends.
CHECK_DEADLOCK FALSE
INVARIANT StridesSet
