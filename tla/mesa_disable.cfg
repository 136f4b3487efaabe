\* Mesa's list disables what it enabled.
SPECIFICATION Spec
CONSTANTS
  U16 = 65536
  U32 <- MCU32
  BankSize = 32768
  Banks = 12
  Ms <- MCMs
  Ks <- MCKs
  Ns <- MCNs
  InputDma <- InputPage
  WeightsDma <- WeightsPage
  OutputDma <- OutputPage
  MaxJobs = 1
\* The last list ends.
CHECK_DEADLOCK FALSE
INVARIANT DisabledAtEnd
