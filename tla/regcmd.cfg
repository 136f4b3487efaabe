\* The lists of the three generators, as the NPU's registers see them.
SPECIFICATION Spec
CONSTANTS
  U16 = 65536
  U32 <- MCU32
  BankSize = 32768
  Banks = 12
  Ms <- MCMs
  Ks <- MCKs
  Ns <- MCNs
  InputDma <- InputPage
  WeightsDma <- WeightsPage
  OutputDma <- OutputPage
  MaxJobs = 2
\* The last list ends.
CHECK_DEADLOCK FALSE
INVARIANTS
  JobInRegisters
  NothingStale
  ReservedClear
  RegistersExist
  CnaConfigured
PROPERTY RepeatsAgree
