\* Weights that exceed the buffer are accepted.
SPECIFICATION Spec
CONSTANTS
  U16 = 65536
  U32 <- WideU32
  BankSize = 32768
  Banks = 12
  Ms <- WideMs
  Ks <- WideKs
  Ns <- WideNs
\* The call returns.
CHECK_DEADLOCK FALSE
INVARIANT TooLargeRefused
