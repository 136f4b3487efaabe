\* The wait times out and the BOs are destroyed under the job.
SPECIFICATION ClientSpec
CONSTANTS
  regcmd = regcmd
  input = input
  weights = weights
  output = output
  Regcmd = regcmd
  Input = input
  Weights = weights
  Output = output
  Bos <- MCBos
  Handles = {h1, h2, h3, h4}
  Objs = {o1, o2, o3, o4}
  Dmas = {d1, d2, d3, d4}
  Addrs = {a1, a2, a3, a4}
  Jobs = {j1}
  NoObj = NoObj
  NoDma = NoDma
  NoHandle = NoHandle
  NoAddr = NoAddr
  MapFailed = MapFailed
  Sizes <- MCSizes
  U32 <- MCU32
\* main() returns: the program stops.
CHECK_DEADLOCK FALSE
INVARIANT CommandAddressValid
