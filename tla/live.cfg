\* Calls return whatever the NPU does; waits end and storage is freed if jobs end.
SPECIFICATION HostSpec
CONSTANTS
  Bos = {b1, b2}
  Handles = {h1, h2}
  Objs = {o1, o2}
  Dmas = {d1, d2}
  Addrs = {a1, a2}
  Jobs = {j1}
  NoObj = NoObj
  NoDma = NoDma
  NoHandle = NoHandle
  NoAddr = NoAddr
  MapFailed = MapFailed
  Sizes <- MCSmall
  U32 <- MCU32
PROPERTIES
  TimedCallsReturn
  UntimedPrepReturns
  OrphansFreed
