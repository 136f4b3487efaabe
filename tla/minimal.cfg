\* What the small programs say of their job.
SPECIFICATION MinimalSpec
CONSTANTS
  regcmd = regcmd
  Regcmd = regcmd
  Bos <- MCBos
  Handles = {h1}
  Objs = {o1, o2}
  Dmas = {d1}
  Addrs = {a1}
  Jobs = {j1}
  NoObj = NoObj
  NoDma = NoDma
  NoHandle = NoHandle
  NoAddr = NoAddr
  MapFailed = MapFailed
  Sizes <- MCSizes
  U32 <- MCU32
\* main() returns: the program stops.
CHECK_DEADLOCK FALSE
INVARIANT CompletedMeansDone
