\* Safety of the library on one context, and the buffer pool it implements.
SPECIFICATION Spec
CONSTANTS
  Bos = {b1, b2}
  Handles = {h1, h2}
  Objs = {o1, o2, o3}
  Dmas = {d1, d2}
  Addrs = {a1, a2}
  Jobs = {j1, j2}
  NoObj = NoObj
  NoDma = NoDma
  NoHandle = NoHandle
  NoAddr = NoAddr
  MapFailed = MapFailed
  Sizes <- MCSizes
  U32 <- MCU32
SYMMETRY Symmetry
INVARIANTS
  TypeOK
  BosOwnStorage
  BosDisjoint
  NoLeak
  MappingFits
PROPERTY ImplementsPool
