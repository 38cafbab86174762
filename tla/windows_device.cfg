\* Two objects share one table of function pointers; every handle value and both
\* addresses are given out again after release.  31 is INFINITE in a 4-bit DWORD.
CONSTANTS
  NULL = NULL
  t1 = t1
  t2 = t2
  d1 = d1
  d2 = d2
  a1 = a1
  a2 = a2
  s1 = s1
  s2 = s2
  e1 = e1
  e2 = e2
  b1 = b1
  b2 = b2
  Threads = {t1}
  Devices = {d1, d2}
  Adapters = {a1, a2}
  Sessions = {s1, s2}
  Events = {e1}
  Bases = {b1, b2}
  MtuArgs = {1500}
  AddrArgs = {}
  Timeouts = {5, 31}
  DwordModulus = 16
  MaxTx = 1
  MaxRx = 1
  MaxRestarts = 3
  ReinitOpen = FALSE
SPECIFICATION FairSpec
INVARIANTS
  TypeOK
  ApiMapped
  OwnHandles
  NothingLeft
  NoLostWakeup
  RestartsAreStale
PROPERTIES
  LeaseSpec
  ReadReturns
