\* __init__ is called again on an open object, and may succeed or fail there.
CONSTANTS
  NULL = NULL
  t1 = t1
  t2 = t2
  d1 = d1
  d2 = d2
  a1 = a1
  a2 = a2
  s1 = s1
  s2 = s2
  e1 = e1
  e2 = e2
  b1 = b1
  b2 = b2
  Threads = {t1}
  Devices = {d1}
  Adapters = {a1, a2}
  Sessions = {s1}
  Events = {e1}
  Bases = {b1}
  MtuArgs = {}
  AddrArgs = {}
  Timeouts = {5}
  DwordModulus = 16
  MaxTx = 1
  MaxRx = 0
  MaxRestarts = 4
  ReinitOpen = TRUE
SPECIFICATION Spec
INVARIANTS
  AdaptersReleased
