\* Two threads, two objects, one descriptor number: close(2) may report an error, after
\* which an object keeps a number that is free and may become another file's.  a1 is a
\* global address, l1 is link-local.
CONSTANTS
  NULL = NULL
  t1 = t1
  t2 = t2
  d1 = d1
  d2 = d2
  n1 = n1
  n2 = n2
  a1 = a1
  a2 = a2
  l1 = l1
  Threads = {t1, t2}
  Devices = {d1, d2}
  Names = {n1, n2}
  Fds = {3}
  MqModes = {FALSE}
  OtherFlags = {}
  Addrs = {a1, l1}
  LinkLocal = {l1}
  MtuArgs = {4}
  MtuRange = {2, 3, 4, 5, 6, 7}
  DefaultMtu = 5
  IntModulus = 16
  MaxRx = 0
  ReinitOpen = FALSE
  CloseErrs = TRUE
SPECIFICATION Spec
SYMMETRY Symmetric
INVARIANTS
  NoOrphan
  LinkHeld
PROPERTIES
  ConfigHitsOwnLink
  NewAddrReadsBack
