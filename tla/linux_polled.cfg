\* Two threads, each with its own object, and a busy host: deletions, renamings,
\* unrelated interfaces and descriptors, packets or none.
CONSTANTS
  NULL = NULL
  t1 = t1
  t2 = t2
  d1 = d1
  d2 = d2
  n1 = n1
  n2 = n2
  Threads = {t1, t2}
  Devices = {d1, d2}
  Owned <- MCOwned
  Names = {n1, n2}
  Fds = {3, 4}
  MqModes = {FALSE}
  OtherFlags = {}
  Addrs = {}
  LinkLocal = {}
  MtuArgs = {}
  MtuRange = {5}
  DefaultMtu = 5
  IntModulus = 16
  MaxRx = 1
  ReinitOpen = FALSE
  CloseErrs = FALSE
SPECIFICATION PSpec
INVARIANTS
  ReadNeverBlocks
PROPERTIES
  GilReturned
  AllEnd
