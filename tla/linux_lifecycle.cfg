\* Two threads, two objects, three descriptor numbers, two names.
CONSTANTS
  NULL = NULL
  t1 = t1
  t2 = t2
  d1 = d1
  d2 = d2
  n1 = n1
  n2 = n2
  a1 = a1
  a2 = a2
  l1 = l1
  Threads = {t1, t2}
  Devices = {d1, d2}
  Names = {n1, n2}
  Fds = {3, 4, 5}
  MqModes = {TRUE, FALSE}
  OtherFlags = {}
  Addrs = {}
  LinkLocal = {}
  MtuArgs = {}
  MtuRange = {2, 3, 4, 5, 6, 7}
  DefaultMtu = 5
  IntModulus = 16
  MaxRx = 1
  ReinitOpen = FALSE
  CloseErrs = FALSE
SPECIFICATION Spec
SYMMETRY Symmetric
INVARIANTS
  TypeOK
  OwnDescriptor
  NoOrphan
  IfnameTracksLink
  LinkHeld
  ReaderKeepsDevice
PROPERTIES
  LeaseSpec
