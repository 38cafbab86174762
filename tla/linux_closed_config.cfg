\* One object closed, its name taken by another program.
CONSTANTS
  NULL = NULL
  t1 = t1
  t2 = t2
  d1 = d1
  d2 = d2
  n1 = n1
  n2 = n2
  a1 = a1
  a2 = a2
  l1 = l1
  Threads = {t1}
  Devices = {d1}
  Names = {n1}
  Fds = {3, 4}
  MqModes = {FALSE}
  OtherFlags = {}
  Addrs = {a1, a2, l1}
  LinkLocal = {l1}
  MtuArgs = {4, 21}
  MtuRange = {2, 3, 4, 5, 6, 7}
  DefaultMtu = 5
  IntModulus = 16
  MaxRx = 0
  ReinitOpen = FALSE
  CloseErrs = FALSE
SPECIFICATION Spec
SYMMETRY Symmetric
PROPERTIES
  ClosedIsInert
