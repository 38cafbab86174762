\* Two threads, two objects and another program compete for two units; one
\* preferred number names a unit there is and one (7) does not.
CONSTANTS
  NULL = NULL
  t1 = t1
  t2 = t2
  d1 = d1
  d2 = d2
  f1 = f1
  f2 = f2
  a1 = a1
  l1 = l1
  Threads = {t1, t2}
  Devices = {d1, d2}
  Fds = {f1, f2}
  LastUnit = 2
  Preferred = {1, 7}
  Addrs = {a1, l1}
  LinkLocal = {l1}
  Mtus = {1280}
  DefaultMtu = 1500
  CloseErrs = TRUE
  ReinitOpen = FALSE
SPECIFICATION Spec
SYMMETRY Symmetric
INVARIANTS
  TypeOK
  NoOrphan
  NameIsUnit
PROPERTIES
  LeaseSpec
  LoopMissesNone
  SettingsHitOwnUnit
  FirstAddrReadsBack
