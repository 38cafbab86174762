\* Two releases, two kinds of files, two architectures; setup.py falls back on
\* the environment and the machine where the platform is "win-arm32" or "mingw", and
\* a wheel for the latter has no "win" in its name.
CONSTANTS
  NULL = NULL
  r1 = r1
  r2 = r2
  Releases = {r1, r2}
  Members <- TwoMembers
  Requests <- SomeRequests
  Platforms = {"win-amd64", "win-arm32", "mingw"}
  Machines = {"amd64", "x86", "arm", "ia64"}
SPECIFICATION Spec
SYMMETRY Symmetric
INVARIANTS
  TypeOK
  FetchIsComplete
  VerifiedWheel
PROPERTIES
  StagedIsVerified
