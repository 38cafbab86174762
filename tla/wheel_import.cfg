\* The DLL directory is chosen by the machine, the payload by the platform.
CONSTANTS
  NULL = NULL
  r1 = r1
  r2 = r2
  Releases = {r1, r2}
  Members <- TwoMembers
  Requests <- SomeRequests
  Platforms = {"win-amd64", "win32", "mingw"}
  Machines = {"amd64", "x86", "arm", "ia64"}
SPECIFICATION Spec
INVARIANTS
  ImportFindsPayload
