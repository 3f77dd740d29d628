\* One read of a manifest list fails during a commit.
SPECIFICATION PartSpec
CONSTANTS
  Parts = {"commit"}
  Client = {c1, c2}
  Id = {i1, i2, i3}
  NoId = NoId
  Guard = "location"
  Op = {"append"}
  MAX_RETRIES = 2
  MaxReadFaults = 1
  MaxVersions = 2
  Holder = {h1}
  Backend = {h1}
  NoClient = NoClient
  backendOf <- OneProcessEach
  LOCK_LEASE_MS = 2
  MaxTime = 1
  MaxWrites = 1
  MaxOrphans = 0
  w1 = w1  w2 = w2
  Worker = {w1, w2}
  Row = {i1, i2, i3}
  NoRow = NoRow
  Workload <- Workloads
  MaxPaths = 7
  MaxCrashes = 1
SYMMETRY Symmetric
PROPERTIES
  AppendsKeepFiles
CHECK_DEADLOCK FALSE
