\* Commits to a Rest catalog, where snapshot and schema are compared and the
\* server applies the change; two processes that contend for one lock path; and
\* the rows of a table under each workload.
SPECIFICATION PartSpec
CONSTANTS
  Parts = {"commit", "lock", "rows"}
  Client = {c1, c2}
  Id = {i1, i2, i3}
  NoId = NoId
  Guard = "refs"
  Op = {"append", "delete", "replace", "overwrite", "evolve"}
  MAX_RETRIES = 2
  MaxReadFaults = 0
  MaxVersions = 2
  Holder = {h1, h2}
  Backend = {h1, h2}
  NoClient = NoClient
  backendOf <- OneProcessEach
  LOCK_LEASE_MS = 2
  MaxTime = 4
  MaxWrites = 4
  MaxOrphans = 1
  w1 = w1  w2 = w2
  Worker = {w1, w2}
  Row = {i1, i2, i3}
  NoRow = NoRow
  Workload <- Workloads
  MaxPaths = 7
  MaxCrashes = 1
SYMMETRY Symmetric
INVARIANTS TableTypeOK OutcomesTruthful ConfirmedLeaseIsCurrent RowsVisible RowsOnce NoDangling
PROPERTIES ImplementsTableLog AppendsKeepFiles ImplementsLease
CHECK_DEADLOCK FALSE
