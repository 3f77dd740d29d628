\* A deferred index build; and catalog calls, also when reads of manifest lists fail.
SPECIFICATION JobsAndCallsSpec
CONSTANTS
  Worker = {1, 2}
  NoWorker = 0
  Caller = {a}
  MAX_ATTEMPTS = 2
  PATCH_ATTEMPTS = 2
  LOCK_LEASE_MS = 2
  MaxTime = 3
  Setting <- Settings
  Client = {c1, c2}
  Id = {i1, i2}
  NoId = NoId
  Guard = "location"
  Op = {"append", "delete", "replace", "overwrite", "evolve"}
  MAX_RETRIES = 2
  MaxReadFaults = 1
  MaxVersions = 2
INVARIANTS OneBuilder SucceededIsReady ClaimsAreIndexed
PROPERTIES JobSettles CallsReturn
CHECK_DEADLOCK FALSE
