\* A call that was let in before the circuit opened succeeds.
SPECIFICATION ServerSpec
CONSTANTS
  Focus = {"breaker"}
  NoCall = NoCall
  Call = {a, b, c}
  failure_threshold = 3
  MaxDropped = 1
  Reader = {r1, r2}
  File = {"f"}
  size <- MCsize
  max_bytes = 3
  CacheSetting <- FileSettings
  Process = {p1, p2}
  ProbeTask = {t1, t2}
  ServeSetting <- ServeSettings
  job1 = job1  job2 = job2  job3 = job3
  NoJob = NoJob
  Job = {job1, job2, job3}
  Task = {k1, k2}
  MAX_PERSISTED_JOBS = 1
  JobsSetting <- JobsSettings
PROPERTIES FailsFastUntilCooldown
CHECK_DEADLOCK FALSE
