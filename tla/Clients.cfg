SPECIFICATION MCSpec
CONSTANTS
  Thread = {t1, t2}
  NoThread = none
  Host <- Hosts
  MaxClientCalls = 3
  MaxPanics = 1
  MaxPatches = 1
  EmbedSetup <- Commands
  PipeSize = 2
  flush_size_bytes = 6
  flush_max_rows = 4
  row_bytes = 2
  max_rows = 2
  MemFaults = 1
  MaxMemRows = 6
  MaxBatches = 3
  MaxInsert = 2
  Bearer = {t1, t2}
  NoTask = none
  CredSetting <- Auths
  margin = 1
  request_timeout = 1
  MAX_OAUTH_TOKEN_TTL_SECS = 3
  refresh_after = 2
  Ttl = {2, 4}
  MaxInstant = 4
  Brancher = {t1, t2}
  Branch = {"main", "dev"}
  default_branch = "main"
  NoBranch = "none"
  MaxCommits = 2
  MaxBranchCalls = 3
  MaxBranchFaults = 1
  Focus = {"clients", "embed", "buffers", "tokens", "branches"}
INVARIANTS ClientsTypeOK RowsKept BuffersKeepRows CredentialsFresh
PROPERTIES ClientCallsReturn BranchesSafe
CHECK_DEADLOCK FALSE
