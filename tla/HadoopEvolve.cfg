SPECIFICATION CatalogsSpec
CONSTANTS
  Catalogs = {"hadoop"}
  p1 = p1  p2 = p2  c1 = c1  c2 = c2  c3 = c3
  NoProcess = NoProcess  NoClient = NoClient
  Process = {p1, p2}
  Client = {c1, c2, c3}
  Setting <- EvolvingSetting
  MaxCalls = 4
  DuckClient = {"t1", "t2"}
  DuckScripts <- MCDuckScripts
PROPERTY SnapshotsStay
CHECK_DEADLOCK FALSE
