SPECIFICATION CatalogsSpec
CONSTANTS
  Catalogs = {"hadoop", "ducklake"}
  p1 = p1  p2 = p2  c1 = c1  c2 = c2  c3 = c3
  NoProcess = NoProcess  NoClient = NoClient
  Process = {p1, p2}
  Client = {c1, c2, c3}
  Setting <- Settings
  MaxCalls = 4
  DuckClient = {"t1", "t2"}
  DuckScripts <- MCDuckScripts
INVARIANTS CatalogsTypeOK CommitsDurable SidecarFaithful
PROPERTIES ImplementsTableLog CatalogCallsReturn ErrorsLeaveNothing
CHECK_DEADLOCK FALSE
