SPECIFICATION PartsSpec
CONSTANTS
  web = web
  worker = worker
  p1 = p1
  p2 = p2
  old = old
  new = new
  None = None
  Tasks = {web, worker}
  Web = {web}
  Workers = {web, worker}
  Pages = {p1, p2}
  Versions = {old, new}
  Lists <- OneOrNone
  Hash <- HashOf
  Chunks <- ChunksOf
  MaxChunks = 1
  BatchSize = 1
  MaxAttempts = 1
  MaxLate = 1
  Failures = TRUE
INVARIANTS
  BulkTypeOK
  RemovalFoundAgain
  StoresAgree
  RunMirrorsSite
