SPECIFICATION ReindexSpec
CONSTANTS
  web1 = web1
  web2 = web2
  worker = worker
  p1 = p1
  p2 = p2
  long = long
  longUrl = longUrl
  other = other
  short = short
  None = None
  Tasks = {web1, worker}
  Pages = {p1}
  Versions = {long, other, short}
  Hash <- HashOf
  Chunks <- ChunksOf
  MaxChunks = 2
  BatchSize = 1
  MaxAttempts = 2
  Failures = FALSE
INVARIANTS
  NoReindexRace
