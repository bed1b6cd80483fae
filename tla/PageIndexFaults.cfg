SPECIFICATION FairSpec
CONSTANTS
  web1 = web1
  web2 = web2
  worker = worker
  p1 = p1
  p2 = p2
  long = long
  longUrl = longUrl
  other = other
  short = short
  None = None
  Tasks = {web1, web2}
  Pages = {p1}
  Versions = {long, longUrl, short}
  Hash <- HashOf
  Chunks <- ChunksOf
  MaxChunks = 2
  BatchSize = 1
  MaxAttempts = 2
  Failures = TRUE
INVARIANTS
  TypeOK
  QuietPagesExact
PROPERTIES
  SoloAnswersTrue
  EveryCallEnds
