SPECIFICATION EitherSpec
CONSTANTS
  ChunkSize = 250
  Overlap = 40
  MinSize = 50
  Lengths <- UpToThreeWindows
  p1 = p1
  p2 = p2
  p3 = p3
  Pages = {p1, p2, p3}
  NoPage = NoPage
  Scores = {841, 843, 846, 848}
  Unit = 10
  SearchTopK = 3
  MaxMatches = 4
  MaxLimit = 2
INVARIANTS
  FirstChunkKept
  OnlyTailLost
  ChunksOverlap
  RanksByBestChunk
  LiveRankTrue
CHECK_DEADLOCK FALSE
