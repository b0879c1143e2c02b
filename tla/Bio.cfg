\* Two buffers, one of which may be pinned, for two processes and three sectors:
\* buffers are recycled, and bget() may find none and panic, after which nothing
\* happens.
SPECIFICATION FairSpec
CHECK_DEADLOCK FALSE
CONSTANTS
  Proc = {p1, p2}
  Sector = {s1, s2, s3}
  Val = {v1, v2}
  NBUF = 2
  NoSector = NoSector
  NoBuf = NoBuf
  NoData = NoData
  MaxDirty = 1
INVARIANT OneBufferPerSector
INVARIANT QueueSound
PROPERTY ContentsChangeOnlyByHolder
 
