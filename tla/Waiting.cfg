\* Two readers with two buffers of two bytes and three keys; two tasks and a ring of three
\* descriptors; files of one to three blocks: 2, 5 and 8 bytes fill their frames, the last
\* block of 1, 3 and 4 bytes is padded, and that of 1 and 3 bytes makes up for the checksums.
SPECIFICATION MCSpec
CONSTANTS
  Readers = {r1, r2}
  NBuffers = 2
  MaxLine = 2
  MaxKeys = 3
  Jobs <- MCJobs
  RxSize = 3
  MaxStrays = 2
  None = none
  Full = 3
  Pad = 2
  Trailer = 1
  Sizes = {1, 2, 3, 4, 5, 8}
  MaxDoubles = 2
INVARIANTS
  LinesInOrder
  BuffersArePrivate
  AnswersAreOwn
  ReadIsExact
  ShortCountsDoNotEnd
PROPERTIES
  KeyIsRead
  NetworkEnds
CHECK_DEADLOCK FALSE
