\* The ring: three slots, and slices that are shorter, as long and longer than them.
\* The resampler: buffers shorter and longer than a write, four writes.
\* The search: five ports and bounds in, at and outside their range.
\* A search ends, and so does a resampler's input.
CONSTANTS
  Size = 3
  Values = {0, 1, 2}
  Zero = 0
  MaxCopy = 4
  BufLen = 8
  Quality = 3
  Rates <- Ratios
  FrameLens = {6, 8, 14, 24}
  MaxFrames = 4
  MaxPort = 5
  PortArgs = {0, 1, 2, 3, 5, 6}
  Acceptors = {a1, a2}
  Closers = {c1, c2}
  Streams = {s1, s2, s3}
  RatePairs <- FewRatios
  DataLens = {1, 3, 6}
  MaxHeld = 3
  FlushRoom = 2
  MaxSpare = 1
  MaxWrites = 4
SPECIFICATION BlocksSpec
INVARIANTS PointsInPlace PortsTried OnlyInHandLeaks
PROPERTIES RingIsFifo SoxrWhole
CHECK_DEADLOCK FALSE
