\* A stream with one reader, a stream with two, a queue that overflows, and Close.
CONSTANTS
  SSRCs = {"s1", "s2"}
  Readers = {"r1", "r2", "r3"}
  StreamOf <- TwoStreams
  QueueSize = 2
  MaxPackets = 3
CHECK_DEADLOCK FALSE
SPECIFICATION FairSpec
INVARIANTS OfferStands ReadsInOrder PacketsAccounted
PROPERTY SessionEnds
