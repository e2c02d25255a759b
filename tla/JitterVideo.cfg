\* Frames of several packets and padding, on two SSRCs, with jumps, flushes and changes
\* of the latency.
CONSTANTS
  SNs <- JumpSNs
  SSRCs = {a, b}
  Shapes <- FrameShapes
  Ages = {0}
  Latencies = {1, 2}
  DetectRestarts = FALSE
  Calls = {"Flush", "UpdateLatency"}
  MaxPush = 5
  PushHorizon = 1
  MaxTime = 3
  LineQuiet = 1
  LineWindow = 1
  LineParallel = 2
  LineMinPackets = 2
CHECK_DEADLOCK FALSE
SPECIFICATION Spec
INVARIANTS Accounting CallbacksCurrent SingleStream NothingReadyWaits
PROPERTY SampleIntact
