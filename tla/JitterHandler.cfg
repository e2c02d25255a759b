\* Audio through the mux and the jitter handler, across the wrap of the sequence numbers.
CONSTANTS
  SNs <- WrapSNs
  SSRCs = {a}
  Shapes <- AudioShapes
  Ages = {0, 1}
  Latencies = {1, 2}
  DetectRestarts = FALSE
  Calls = {"Flush", "Close", "UpdateLatency"}
  MaxPush = 4
  PushHorizon = 3
  MaxTime = 4
  LineQuiet = 1
  LineWindow = 1
  LineParallel = 2
  LineMinPackets = 2
CHECK_DEADLOCK FALSE
SPECIFICATION HandlerSpec
INVARIANTS TimerArmed NoDuplicates HandlerContract
PROPERTIES PlayoutAdvances GapIsLoss
