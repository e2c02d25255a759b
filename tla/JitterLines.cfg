\* Restart detection, with several sequence lines on one SSRC, and Close, to the end.
CONSTANTS
  SNs <- LineSNs
  SSRCs = {a}
  Shapes <- AudioShapes
  Ages = {0}
  Latencies = {1}
  DetectRestarts = TRUE
  Calls = {"Close"}
  MaxPush = 4
  PushHorizon = 1
  MaxTime = 2
  LineQuiet = 1
  LineWindow = 1
  LineParallel = 2
  LineMinPackets = 2
CHECK_DEADLOCK FALSE
SPECIFICATION FairSpec
INVARIANT LineLeadsPlayout
PROPERTIES TakeoverPlays Drains LoopStops
