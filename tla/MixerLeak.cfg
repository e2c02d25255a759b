\* Stop at any time, with a sink that returns, and an output channel.
CONSTANTS
  Inputs = {i1}
  MixSize = 1
  BufferFrames = 2
  ChanSize = 1
  TickerDur = 2
  WriteSizes = {2}
  MaxSamples = 2
  MaxTime = 8
CHECK_DEADLOCK FALSE
SPECIFICATION FairSinkSpec
PROPERTY MixerStops
