\* Two frames of burst and a threshold of three, with room for two long stalls.
CONSTANTS
  Inputs = {}
  MixSize = 1
  ChanSize = 1
  WriteSizes = {}
  MaxSamples = 0
  BufferFrames = 2
  TickerDur = 8
  MaxTime = 48
  Audio = audio
  TSMod = 128
  SNMod = 1
  Offset = 120
  FrameTS = 1
  ResetFrames = 3
  MaxPackets = 30
CHECK_DEADLOCK FALSE
SPECIFICATION MixedSpec
INVARIANTS LeadBounded InRealTime
PROPERTY KeepsUp
