\* Two producers with frames of odd sizes, against an output channel of one.
CONSTANTS
  Inputs = {i1, i2}
  MixSize = 2
  BufferFrames = 2
  ChanSize = 1
  TickerDur = 1
  WriteSizes = {3, 5}
  MaxSamples = 8
  MaxTime = 4
CHECK_DEADLOCK FALSE
SYMMETRY InputSymmetry
SPECIFICATION Spec
INVARIANTS SamplesConserved RestartsEarned StopNotHeldUp
PROPERTY OutputInOrder
