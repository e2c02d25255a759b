\* Two digits of two frames beside audio, over the wraps of the numbers; a lag of
\* more than 3 frames resets the audio timeline.
CONSTANTS
  Audio = audio
  Manual = {events}
  Events = events
  Digits <- Calls
  EventFrames = 2
  DelayFrames = 1
  TSMod = 64
  SNMod = 4
  Offset = 60
  FrameTS = 2
  FrameDur = 2
  ResetFrames = 3
  MaxPackets = 3
  MaxLost = 3
  MaxTime = 12
CHECK_DEADLOCK FALSE
SPECIFICATION DTMFSpec
PROPERTIES HeadersAdvance DigitsReceived
