\* An event is written between the two critical sections of WritePayload.
CONSTANTS
  Audio = audio
  Manual = {events}
  TSMod = 64
  SNMod = 4
  Offset = 60
  FrameTS = 2
  FrameDur = 2
  ResetFrames = 3
  MaxPackets = 6
  MaxTime = 14
CHECK_DEADLOCK FALSE
SPECIFICATION WriterSpec
PROPERTY AudioNotBehind
