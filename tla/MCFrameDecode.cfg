\* u32 of 8 values, usize of 64.
SPECIFICATION Spec
CONSTANTS
  U32 = 8
  Usize = 64
  Sizes <- MCSizes
  Drivers <- MCDrivers
  Payloads <- MCPayloads
  BufferLen = 72
  Refused = Refused
  NotJpeg = NotJpeg
  Closed = Closed
  NoFrame = NoFrame
  Error = Error
  Panic = Panic
INVARIANTS
  FrameTypeOK
  FrameWhole
  RgbShowsFrame
  TurnedOnce
  OnlyBadPayloadsFail
  DiesOnlyOfHugeSizes
