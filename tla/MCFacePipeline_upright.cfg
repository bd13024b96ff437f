SPECIFICATION Spec
CONSTANTS
  InputSize = 64
  ScoreThreshold = 36
  NmsThreshold = 30
  TopK = 3
  NaN = NaN
  NoFace = NoFace
  NoLandmarks = NoLandmarks
  Outputs <- MCOutputs
  FrameSizes <- MCFrameSizes
INVARIANTS
  UprightFacesPass
