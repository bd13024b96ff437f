\* One daemon process, one user: the deployment the packaging describes.
SPECIFICATION FairSpec
CONSTANTS
  a = a
  b = b
  c = c
  NoEmbedding = NoEmbedding
  Nobody = Nobody
  Daemons = {d1}
  Users = {u1}
  Embedding <- MCEmbedding
  Match <- MCMatch
  Dim <- MCDim
  Averages <- MCAverages
  Streaming <- MCStreaming
  MaxTemplates = 3
INVARIANTS
  TypeOK
  CameraInv
  AcceptSound
  RejectComplete
  OperationInv
PROPERTIES
  NeverLosesTemplates
  AlwaysAdvances
  RequestCompletes
  ImplementsFaceAuth
