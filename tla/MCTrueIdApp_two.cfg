\* Two daemon processes on one machine: one camera, one template directory.
SPECIFICATION FairSpec
CONSTANTS
  a = a
  b = b
  c = c
  NoEmbedding = NoEmbedding
  Nobody = Nobody
  Daemons = {d1, d2}
  Users = {u1}
  Embedding <- MCTwoEmbedding
  Match <- MCTwoMatch
  Dim <- MCTwoDim
  Averages <- MCTwoAverages
  Streaming <- MCTwoStreaming
  MaxTemplates = 2
INVARIANTS
  CameraInv
PROPERTIES
  RequestCompletes
