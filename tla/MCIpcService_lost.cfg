\* A second daemon is started while the first one works for a CLI user.
SPECIFICATION IpcSpec
CONSTANTS
  a = a
  b = b
  u1 = u1
  cli = cli
  pam = pam
  NoEmbedding = NoEmbedding
  Nobody = Nobody
  NoConn = NoConn
  NoRequest = NoRequest
  NoFile = NoFile
  StaleFile = StaleFile
  Daemons = {d1, d2}
  Users = {u1}
  Clients = {cli}
  Commands <- MCCommands
  Login <- MCLogin
  Passwd <- MCPasswd
  MaxAttempts = 3
  Embedding <- MCTwoFaces
  Match <- MCTwoMatch
  Dim <- MCTwoDim
  Averages <- MCTwoAverages
  Streaming <- MCStreaming
  MaxTemplates = 3
PROPERTIES
  AddKeepsTemplates
