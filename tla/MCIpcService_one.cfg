\* One daemon, a CLI user who retries, a PAM login.
SPECIFICATION IpcFairSpec
CONSTANTS
  a = a
  b = b
  u1 = u1
  cli = cli
  pam = pam
  NoEmbedding = NoEmbedding
  Nobody = Nobody
  NoConn = NoConn
  NoRequest = NoRequest
  NoFile = NoFile
  StaleFile = StaleFile
  Daemons = {d1}
  Users = {u1}
  Clients = {cli, pam}
  Commands <- MCCommands
  Login <- MCLogin
  Passwd <- MCPasswd
  MaxAttempts = 2
  Embedding <- MCEmbedding
  Match <- MCMatch
  Dim <- MCDim
  Averages <- MCAverages
  Streaming <- MCStreaming
  MaxTemplates = 3
INVARIANTS
  IpcTypeOK
  WorksForItsCaller
  TemplatesAccounted
  LoginSound
  ExitSound
PROPERTIES
  ConnectionEnds
  ImplementsAuthService
