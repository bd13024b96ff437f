\* One user, three templates; a mock and two real configurations.
SPECIFICATION FairSpec
CONSTANTS
  One = 10
  match_threshold = 70
  NoTemplate = NoTemplate
  Yamls <- MCYamls
  NotYaml = NotYaml
  NoFile = NoFile
  Bundled <- MCBundled
  StreamingPolicy <- MCStreamingPolicy
  NoApp = NoApp
  Users = {u1}
  Raws <- MCRaws
  MaxTemplates = 3
INVARIANTS
  DeployTypeOK
  AcceptFromThisModel
  FaceRecognised
PROPERTIES
  InstallSound
  LimitsAsConfigured
  EventuallyServes
  AddKeepsAccepted
