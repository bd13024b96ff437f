\* The same machine: what a successful get-models leaves.
SPECIFICATION Spec
CONSTANTS
  One = 10
  match_threshold = 70
  NoTemplate = NoTemplate
  Yamls <- MCYamls
  NotYaml = NotYaml
  NoFile = NoFile
  Bundled <- MCBundled
  StreamingPolicy <- MCStreamingPolicy
  NoApp = NoApp
  Users = {u1}
  Raws <- MCRaws
  MaxTemplates = 3
PROPERTIES
  ModelsInstalled
