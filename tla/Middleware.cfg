SPECIFICATION Spec
CONSTANTS
  Requests = {r1}
  Scenes <- MCScenes
  Failures <- AllFailures
INVARIANTS ServedSound OneKeyOneAlgorithm FaultAttributed ServedFresh ProviderShielded
