SPECIFICATION Spec
CONSTANTS
  Scenes <- MCScenes
  MaxDepth = 2
  MaxIndicator = 3
  MediaTypes = {"m/t"}
  CollectionTypes = {"urn:x"}
  Base64 <- MCBase64
  CMWs <- MCCMWs
  Documents <- MCDocuments
  Second = 4
  Exact = 1
  Coarse = 2
  MinDate <- MCMinDate
  MaxDate = 6
  NotURIs = {":x"}
INVARIANT InvalidNeverSigned
