SPECIFICATION FairSpec
CONSTANTS
  Items <- MCItems
  Source <- MCSource
  About <- MCAbout
  Values <- MCValues
  Initially <- MCInitially
  Configs <- MCConfigs
  Errata <- AllErrata
  Attempts = 2
  MaxEdits = 2
  MaxCrashes = 1
INVARIANTS
  ReportTrue
PROPERTIES
  NothingPartial
  RunEnds
  DriftReported
