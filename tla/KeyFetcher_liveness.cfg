SPECIFICATION FairSpec
CONSTANTS
  Callers = {c1, c2}
  Flights = {f1, f2}
  NoFlight = NoFlight
  Kids = {"k1"}
  NumDocs = 1
  Answers <- MCAnswers
  Responses <- CapResponses
  MinRefresh = 2
  MaxCache = 1
  MaxStale = 0
  FetchTimeout = 1
  MaxTime = 2
INVARIANTS
  TypeOK
  SingleFlight
  ErrorsFromUpstream
PROPERTIES
  CallsReturn
