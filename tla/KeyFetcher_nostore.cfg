SPECIFICATION Spec
CONSTANTS
  Callers = {c1}
  Flights = {f1, f2}
  NoFlight = NoFlight
  Kids = {"k1", "k2"}
  NumDocs = 2
  Answers <- MCAnswers
  Responses <- AllResponses
  MinRefresh = 2
  MaxCache = 3
  MaxStale = 1
  FetchTimeout = 1
  MaxTime = 4
INVARIANTS
  NotFoundIsTrue
