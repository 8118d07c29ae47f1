SPECIFICATION Spec
CONSTANTS
  Issuers <- SomeIssuers
  Webs <- SomeWebs
  HostKind <- Kinds
  Allowed = {"op", "intranet"}
  CacheHeaders <- SomeCacheHeaders
  MaxRedirects = 3
  MaxVia = 5
  MaxDuration = 5
  BadURIs = {"::"}
  Sessions = {"s1", "s2"}
  Context <- SomeContext
  IDTokens <- SomeIDTokens
INVARIANTS
  EveryHopVetted
  CacheNeverLonger
  MeantForThisLogin
  ChainOfTrust
