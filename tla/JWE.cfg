SPECIFICATION Spec
CONSTANTS
  Calls = {c1}
  Encrypters <- SomeEncrypters
  Decrypters <- SomeDecrypters
  Claims <- SomeClaims
  Tokens <- SomeTokens
  Plaintexts <- SomePlaintexts
  Options <- SomeOptions
  Policies <- SomePolicies
  Keyring <- SomeKeyring
  MaxSent = 2
  MaxTime = 2
INVARIANTS
  DstSound
  DecrypterShielded
  RoundTrip
