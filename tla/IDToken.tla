------------------------------- MODULE IDToken -------------------------------
(***************************************************************************)
(* The ID token checks of idtoken.go, as operators.  Claims are a record   *)
(*   iss, sub, azp, nonce     "" when absent                               *)
(*   aud                      a sequence                                   *)
(*   exp, iat                 whether they are present                     *)
(*   at_hash, c_hash          NoHash, Broken, or what they are a hash of   *)
(*   amr                      a sequence                                   *)
(* and a validation context one of client, trusted, nonce, requireNonce,   *)
(* access, code, alg.  BadURIs are the strings that ValidateStringOrURI    *)
(* refuses.  An error is a set of sentinels, as in Parse.tla.              *)
(***************************************************************************)
EXTENDS Integers, Sequences, SequencesExt

CONSTANT BadURIs

NoHash == [hash |-> 0, of |-> ""]
Broken == [hash |-> -1, of |-> ""]      \* not canonical base64url

\* The claims that are missing.
Missing(c) ==
  {n \in {"iss", "sub", "azp"} :
     CASE n = "iss" -> c.iss = ""
       [] n = "sub" -> c.sub = ""
       [] n = "azp" -> Len(c.aud) > 1 /\ c.azp = ""}
    \cup (IF c.aud = <<>> THEN {"aud"} ELSE {})
    \cup (IF c.exp THEN {} ELSE {"exp"}) \cup (IF c.iat THEN {} ELSE {"iat"})

ValidateIDTokenClaims(c) ==
  IF Missing(c) # {} THEN {"ErrMissingClaim"}
  ELSE IF \/ {c.iss, c.sub, c.azp} \cap BadURIs # {}
          \/ \E a \in ToSet(c.aud) : a = "" \/ a \in BadURIs
          \/ c.azp # "" /\ ~Contains(c.aud, c.azp)
          \/ Broken \in {c.at_hash, c.c_hash}
          \/ Contains(c.amr, "")
  THEN {"ErrInvalidClaim"} ELSE {}

oidcHashAlgorithm(alg) ==
  CASE alg \in {"HS256", "RS256", "PS256", "ES256"} -> 256
    [] alg \in {"HS384", "RS384", "PS384", "ES384"} -> 384
    [] alg \in {"HS512", "RS512", "PS512", "ES512", "Ed25519", "EdDSA"} -> 512
    [] OTHER -> 0

validateOIDCHash(claim, value, alg) ==
  IF claim = NoHash THEN {}
  ELSE IF value = "" THEN {"ErrInvalidClaim"}
  ELSE IF oidcHashAlgorithm(alg) = 0 THEN {"ErrUnsupportedAlgorithm"}
  ELSE IF claim # [hash |-> oidcHashAlgorithm(alg), of |-> value] THEN {"ErrInvalidClaim"}
  ELSE {}

\* The client is an audience, every other one is trusted, and azp is the client.
audienceError(c, v) ==
  IF ~Contains(c.aud, v.client) THEN {"ErrAudienceMismatch"}
  ELSE IF ~(ToSet(c.aud) \subseteq v.trusted \cup {v.client}) THEN {"ErrAudienceMismatch"}
  ELSE IF c.azp # "" /\ c.azp # v.client THEN {"ErrInvalidClaim"}
  ELSE IF Len(c.aud) > 1 /\ c.azp # v.client THEN {"ErrInvalidClaim"}
  ELSE {}

\* Mutant: a token without a nonce is let through.
nonceError_IfPresent(c, v) ==
  IF c.nonce # "" /\ c.nonce # v.nonce THEN {"ErrInvalidClaim"} ELSE {}

nonceError(c, v) ==
  IF (v.requireNonce \/ v.nonce # "") /\ (c.nonce = "" \/ c.nonce # v.nonce)
  THEN {"ErrInvalidClaim"} ELSE {}

\* The errors in the order of the code; the first that is not nil is returned.
ValidateIDTokenForContext(c, v) ==
  LET errs == <<ValidateIDTokenClaims(c),
                IF v.client = "" THEN {"ErrInvalidClaim"} ELSE {},
                audienceError(c, v), nonceError(c, v),
                validateOIDCHash(c.at_hash, v.access, v.alg),
                validateOIDCHash(c.c_hash, v.code, v.alg)>>
      real == {i \in 1..6 : errs[i] # {}}
  IN IF real = {} THEN {} ELSE errs[CHOOSE i \in real : \A j \in real : i <= j]
=============================================================================
