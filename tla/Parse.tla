-------------------------------- MODULE Parse --------------------------------
(***************************************************************************)
(* The checks of Parse (jwt.go), of the key it verifies with (key.go) and  *)
(* of the answer given to a failed request (httpauth.go), as operators.    *)
(*                                                                         *)
(* An error is the set of sentinels that errors.Is finds in it; {} is nil. *)
(*                                                                         *)
(* A token is a record:                                                    *)
(*   defects  what is wrong with its syntax                                *)
(*   crit     it has a "crit" header                                       *)
(*   alg, kid, typ                         its protected header            *)
(*   signer, scheme                        what its signature was made with*)
(*   exp, nbf, iss, aud, present           its claims                      *)
(* A key is a record of kid, kty, alg, use, ops (members of the JWK), id   *)
(* (which material it is) and grade (how good the material is).            *)
(***************************************************************************)
EXTENDS Integers, FiniteSets

None == 0          \* no exp, no nbf
NilAudience == {"nil"}

-----------------------------------------------------------------------------
(* Algorithms and keys                                                     *)

\* internal/alg: the key type an algorithm needs and the least grade: the bytes of
\* an oct key, the whole kilobits of an RSA key (above 8192 bits they are more than
\* MaxRSA), the curve of an EC key.  Grade 0 is material that makes no key.
FamilyHMAC == {"HS256", "HS384", "HS512"}
FamilyRSAPKCS1 == {"RS256", "RS384", "RS512"}
FamilyRSAPSS == {"PS256", "PS384", "PS512"}
FamilyECDSA == {"ES256", "ES384", "ES512"}
FamilyEdDSA == {"Ed25519", "EdDSA"}
Algorithms == FamilyHMAC \cup FamilyRSAPKCS1 \cup FamilyRSAPSS \cup FamilyECDSA \cup FamilyEdDSA

Family ==
  [alg \in Algorithms |->
     CASE alg = "HS256" -> [kty |-> "oct", grade |-> 32]
       [] alg = "HS384" -> [kty |-> "oct", grade |-> 48]
       [] alg = "HS512" -> [kty |-> "oct", grade |-> 64]
       [] alg = "ES256" -> [kty |-> "EC", grade |-> 256]
       [] alg = "ES384" -> [kty |-> "EC", grade |-> 384]
       [] alg = "ES512" -> [kty |-> "EC", grade |-> 521]
       [] alg \in FamilyEdDSA -> [kty |-> "OKP", grade |-> 1]
       [] OTHER -> [kty |-> "RSA", grade |-> 2]]

MaxRSA == 8   \* MaxRSAKeyBits

\* "EdDSA" and "Ed25519" denote one algorithm.
identity(alg) == IF alg = "EdDSA" THEN "Ed25519" ELSE alg
sameAlgorithm(a, b) == identity(a) = identity(b)

permitsVerify(k, alg) ==
  /\ k.use \in {"", "sig"}
  /\ k.ops # {} => "verify" \in k.ops
  /\ k.alg # "" => sameAlgorithm(k.alg, alg)

\* Mutant: any key serves any algorithm it is good enough for.
verifierForAlg_AnyType(k, alg) ==
  IF permitsVerify(k, alg) THEN {} ELSE {"ErrKeyUsage"}

\* Key.verifierForAlg and the constructors of internal/alg.
verifierForAlg(k, alg) ==
  IF ~permitsVerify(k, alg) THEN {"ErrKeyUsage"}
  ELSE IF alg \notin DOMAIN Family THEN {"ErrUnsupportedAlgorithm"}
  ELSE IF k.kty # Family[alg].kty THEN {"ErrAlgorithmNotAllowed"}
  ELSE IF k.grade = 0 /\ k.kty = "oct" THEN {"ErrAlgorithmNotAllowed"}
  ELSE IF k.grade = 0 \/ (k.kty = "RSA" /\ k.grade > MaxRSA) THEN {"ErrMalformedKey"}
  ELSE IF k.kty = "EC" /\ k.grade # Family[alg].grade THEN {"ErrKeyTypeMismatch"}
  ELSE IF k.grade < Family[alg].grade THEN {"ErrWeakKey"}
  ELSE {}

\* Mutant: the guess is allowed whenever the token's algorithm fits.
requireUnambiguousKeyAlgorithm_Never(k, allowed) == {}

\* A key without "alg" must be compatible with one allowed algorithm at most.
requireUnambiguousKeyAlgorithm(k, allowed) ==
  IF /\ k.alg = ""
     /\ Cardinality({identity(a) : a \in {b \in allowed : verifierForAlg(k, b) = {}}}) > 1
  THEN {"ErrKeyUsage"} ELSE {}

\* The signature was made with this material, under this algorithm.
Verify(k, alg, tok) ==
  IF tok.signer = k.id /\ sameAlgorithm(tok.scheme, alg) THEN {} ELSE {"ErrInvalidSignature"}

-----------------------------------------------------------------------------
(* parseVerified up to the lookup, and its claims checks                   *)

withoutNone(algs) == algs \ {"", "none", "NONE"}

\* Mutant: the encodings of payload and signature are left for later.
precheck_HeaderOnly(tok, cfg) ==
  IF withoutNone(cfg.algs) = {} THEN {"ErrNoAllowedAlgorithms"}
  ELSE IF tok.defects \cap {"oversize", "segments", "header"} # {} THEN {"ErrMalformedToken"}
  ELSE IF tok.crit THEN {"ErrUnsupportedCritical"}
  ELSE IF tok.alg \notin withoutNone(cfg.algs) THEN {"ErrAlgorithmNotAllowed"}
  ELSE {}

\* Everything that is checked before a provider is asked.
precheck(tok, cfg) ==
  IF withoutNone(cfg.algs) = {} THEN {"ErrNoAllowedAlgorithms"}
  ELSE IF tok.defects \cap {"oversize", "segments", "header"} # {} THEN {"ErrMalformedToken"}
  ELSE IF tok.crit THEN {"ErrUnsupportedCritical"}
  ELSE IF tok.alg \notin withoutNone(cfg.algs) THEN {"ErrAlgorithmNotAllowed"}
  ELSE IF tok.defects \cap {"payload64", "sig64"} # {} THEN {"ErrMalformedToken"}
  ELSE {}

\* A type without "/" is an application type; case does not count.
normType(typ) == [top |-> IF typ.top = "" THEN "application" ELSE typ.top,
                  sub |-> IF typ.sub = "JWT" THEN "jwt" ELSE typ.sub]
NoType == [top |-> "", sub |-> ""]
typeMatches(got, want) ==
  got # NoType /\ want # NoType /\ normType(got) = normType(want)

audienceOK(aud, cfg) ==
  IF cfg.audience # "" THEN cfg.audience \in aud
  ELSE aud = NilAudience \/ cfg.skipAudience

\* Mutant: the instant of expiry still counts.
validateClaims_ExpInclusive(tok, cfg, now) ==
  IF tok.exp # None /\ now - cfg.leeway > tok.exp THEN {"ErrExpired"}
  ELSE IF tok.nbf # None /\ now + cfg.leeway < tok.nbf THEN {"ErrNotYetValid"}
  ELSE IF cfg.issuer # "" /\ tok.iss # cfg.issuer THEN {"ErrIssuerMismatch"}
  ELSE IF ~audienceOK(tok.aud, cfg) THEN {"ErrAudienceMismatch"}
  ELSE IF cfg.type # NoType /\ ~typeMatches(tok.typ, cfg.type) THEN {"ErrTypeMismatch"}
  ELSE IF ~(cfg.required \subseteq tok.present) THEN {"ErrMissingClaim"}
  ELSE {}

validateClaims(tok, cfg, now) ==
  IF tok.exp # None /\ ~(now - cfg.leeway < tok.exp) THEN {"ErrExpired"}
  ELSE IF tok.nbf # None /\ now + cfg.leeway < tok.nbf THEN {"ErrNotYetValid"}
  ELSE IF cfg.issuer # "" /\ tok.iss # cfg.issuer THEN {"ErrIssuerMismatch"}
  ELSE IF ~audienceOK(tok.aud, cfg) THEN {"ErrAudienceMismatch"}
  ELSE IF cfg.type # NoType /\ ~typeMatches(tok.typ, cfg.type) THEN {"ErrTypeMismatch"}
  ELSE IF ~(cfg.required \subseteq tok.present) THEN {"ErrMissingClaim"}
  ELSE {}

\* The key has been found: what is refused about it, and about the signature.
keyError(key, tok, algs) ==
  LET ambiguous == requireUnambiguousKeyAlgorithm(key, withoutNone(algs))
      unusable == verifierForAlg(key, tok.alg)
  IN IF ambiguous # {} THEN ambiguous
     ELSE IF unusable # {} THEN unusable
     ELSE Verify(key, tok.alg, tok)

-----------------------------------------------------------------------------
(* httpauth.go                                                             *)

tokenErrors == {"ErrInvalidSignature", "ErrExpired", "ErrNotYetValid", "ErrIssuerMismatch",
                "ErrAudienceMismatch", "ErrAlgorithmNotAllowed", "ErrMissingClaim",
                "ErrTypeMismatch", "ErrKeyNotFound", "ErrKeyUsage", "ErrKeyTypeMismatch",
                "ErrUnsupportedCritical", "ErrUnsupportedAlgorithm", "ErrDecryptionFailed",
                "ErrInvalidClaim"}

\* Mutant: the token is blamed before the key fetch.
classifyAuthError_TokenFirst(err) ==
  IF err = {} THEN 401
  ELSE IF "ErrMalformedToken" \in err THEN 400
  ELSE IF err \cap tokenErrors # {} THEN 401
  ELSE IF err \cap {"ErrKeyFetch", "DeadlineExceeded", "Canceled"} # {} THEN 503
  ELSE 500

\* The status that WriteChallenge answers with.
classifyAuthError(err) ==
  IF err = {} THEN 401
  ELSE IF err \cap {"ErrKeyFetch", "DeadlineExceeded", "Canceled"} # {} THEN 503
  ELSE IF "ErrMalformedToken" \in err THEN 400
  ELSE IF err \cap tokenErrors # {} THEN 401
  ELSE 500
=============================================================================
