-------------------------- MODULE Middleware_proofs --------------------------
(***************************************************************************)
(* Proofs about Middleware for any requests, tokens, keys, options and     *)
(* failures, and for any number of steps.                                  *)
(*                                                                         *)
(* The argument: a request carries along what has been checked about its   *)
(* token (RequestInv), in the terms of the operators that checked it, so   *)
(* that neither a key that is replaced nor the time that passes between    *)
(* two steps matters; and the keys that were ever used each passed         *)
(* requireUnambiguousKeyAlgorithm under the one allowlist (UsesInv).       *)
(***************************************************************************)
EXTENDS Middleware, FiniteSetTheorems, TLAPS

-----------------------------------------------------------------------------
(* What it means that a check passed                                       *)

\* A token that passes precheck has an allowed algorithm, no critical extension and no
\* defect but that its payload may be no JSON object.
LEMMA PrecheckPassed ==
  ASSUME NEW tok, NEW c, precheck(tok, c) = {}
  PROVE  /\ tok.alg \in withoutNone(c.algs)
         /\ ~tok.crit
         /\ tok.defects \cap {"oversize", "segments", "header", "payload64", "sig64"} = {}
BY DEF precheck

\* What precheck finds is an empty allowlist or a fault of the token.
LEMMA PrecheckErrors ==
  ASSUME NEW tok, NEW c
  PROVE  precheck(tok, c) \in {{}, {"ErrNoAllowedAlgorithms"}, {"ErrMalformedToken"},
                               {"ErrUnsupportedCritical"}, {"ErrAlgorithmNotAllowed"}}
BY DEF precheck

\* A key that verifies an algorithm is of the type that the algorithm needs and permits it.
LEMMA VerifierForAlgPassed ==
  ASSUME NEW k, NEW alg, verifierForAlg(k, alg) = {}
  PROVE  alg \in DOMAIN Family /\ k.kty = Family[alg].kty /\ permitsVerify(k, alg)
BY DEF verifierForAlg

\* Two names of one algorithm are in one family.
LEMMA SameFamily ==
  ASSUME NEW a \in DOMAIN Family, NEW b, sameAlgorithm(a, b)
  PROVE  b \in DOMAIN Family /\ Family[a].kty = Family[b].kty
BY DEF Family, Algorithms, FamilyHMAC, FamilyRSAPKCS1, FamilyRSAPSS, FamilyECDSA, FamilyEdDSA,
       sameAlgorithm, identity

\* A set of at most one element has no two.
LEMMA AtMostOne ==
  ASSUME NEW S, IsFiniteSet(S), ~(Cardinality(S) > 1), NEW x \in S, NEW y \in S
  PROVE  x = y
<1>1. Cardinality(S) \in Nat
  BY FS_CardinalityType
<1>2. Cardinality(S) # 0
  BY FS_EmptySet
<1>3. Cardinality(S) = 1
  BY <1>1, <1>2
<1>4. \E z : S = {z}
  BY <1>3, FS_Singleton
<1> QED BY <1>4

\* An unambiguous key serves one of the allowed algorithms only.
LEMMA Unambiguous ==
  ASSUME NEW k, NEW A, IsFiniteSet(A), requireUnambiguousKeyAlgorithm(k, A) = {},
         NEW a \in A, NEW b \in A, verifierForAlg(k, a) = {}, verifierForAlg(k, b) = {}
  PROVE  identity(a) = identity(b)
<1>1. CASE k.alg # ""
  BY <1>1, VerifierForAlgPassed DEF permitsVerify, sameAlgorithm
<1>2. CASE k.alg = ""
  <2> DEFINE fits == {c \in A : verifierForAlg(k, c) = {}}
             ids == {identity(c) : c \in fits}
  <2>1. ~(Cardinality(ids) > 1)
    BY <1>2 DEF requireUnambiguousKeyAlgorithm
  <2>2. IsFiniteSet(fits)
    BY FS_Subset
  <2>3. IsFiniteSet(ids)
    <3> DEFINE f == [c \in fits |-> identity(c)]
    <3>1. f \in Surjection(fits, ids)
      BY DEF Surjection
    <3> QED BY <2>2, <3>1, FS_Surjection
  <2>4. identity(a) \in ids /\ identity(b) \in ids
    OBVIOUS
  <2> HIDE DEF ids
  <2> QED BY <2>1, <2>3, <2>4, AtMostOne
<1> QED BY <1>1, <1>2

\* A key that passes was unambiguous, serves the algorithm and made the signature.
LEMMA KeyPassed ==
  ASSUME NEW key, NEW tok, NEW A, keyError(key, tok, A) = {}
  PROVE  /\ requireUnambiguousKeyAlgorithm(key, withoutNone(A)) = {}
         /\ verifierForAlg(key, tok.alg) = {}
         /\ Verify(key, tok.alg, tok) = {}
BY DEF keyError

\* What the claims checks find is a fault of the token.
LEMMA ClaimErrors ==
  ASSUME NEW tok, NEW c, NEW now
  PROVE  validateClaims(tok, c, now) \in
           {{}, {"ErrExpired"}, {"ErrNotYetValid"}, {"ErrIssuerMismatch"},
            {"ErrAudienceMismatch"}, {"ErrTypeMismatch"}, {"ErrMissingClaim"}}
BY DEF validateClaims, None

\* A token whose claims pass is within its time, up to the leeway, and for this recipient.
LEMMA ClaimsPassed ==
  ASSUME NEW tok, NEW c, NEW now \in Int, c.leeway \in Nat, {tok.exp, tok.nbf} \subseteq Int,
         validateClaims(tok, c, now) = {}
  PROVE  /\ tok.exp # None => now < tok.exp + c.leeway
         /\ tok.nbf # None => now + c.leeway >= tok.nbf
         /\ audienceOK(tok.aud, c)
<1>1. audienceOK(tok.aud, c)
  BY DEF validateClaims
<1>2. tok.exp # None => now - c.leeway < tok.exp
  BY DEF validateClaims
<1>3. tok.nbf # None => ~(now + c.leeway < tok.nbf)
  BY DEF validateClaims
<1>4. tok.exp \in Int /\ tok.nbf \in Int
  OBVIOUS
<1> QED BY <1>1, <1>2, <1>3, <1>4

-----------------------------------------------------------------------------
(* Whose fault a refused key is                                            *)

\* What keyError finds is a fault of the token unless the stored key is broken.
LEMMA KeyErrors ==
  ASSUME NEW key, NEW tok, NEW A
  PROVE  LET err == keyError(key, tok, A) IN
         /\ err \in {{}, {"ErrKeyUsage"}, {"ErrUnsupportedAlgorithm"}, {"ErrAlgorithmNotAllowed"},
                     {"ErrMalformedKey"}, {"ErrKeyTypeMismatch"}, {"ErrWeakKey"},
                     {"ErrInvalidSignature"}}
         /\ err \in {{"ErrMalformedKey"}, {"ErrWeakKey"}} => BrokenKey(key, tok.alg)
         /\ BrokenKey(key, tok.alg) /\ err # {} =>
              err \in {{"ErrKeyUsage"}, {"ErrMalformedKey"}, {"ErrWeakKey"}}
<1>1. requireUnambiguousKeyAlgorithm(key, withoutNone(A)) \in {{}, {"ErrKeyUsage"}}
  BY DEF requireUnambiguousKeyAlgorithm
<1>2. Verify(key, tok.alg, tok) \in {{}, {"ErrInvalidSignature"}}
  BY DEF Verify
<1>3. verifierForAlg(key, tok.alg) \in
        {{}, {"ErrKeyUsage"}, {"ErrUnsupportedAlgorithm"}, {"ErrAlgorithmNotAllowed"},
         {"ErrMalformedKey"}, {"ErrKeyTypeMismatch"}, {"ErrWeakKey"}}
  BY DEF verifierForAlg
<1>4. BrokenKey(key, tok.alg) =>
        verifierForAlg(key, tok.alg) \in {{"ErrMalformedKey"}, {"ErrWeakKey"}}
  BY DEF verifierForAlg, BrokenKey
<1>5. verifierForAlg(key, tok.alg) \in {{"ErrMalformedKey"}, {"ErrWeakKey"}} =>
        BrokenKey(key, tok.alg)
  <2>1. \A a \in DOMAIN Family : Family[a].grade \in Nat
    BY DEF Family
  <2> QED BY <2>1 DEF verifierForAlg, BrokenKey, MaxRSA
<1> QED BY <1>1, <1>2, <1>3, <1>4, <1>5 DEF keyError

-----------------------------------------------------------------------------
(* The inductive invariant                                                 *)

\* What was verified about a token under the key (or the verifier) that answered for it.
Vetted(tok, key) ==
  IF cfg.verifiers
  THEN \E alg \in DOMAIN Family :
         /\ key.kty = Family[alg].kty
         /\ sameAlgorithm(alg, tok.alg)
         /\ Verify(key, alg, tok) = {}
  ELSE keyError(key, tok, cfg.algs) = {}

\* The error wraps a sentinel that is about tokens.
BlamesToken(err) == err \cap (tokenErrors \cup {"ErrMalformedToken"}) # {}

\* An answer whose status fits what the request failed for.
Attributed(q) ==
  \/ q.cause \in {"token", "verifier"} /\ q.status \in {400, 401}
  \/ q.cause = "unavailable" /\ q.status = 503
  \/ q.cause \in {"config", "key"} /\ q.status = 500
  \/ q.cause = "backend" /\ BlamesToken(q.err) /\ q.status \in {400, 401}
  \/ q.cause = "backend" /\ ~BlamesToken(q.err) /\ q.status = 500

\* What a request knows about its token in each of its steps.
RequestInv(r) ==
  /\ req[r].pc \in {"lookup", "validate", "served"} =>
       req[r].tok \in Tokens /\ precheck(req[r].tok, cfg) = {}
  /\ req[r].pc \in {"validate", "served"} =>
       req[r].key \in KeyPool /\ Vetted(req[r].tok, req[r].key)
  /\ req[r].pc = "served" =>
       req[r].at \in Int /\ validateClaims(req[r].tok, cfg, req[r].at) = {}
  /\ req[r].pc = "answered" => Attributed(req[r])

\* A use is of a key that serves that algorithm and was unambiguous under the allowlist.
UsesInv ==
  ~cfg.verifiers =>
    \A u \in uses :
      \E a \in withoutNone(cfg.algs) :
        /\ u[2] = identity(a)
        /\ verifierForAlg(u[1], a) = {}
        /\ requireUnambiguousKeyAlgorithm(u[1], withoutNone(cfg.algs)) = {}

TypeInv ==
  /\ scene \in DOMAIN Scenes
  /\ cfg \in Scenes[scene].configs
  /\ clock \in Int
  /\ provider \in [Kids -> KeyPool \cup {NoKey}]
  /\ DOMAIN req = Requests

Inv == TypeInv /\ (\A r \in Requests : RequestInv(r)) /\ UsesInv

-----------------------------------------------------------------------------
(* The invariant holds                                                     *)

\* The step of one request, which leaves everything else alone.
Moves(r, q) == req' = [req EXCEPT ![r] = q] /\ UNCHANGED <<fixed, clock, provider, uses>>

\* A step that gives one request a state in which it knows enough, and leaves keys, options
\* and uses alone, keeps the invariant.
LEMMA RequestStep ==
  ASSUME Inv, NEW r \in Requests, NEW q, Moves(r, q), RequestInv(r)'
  PROVE  Inv'
<1> USE DEF Moves
<1>1. TypeInv'
  BY DEF Inv, TypeInv, fixed, Kids, KeyPool
<1>2. \A s \in Requests : RequestInv(s)'
  <2> SUFFICES ASSUME NEW s \in Requests, s # r PROVE RequestInv(s)'
    OBVIOUS
  <2>1. req'[s] = req[s] /\ RequestInv(s)
    BY DEF Inv, TypeInv
  <2> QED BY <2>1 DEF RequestInv, Vetted, Tokens, KeyPool, fixed
<1>3. UsesInv'
  BY DEF Inv, UsesInv, fixed
<1> QED BY <1>1, <1>2, <1>3 DEF Inv

\* An answer whose status fits its cause is all that is known of a request that was answered.
LEMMA AnsweredInv ==
  ASSUME Inv, NEW r \in Requests, NEW q, Moves(r, q), q.pc = "answered", Attributed(q)
  PROVE  Inv'
<1>1. req'[r] = q
  BY DEF Inv, TypeInv, Moves
<1>2. RequestInv(r)'
  BY <1>1 DEF RequestInv
<1> QED BY <1>2, RequestStep

\* The key that is found is one the provider may hold.
LEMMA LookupType ==
  ASSUME TypeInv, NEW kid
  PROVE  Lookup(kid) \in KeyPool \cup {NoKey}
<1> DEFINE held == {k \in Kids : provider[k] # NoKey}
<1>1. \A k \in held : provider[k] \in KeyPool
  BY DEF TypeInv
<1>2. CASE kid # ""
  BY <1>1, <1>2 DEF Lookup
<1>3. CASE kid = ""
  <2>1. IsFiniteSet(held)
    <3>1. IsFiniteSet(Kids)
      BY MiddlewareAssumption DEF TypeInv, Kids
    <3> QED BY <3>1, FS_Subset
  <2>2. CASE Cardinality(held) = 1
    <3>1. \E k : held = {k}
      BY <2>1, <2>2, FS_Singleton
    <3>2. (CHOOSE k \in held : TRUE) \in held
      BY <3>1
    <3> QED BY <1>1, <1>3, <2>2, <3>2 DEF Lookup
  <2> QED BY <1>3, <2>2 DEF Lookup
<1> QED BY <1>2, <1>3

\* Init establishes the invariant.
LEMMA InitInv == Init => Inv
<1> SUFFICES ASSUME Init PROVE Inv
  OBVIOUS
<1>1. TypeInv
  BY DEF Init, TypeInv
<1>2. ASSUME NEW r \in Requests PROVE RequestInv(r)
  BY DEF Init, RequestInv, NoReq
<1>3. UsesInv
  BY DEF Init, UsesInv
<1> QED BY <1>1, <1>2, <1>3 DEF Inv

\* A request without a bearer token is answered with 401.
LEMMA NoBearerInv == ASSUME Inv, NEW r \in Requests, NoBearer(r) PROVE Inv'
<1> DEFINE q == [pc |-> "answered", err |-> {}, cause |-> "token", status |-> classifyAuthError({})]
<1>1. q.pc = "answered" /\ Attributed(q)
  BY DEF classifyAuthError, Attributed
<1>2. Moves(r, q)
  BY DEF NoBearer, Moves
<1> HIDE DEF q
<1> QED BY <1>1, <1>2, AnsweredInv

\* A token is prechecked when it arrives.
LEMMA ArriveInv == ASSUME Inv, NEW r \in Requests, NEW tok \in Tokens, Arrive(r, tok) PROVE Inv'
<1> DEFINE err == precheck(tok, cfg)
           q == IF err = {} THEN [pc |-> "lookup", tok |-> tok]
                ELSE Answered(tok, err, IF err = {"ErrNoAllowedAlgorithms"} THEN "config" ELSE "token")
<1>1. Moves(r, q)
  BY DEF Arrive, Moves
<1>2. CASE err = {}
  <2>1. req'[r] = [pc |-> "lookup", tok |-> tok]
    BY <1>1, <1>2 DEF Inv, TypeInv, Moves
  <2>2. RequestInv(r)'
    BY <1>1, <1>2, <2>1 DEF RequestInv, Tokens, fixed, Moves
  <2> HIDE DEF q
  <2> QED BY <1>1, <2>2, RequestStep
<1>3. CASE err # {}
  <2>1. q = Answered(tok, err, IF err = {"ErrNoAllowedAlgorithms"} THEN "config" ELSE "token")
    BY <1>3
  <2>2. err \in {{"ErrNoAllowedAlgorithms"}, {"ErrMalformedToken"},
                 {"ErrUnsupportedCritical"}, {"ErrAlgorithmNotAllowed"}}
    BY <1>3, PrecheckErrors
  <2>3. /\ classifyAuthError({"ErrNoAllowedAlgorithms"}) = 500
        /\ classifyAuthError({"ErrMalformedToken"}) = 400
        /\ classifyAuthError({"ErrUnsupportedCritical"}) = 401
        /\ classifyAuthError({"ErrAlgorithmNotAllowed"}) = 401
    BY DEF classifyAuthError, tokenErrors
  <2>4. q.pc = "answered" /\ Attributed(q)
    <3> HIDE DEF err
    <3>1. CASE err = {"ErrNoAllowedAlgorithms"}
      BY <2>1, <2>3, <3>1 DEF Answered, Attributed
    <3>2. CASE err # {"ErrNoAllowedAlgorithms"}
      <4>1. classifyAuthError(err) \in {400, 401}
        BY <2>2, <2>3, <3>2
      <4> HIDE DEF q
      <4> QED BY <2>1, <3>2, <4>1 DEF Answered, Attributed
    <3> QED BY <3>1, <3>2
  <2> HIDE DEF q
  <2> QED BY <1>1, <2>4, AnsweredInv
<1> QED BY <1>2, <1>3

\* The key that is found serves the token, or the client is told why not.
LEMMA LookupKeyInv == ASSUME Inv, NEW r \in Requests, LookupKey(r) PROVE Inv'
<1> DEFINE tok == req[r].tok
           key == Lookup(tok.kid)
           err == keyError(key, tok, cfg.algs)
           blamed == IF BrokenKey(key, tok.alg) /\ err # {"ErrKeyUsage"} THEN "key" ELSE "token"
<1>1. ~cfg.verifiers /\ req[r].pc = "lookup"
  BY DEF LookupKey
<1>2. CASE key = NoKey
  <2> DEFINE q == Answered(tok, {"ErrKeyNotFound"}, "token")
  <2>1. Moves(r, q)
    BY <1>2 DEF LookupKey, Moves
  <2>2. q.pc = "answered" /\ Attributed(q)
    BY DEF Attributed, Answered, classifyAuthError, tokenErrors
  <2> HIDE DEF q
  <2> QED BY <2>1, <2>2, AnsweredInv
<1>3. CASE key # NoKey /\ err # {}
  <2> DEFINE q == Answered(tok, err, blamed)
  <2>1. Moves(r, q)
    BY <1>3 DEF LookupKey, Moves
  <2>2. q.pc = "answered" /\ Attributed(q)
    <3>1. /\ classifyAuthError({"ErrMalformedKey"}) = 500
          /\ classifyAuthError({"ErrWeakKey"}) = 500
          /\ classifyAuthError({"ErrKeyUsage"}) = 401
          /\ classifyAuthError({"ErrUnsupportedAlgorithm"}) = 401
          /\ classifyAuthError({"ErrAlgorithmNotAllowed"}) = 401
          /\ classifyAuthError({"ErrKeyTypeMismatch"}) = 401
          /\ classifyAuthError({"ErrInvalidSignature"}) = 401
      BY DEF classifyAuthError, tokenErrors
    <3>2. \/ BrokenKey(key, tok.alg) /\ err \in {{"ErrMalformedKey"}, {"ErrWeakKey"}}
          \/ BrokenKey(key, tok.alg) /\ err = {"ErrKeyUsage"}
          \/ ~BrokenKey(key, tok.alg) /\ err \in {{"ErrKeyUsage"}, {"ErrUnsupportedAlgorithm"},
               {"ErrAlgorithmNotAllowed"}, {"ErrKeyTypeMismatch"}, {"ErrInvalidSignature"}}
      BY <1>3, KeyErrors
    <3>3. {"ErrMalformedKey"} # {"ErrKeyUsage"} /\ {"ErrWeakKey"} # {"ErrKeyUsage"}
      OBVIOUS
    <3> HIDE DEF err, key, tok
    <3> QED BY <3>1, <3>2, <3>3 DEF Answered, Attributed
  <2> HIDE DEF q
  <2> QED BY <2>1, <2>2, AnsweredInv
<1>4. CASE key # NoKey /\ err = {}
  <2>1. Moves(r, Verified(tok, key))
    BY <1>4 DEF LookupKey, Moves
  <2>2. req'[r] = [pc |-> "validate", tok |-> tok, key |-> key]
    BY <2>1 DEF Inv, TypeInv, Verified, Moves
  <2>3. key \in KeyPool
    BY <1>4, LookupType DEF Inv
  <2>4. tok \in Tokens /\ precheck(tok, cfg) = {}
    BY <1>1 DEF Inv, RequestInv
  <2>5. RequestInv(r)'
    <3> HIDE DEF key, tok
    <3> QED BY <1>1, <1>4, <2>1, <2>2, <2>3, <2>4 DEF RequestInv, Vetted, Tokens, KeyPool, fixed, Moves
  <2> QED BY <2>1, <2>5, RequestStep
<1> QED BY <1>2, <1>3, <1>4

\* The verifier that answers is for this token, or the client is told why not.
LEMMA LookupVerifierInv == ASSUME Inv, NEW r \in Requests, LookupVerifier(r) PROVE Inv'
<1> DEFINE tok == req[r].tok
<1>1. cfg.verifiers /\ req[r].pc = "lookup"
  BY DEF LookupVerifier
<1>2. CASE Moves(r, Answered(tok, {"ErrKeyNotFound"}, "token"))
  <2> DEFINE q == Answered(tok, {"ErrKeyNotFound"}, "token")
  <2>1. q.pc = "answered" /\ Attributed(q)
    BY DEF Attributed, Answered, classifyAuthError, tokenErrors
  <2> HIDE DEF q
  <2> QED BY <1>2, <2>1, AnsweredInv DEF q
<1>3. ASSUME NEW k \in KeyPool, NEW alg \in DOMAIN Family, NEW kid \in Kids,
             k.kty = Family[alg].kty,
             LET err == verifierError([alg |-> alg, kid |-> kid, key |-> k], tok) IN
             Moves(r, IF err # {} THEN Answered(tok, err, "token") ELSE Verified(tok, k))
      PROVE  Inv'
  <2> DEFINE v == [alg |-> alg, kid |-> kid, key |-> k]
             err == verifierError(v, tok)
  <2>1. CASE err # {}
    <3> DEFINE q == Answered(tok, err, "token")
    <3>1. err \in {{"ErrKeyUsage"}, {"ErrInvalidSignature"}}
      BY <2>1 DEF verifierError, Verify
    <3>2. classifyAuthError({"ErrKeyUsage"}) = 401 /\ classifyAuthError({"ErrInvalidSignature"}) = 401
      BY DEF classifyAuthError, tokenErrors
    <3>3. classifyAuthError(err) = 401
      <4> HIDE DEF err
      <4> QED BY <3>1, <3>2
    <3>4. q.pc = "answered" /\ Attributed(q)
      <4> HIDE DEF err, tok
      <4> QED BY <3>3 DEF Attributed, Answered
    <3>5. Moves(r, q)
      BY <1>3, <2>1
    <3> HIDE DEF q
    <3> QED BY <3>4, <3>5, AnsweredInv
  <2>2. CASE err = {}
    <3>1. Moves(r, Verified(tok, k))
      BY <1>3, <2>2
    <3>2. req'[r] = [pc |-> "validate", tok |-> tok, key |-> k]
      BY <3>1 DEF Inv, TypeInv, Verified, Moves
    <3>3. sameAlgorithm(alg, tok.alg) /\ Verify(k, alg, tok) = {}
      BY <2>2 DEF verifierError
    <3>4. tok \in Tokens /\ precheck(tok, cfg) = {}
      BY <1>1 DEF Inv, RequestInv
    <3>5. RequestInv(r)'
      <4> HIDE DEF tok
      <4>1. Vetted(tok, k)
        BY <1>1, <1>3, <3>3 DEF Vetted
      <4>2. UNCHANGED <<scene, cfg>>
        BY <3>1 DEF Moves, fixed
      <4> QED BY <3>2, <3>4, <4>1, <4>2 DEF RequestInv, Vetted, Tokens, KeyPool
    <3> QED BY <3>1, <3>5, RequestStep
  <2> QED BY <2>1, <2>2
<1>4. ASSUME NEW failure \in Failures,
             Moves(r, Answered(tok, {"ErrInvalidSignature"} \cup failure.err,
                               IF failure.cause = "unavailable" THEN "unavailable" ELSE "verifier"))
      PROVE  Inv'
  <2> DEFINE err == {"ErrInvalidSignature"} \cup failure.err
             q == Answered(tok, err, IF failure.cause = "unavailable" THEN "unavailable" ELSE "verifier")
  <2>1. CASE failure.cause = "unavailable" /\ failure.err \cap Unavailable # {}
    <3>1. classifyAuthError(err) = 503
      BY <2>1 DEF classifyAuthError, Unavailable
    <3>2. q.pc = "answered" /\ Attributed(q)
      <4> HIDE DEF err, tok
      <4> QED BY <2>1, <3>1 DEF Answered, Attributed
    <3> HIDE DEF q
    <3> QED BY <1>4, <3>2, AnsweredInv DEF q
  <2>2. CASE failure.cause = "backend" /\ failure.err \cap Unavailable = {}
    <3>1. classifyAuthError(err) \in {400, 401}
      BY <2>2 DEF classifyAuthError, Unavailable, tokenErrors
    <3>2. q.pc = "answered" /\ Attributed(q)
      <4> HIDE DEF err, tok
      <4> QED BY <2>2, <3>1 DEF Answered, Attributed
    <3> HIDE DEF q
    <3> QED BY <1>4, <3>2, AnsweredInv DEF q
  <2> QED BY <2>1, <2>2, MiddlewareAssumption
<1> QED BY <1>2, <1>3, <1>4 DEF LookupVerifier, Moves

\* A provider that fails is blamed on the token only if its own error does so.
LEMMA LookupFailsInv == ASSUME Inv, NEW r \in Requests, LookupFails(r) PROVE Inv'
<1> DEFINE provides == IF cfg.verifiers THEN "ErrVerifierProvider" ELSE "ErrKeyProvider"
<1>1. PICK failure \in Failures :
        Moves(r, Answered(req[r].tok, failure.err \cup {provides}, failure.cause))
  BY DEF LookupFails, Moves
<1> DEFINE err == failure.err \cup {provides}
           q == Answered(req[r].tok, err, failure.cause)
<1>2. q.pc = "answered" /\ Attributed(q)
  <2>1. provides \notin Unavailable \cup tokenErrors \cup {"ErrMalformedToken"}
    BY DEF Unavailable, tokenErrors
  <2>2. CASE failure.cause = "unavailable" /\ failure.err \cap Unavailable # {}
    <3>1. classifyAuthError(err) = 503
      BY <2>2 DEF classifyAuthError, Unavailable
    <3> HIDE DEF err
    <3> QED BY <2>2, <3>1 DEF Answered, Attributed
  <2>3. CASE failure.cause = "backend" /\ failure.err \cap Unavailable = {}
    <3>1. classifyAuthError(err) \in IF BlamesToken(err) THEN {400, 401} ELSE {500}
      <4> HIDE DEF provides
      <4> QED BY <2>1, <2>3 DEF classifyAuthError, Unavailable, BlamesToken
    <3>2. q.err = err /\ q.cause = "backend" /\ q.status = classifyAuthError(err) /\ q.pc = "answered"
      BY <2>3 DEF Answered
    <3> HIDE DEF err, q
    <3> QED BY <3>1, <3>2 DEF Attributed
  <2> QED BY <2>2, <2>3, MiddlewareAssumption
<1> HIDE DEF q
<1> QED BY <1>1, <1>2, AnsweredInv DEF q

\* A key that passed is used for one algorithm, which the allowlist has.
LEMMA VettedUse ==
  ASSUME NEW tok, NEW key, ~cfg.verifiers, precheck(tok, cfg) = {}, Vetted(tok, key)
  PROVE  /\ tok.alg \in withoutNone(cfg.algs)
         /\ verifierForAlg(key, tok.alg) = {}
         /\ requireUnambiguousKeyAlgorithm(key, withoutNone(cfg.algs)) = {}
         /\ Verify(key, tok.alg, tok) = {}
<1>1. keyError(key, tok, cfg.algs) = {}
  BY DEF Vetted
<1> QED BY <1>1, PrecheckPassed, KeyPassed

\* The handler runs for a token whose payload and claims pass.
LEMMA ValidateInv == ASSUME Inv, NEW r \in Requests, Validate(r) PROVE Inv'
<1> DEFINE tok == req[r].tok
           err == IF "payload" \in tok.defects THEN {"ErrMalformedToken"}
                  ELSE validateClaims(tok, cfg, Now)
<1>1. /\ tok \in Tokens /\ precheck(tok, cfg) = {}
      /\ req[r].key \in KeyPool /\ Vetted(tok, req[r].key)
  BY DEF Validate, Inv, RequestInv
<1>2. CASE err # {}
  <2> DEFINE q == Answered(tok, err, "token")
  <2>1. Moves(r, q)
    BY <1>2 DEF Validate, Moves
  <2>2. err \in {{"ErrMalformedToken"}, {"ErrExpired"}, {"ErrNotYetValid"}, {"ErrIssuerMismatch"},
                 {"ErrAudienceMismatch"}, {"ErrTypeMismatch"}, {"ErrMissingClaim"}}
    BY <1>2, ClaimErrors
  <2>3. classifyAuthError(err) \in {400, 401}
    <3>1. /\ classifyAuthError({"ErrMalformedToken"}) = 400
          /\ classifyAuthError({"ErrExpired"}) = 401
          /\ classifyAuthError({"ErrNotYetValid"}) = 401
          /\ classifyAuthError({"ErrIssuerMismatch"}) = 401
          /\ classifyAuthError({"ErrAudienceMismatch"}) = 401
          /\ classifyAuthError({"ErrTypeMismatch"}) = 401
          /\ classifyAuthError({"ErrMissingClaim"}) = 401
      BY DEF classifyAuthError, tokenErrors
    <3> HIDE DEF err
    <3> QED BY <2>2, <3>1
  <2>4. q.pc = "answered" /\ Attributed(q)
    <3> HIDE DEF err, tok
    <3> QED BY <2>3 DEF Answered, Attributed
  <2> HIDE DEF q
  <2> QED BY <2>1, <2>4, AnsweredInv
<1>3. CASE err = {}
  <2> DEFINE q == [pc |-> "served", tok |-> tok, key |-> req[r].key, at |-> clock]
  <2>1. /\ req' = [req EXCEPT ![r] = q]
        /\ uses' = IF cfg.verifiers THEN uses ELSE uses \cup {<<req[r].key, identity(tok.alg)>>}
        /\ UNCHANGED <<scene, cfg, clock, provider>>
    BY <1>3 DEF Validate, fixed
  <2>2. TypeInv'
    BY <2>1 DEF Inv, TypeInv, Kids, KeyPool
  <2>3. validateClaims(tok, cfg, clock) = {}
    BY <1>3 DEF Now
  <2>4. ASSUME NEW s \in Requests PROVE RequestInv(s)'
    <3>1. CASE s = r
      <4>1. req'[s] = q /\ clock \in Int
        BY <2>1, <3>1 DEF Inv, TypeInv
      <4> HIDE DEF tok
      <4> QED BY <1>1, <2>1, <2>3, <4>1 DEF RequestInv, Vetted, Tokens, KeyPool
    <3>2. CASE s # r
      <4>1. req'[s] = req[s] /\ RequestInv(s)
        BY <2>1, <3>2 DEF Inv, TypeInv
      <4> QED BY <2>1, <4>1 DEF RequestInv, Vetted, Tokens, KeyPool
    <3> QED BY <3>1, <3>2
  <2>5. UsesInv'
    <3> SUFFICES ASSUME ~cfg.verifiers, NEW u \in uses'
                 PROVE  \E a \in withoutNone(cfg.algs) :
                          /\ u[2] = identity(a)
                          /\ verifierForAlg(u[1], a) = {}
                          /\ requireUnambiguousKeyAlgorithm(u[1], withoutNone(cfg.algs)) = {}
      BY <2>1 DEF UsesInv
    <3>1. CASE u \in uses
      BY <3>1 DEF Inv, UsesInv
    <3>2. CASE u = <<req[r].key, identity(tok.alg)>>
      <4> HIDE DEF tok
      <4> QED BY <1>1, <3>2, VettedUse
    <3> QED BY <2>1, <3>1, <3>2
  <2> QED BY <2>2, <2>4, <2>5 DEF Inv
<1> QED BY <1>2, <1>3

\* A request that is over knows nothing.
LEMMA FinishInv == ASSUME Inv, NEW r \in Requests, Finish(r) PROVE Inv'
<1>1. Moves(r, NoReq)
  BY DEF Finish, Moves
<1>2. req'[r] = NoReq
  BY <1>1 DEF Inv, TypeInv, Moves
<1>3. RequestInv(r)'
  BY <1>2 DEF RequestInv, NoReq
<1> QED BY <1>1, <1>3, RequestStep

\* Whatever the provider holds and however late it is, what was checked stays checked.
LEMMA BackgroundInv ==
  ASSUME Inv, UNCHANGED <<scene, cfg, req, uses>>, clock' \in Int,
         provider' \in [Kids -> KeyPool \cup {NoKey}]
  PROVE  Inv'
<1>1. TypeInv'
  BY DEF Inv, TypeInv, Kids, KeyPool
<1>2. ASSUME NEW s \in Requests PROVE RequestInv(s)'
  BY DEF Inv, RequestInv, Vetted, Tokens, KeyPool
<1>3. UsesInv'
  BY DEF Inv, UsesInv
<1> QED BY <1>1, <1>2, <1>3 DEF Inv

\* Every step keeps the invariant.
LEMMA NextInv == ASSUME Inv, [Next]_vars PROVE Inv'
<1>1. CASE UNCHANGED vars
  BY <1>1, BackgroundInv DEF vars, fixed, Inv, TypeInv
<1>2. ASSUME NEW r \in Requests, NoBearer(r) PROVE Inv'
  BY <1>2, NoBearerInv
<1>3. ASSUME NEW r \in Requests, NEW tok \in Tokens, Arrive(r, tok) PROVE Inv'
  BY <1>3, ArriveInv
<1>4. ASSUME NEW r \in Requests, LookupKey(r) PROVE Inv'
  BY <1>4, LookupKeyInv
<1>5. ASSUME NEW r \in Requests, LookupVerifier(r) PROVE Inv'
  BY <1>5, LookupVerifierInv
<1>6. ASSUME NEW r \in Requests, LookupFails(r) PROVE Inv'
  BY <1>6, LookupFailsInv
<1>7. ASSUME NEW r \in Requests, Validate(r) PROVE Inv'
  BY <1>7, ValidateInv
<1>8. ASSUME NEW r \in Requests, Finish(r) PROVE Inv'
  BY <1>8, FinishInv
<1>9. ASSUME NEW kid \in Kids, NEW key \in KeyPool \cup {NoKey}, ChangeKey(kid, key) PROVE Inv'
  BY <1>9, BackgroundInv DEF ChangeKey, fixed, Inv, TypeInv
<1>10. CASE Tick
  BY <1>10, BackgroundInv DEF Tick, fixed, Inv, TypeInv
<1> QED BY <1>1, <1>2, <1>3, <1>4, <1>5, <1>6, <1>7, <1>8, <1>9, <1>10 DEF Next

\* The invariant holds in every reachable state.
THEOREM InvHolds == Spec => []Inv
BY InitInv, NextInv, PTL DEF Spec

-----------------------------------------------------------------------------
(* What follows from it                                                    *)

\* The handler runs only for a token that the holder of a key of the right type signed, under
\* the algorithm of its header, which is allowed, and that is meant for this recipient: what
\* Parse promises, for every set of keys, tokens and options (httpauth.go, jwt.go).
THEOREM ServedIsSound == Spec => []ServedSound
<1>1. Inv => ServedSound
  <2> SUFFICES ASSUME Inv, NEW r \in Served
               PROVE  LET tok == req[r].tok
                          key == req[r].key
                      IN /\ Authentic(tok)
                         /\ tok.alg \in cfg.algs \ {"", "none", "NONE"}
                         /\ sameAlgorithm(tok.alg, tok.scheme)
                         /\ ~cfg.verifiers => /\ key.use # "enc"
                                              /\ key.ops = {} \/ "verify" \in key.ops
                         /\ cfg.audience # "" => cfg.audience \in tok.aud
                         /\ cfg.audience = "" /\ ~cfg.skipAudience => tok.aud = NilAudience
    BY DEF ServedSound
  <2> DEFINE tok == req[r].tok
             key == req[r].key
  <2>1. r \in Requests /\ req[r].pc = "served"
    BY DEF Served
  <2>2. /\ tok \in Tokens /\ precheck(tok, cfg) = {}
        /\ key \in KeyPool /\ Vetted(tok, key)
        /\ req[r].at \in Int /\ validateClaims(tok, cfg, req[r].at) = {}
    BY <2>1 DEF Inv, RequestInv
  <2>3. tok.alg \in cfg.algs \ {"", "none", "NONE"}
    BY <2>2, PrecheckPassed DEF withoutNone
  <2>4. PICK alg \in DOMAIN Family : /\ key.kty = Family[alg].kty
                                     /\ sameAlgorithm(alg, tok.alg)
                                     /\ Verify(key, alg, tok) = {}
    <3> HIDE DEF tok, key
    <3>1. CASE cfg.verifiers
      BY <2>2, <3>1 DEF Vetted
    <3>2. CASE ~cfg.verifiers
      BY <2>2, <3>2, VettedUse, VerifierForAlgPassed DEF sameAlgorithm
    <3> QED BY <3>1, <3>2
  <2>5. tok.signer = key.id /\ sameAlgorithm(tok.scheme, alg)
    BY <2>4 DEF Verify
  <2>6. Authentic(tok)
    <3>1. Family[tok.scheme].kty = Family[alg].kty
      BY <2>5, SameFamily DEF sameAlgorithm
    <3> QED BY <2>2, <2>4, <2>5, <3>1 DEF Authentic
  <2>7. sameAlgorithm(tok.alg, tok.scheme)
    BY <2>4, <2>5 DEF sameAlgorithm
  <2>8. ASSUME ~cfg.verifiers PROVE key.use # "enc" /\ (key.ops = {} \/ "verify" \in key.ops)
    <3>1. permitsVerify(key, tok.alg)
      <4> HIDE DEF tok, key
      <4> QED BY <2>2, <2>8, VettedUse, VerifierForAlgPassed
    <3> QED BY <3>1 DEF permitsVerify
  <2>9. audienceOK(tok.aud, cfg)
    <3>1. cfg.leeway \in Nat /\ {tok.exp, tok.nbf} \subseteq Int
      BY <2>2, MiddlewareAssumption DEF Inv, TypeInv, Tokens
    <3> HIDE DEF tok
    <3> QED BY <2>2, <3>1, ClaimsPassed
  <2> QED BY <2>3, <2>6, <2>7, <2>8, <2>9 DEF audienceOK
<1> QED BY <1>1, InvHolds, PTL

\* No token is served outside its time, up to the leeway, however long lookup and
\* verification took and whatever changed meanwhile (the clock is read after them).
THEOREM ServedIsFresh == Spec => []ServedFresh
<1>1. Inv => ServedFresh
  <2> SUFFICES ASSUME Inv, NEW r \in Served
               PROVE  /\ req[r].tok.exp # None => req[r].at < req[r].tok.exp + cfg.leeway
                      /\ req[r].tok.nbf # None => req[r].at + cfg.leeway >= req[r].tok.nbf
    BY DEF ServedFresh
  <2>1. /\ req[r].tok \in Tokens
        /\ req[r].at \in Int
        /\ validateClaims(req[r].tok, cfg, req[r].at) = {}
    BY DEF Inv, RequestInv, Served
  <2>2. cfg.leeway \in Nat /\ {req[r].tok.exp, req[r].tok.nbf} \subseteq Int
    BY <2>1, MiddlewareAssumption DEF Inv, TypeInv, Tokens
  <2> QED BY <2>1, <2>2, ClaimsPassed
<1> QED BY <1>1, InvHolds, PTL

\* Over any number of requests and key changes, one stored key verifies tokens of one
\* algorithm only (requireUnambiguousKeyAlgorithm of key.go).
THEOREM OneAlgorithmPerKey == Spec => []OneKeyOneAlgorithm
<1>1. Inv => OneKeyOneAlgorithm
  <2> SUFFICES ASSUME Inv, ~cfg.verifiers, NEW u \in uses, NEW v \in uses, u[1] = v[1]
               PROVE  u[2] = v[2]
    BY DEF OneKeyOneAlgorithm
  <2> DEFINE A == withoutNone(cfg.algs)
  <2>1. IsFiniteSet(A)
    <3>1. IsFiniteSet(cfg.algs)
      BY MiddlewareAssumption DEF Inv, TypeInv
    <3> QED BY <3>1, FS_Subset DEF withoutNone
  <2>2. PICK a \in A : /\ u[2] = identity(a)
                       /\ verifierForAlg(u[1], a) = {}
                       /\ requireUnambiguousKeyAlgorithm(u[1], A) = {}
    BY DEF Inv, UsesInv
  <2>3. PICK b \in A : v[2] = identity(b) /\ verifierForAlg(v[1], b) = {}
    BY DEF Inv, UsesInv
  <2> HIDE DEF A
  <2> QED BY <2>1, <2>2, <2>3, Unambiguous
<1> QED BY <1>1, InvHolds, PTL

\* No provider is asked, and so nothing is fetched, for a token that the checks before the
\* lookup refuse (parseVerified of jwt.go).
THEOREM ProvidersShielded == Spec => []ProviderShielded
<1>1. Inv => ProviderShielded
  <2> SUFFICES ASSUME Inv, NEW r \in Requests, req[r].pc = "lookup"
               PROVE  /\ req[r].tok.defects \subseteq {"payload"}
                      /\ ~req[r].tok.crit
                      /\ req[r].tok.alg \in cfg.algs
    BY DEF ProviderShielded
  <2>1. req[r].tok \in Tokens /\ precheck(req[r].tok, cfg) = {}
    BY DEF Inv, RequestInv
  <2>2. req[r].tok.defects \subseteq Defects
    BY <2>1, MiddlewareAssumption DEF Inv, TypeInv, Tokens
  <2> QED BY <2>1, <2>2, PrecheckPassed DEF withoutNone, Defects
<1> QED BY <1>1, InvHolds, PTL

\* The status of every answer names who is to blame: the client for its token, nobody for a
\* fetch that failed or a context that ended, the server for the rest (WriteChallenge), but
\* for a backend whose own error is about tokens and a verifier that fails by itself.
THEOREM FaultsAttributed == Spec => []FaultAttributed
<1>1. Inv => FaultAttributed
  <2> SUFFICES ASSUME Inv, NEW r \in Requests, req[r].pc = "answered"
               PROVE  CASE req[r].cause \in {"token", "verifier"} -> req[r].status \in {400, 401}
                        [] req[r].cause = "unavailable" -> req[r].status = 503
                        [] req[r].cause = "backend" ->
                             IF BlamesToken(req[r].err)
                             THEN req[r].status \in {400, 401} ELSE req[r].status = 500
                        [] OTHER -> req[r].status = 500
    BY DEF FaultAttributed, BlamesToken
  <2>1. Attributed(req[r])
    BY DEF Inv, RequestInv
  <2> QED BY <2>1 DEF Attributed
<1> QED BY <1>1, InvHolds, PTL
=============================================================================
