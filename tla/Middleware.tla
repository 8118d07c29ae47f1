----------------------------- MODULE Middleware -----------------------------
(***************************************************************************)
(* Middleware of httpauth.go: requests are parsed, look up their key (or   *)
(* their verifier), are verified and have their claims checked, while the  *)
(* key provider changes and time passes.  A step of a request is the code  *)
(* between two points where it may wait: the lookup, which may take as     *)
(* long as a fetch, and the verification, after which the clock is read.   *)
(* The checks themselves are in Parse.tla.                                 *)
(***************************************************************************)
EXTENDS Parse

CONSTANTS Requests,     \* slots for requests being served
          Scenes,       \* name -> [configs, tokens, kids, keys, maxTime]
          Failures      \* failures of a provider: [err, cause]

NoKey == [id |-> "none"]

Defects == {"oversize", "segments", "header", "payload64", "sig64", "payload"}
Unavailable == {"ErrKeyFetch", "DeadlineExceeded", "Canceled"}

\* A failure is one of availability when its error says so, by naming a failed fetch or
\* an ended context; any other error, whatever it wraps, is a backend failure.
ASSUME MiddlewareAssumption ==
  /\ \A s \in DOMAIN Scenes :
       /\ NoKey \notin Scenes[s].keys
       /\ "" \notin Scenes[s].kids /\ IsFiniteSet(Scenes[s].kids)
       /\ \A c \in Scenes[s].configs : IsFiniteSet(c.algs) /\ c.leeway \in Nat
       /\ \A t \in Scenes[s].tokens : t.defects \subseteq Defects /\ {t.exp, t.nbf} \subseteq Int
  /\ \A f \in Failures :
       \/ f.cause = "unavailable" /\ f.err \cap Unavailable # {}
       \/ f.cause = "backend" /\ f.err \cap Unavailable = {}

VARIABLES scene,     \* which clients, keys and options this behaviour is about
          cfg,       \* parseConfig, fixed when Middleware is called
          clock,     \* cfg.now()
          provider,  \* kid -> the key the provider holds
          req,       \* the requests in progress
          uses       \* (ghost) the stored keys that verified served tokens, and the algorithm

fixed == <<scene, cfg>>
vars == <<fixed, clock, provider, req, uses>>

Tokens == Scenes[scene].tokens    \* the tokens clients present
Kids == Scenes[scene].kids        \* non-empty key identifiers
KeyPool == Scenes[scene].keys     \* the keys the provider may hold
MaxTime == Scenes[scene].maxTime  \* bound: the clock stops here

NoReq == [pc |-> "idle"]

Init ==
  /\ scene \in DOMAIN Scenes
  /\ cfg \in Scenes[scene].configs
  /\ clock = 1
  /\ provider \in [Kids -> KeyPool \cup {NoKey}]
  /\ req = [r \in Requests |-> NoReq]
  /\ uses = {}

\* WriteChallenge; cause is a ghost: what the request really failed for.
Answered(tok, err, cause) ==
  [pc |-> "answered", tok |-> tok, err |-> err, cause |-> cause,
   status |-> classifyAuthError(err)]

\* No single well-formed Authorization: Bearer header.
NoBearer(r) ==
  /\ req[r].pc = "idle"
  /\ req' = [req EXCEPT ![r] = [pc |-> "answered", err |-> {}, cause |-> "token",
                                status |-> classifyAuthError({})]]
  /\ UNCHANGED <<fixed, clock, provider, uses>>

Arrive(r, tok) ==
  /\ req[r].pc = "idle"
  /\ LET err == precheck(tok, cfg) IN
     req' = [req EXCEPT ![r] =
               IF err = {} THEN [pc |-> "lookup", tok |-> tok]
               ELSE Answered(tok, err, IF err = {"ErrNoAllowedAlgorithms"}
                                       THEN "config" ELSE "token")]
  /\ UNCHANGED <<fixed, clock, provider, uses>>

\* KeySet.lookup: the empty kid resolves to a sole key.
Lookup(kid) ==
  LET held == {k \in Kids : provider[k] # NoKey} IN
  IF kid # "" THEN IF kid \in held THEN provider[kid] ELSE NoKey
  ELSE IF Cardinality(held) = 1 THEN provider[CHOOSE k \in held : TRUE] ELSE NoKey

\* (ghost) The stored key is of the right kind and use but its material is unusable.
\* An oct key without bytes is not among them: verifierForAlg reports it as a key
\* that does not fit the algorithm, so the client is told that its token is bad.
BrokenKey(key, alg) ==
  /\ permitsVerify(key, alg)
  /\ alg \in DOMAIN Family
  /\ key.kty = Family[alg].kty
  /\ \/ key.grade = 0 /\ key.kty # "oct"
     \/ key.grade # 0 /\ key.kty # "EC" /\ key.grade < Family[alg].grade
     \/ key.kty = "RSA" /\ key.grade > MaxRSA

Verified(tok, key) == [pc |-> "validate", tok |-> tok, key |-> key]

LookupKey(r) ==
  /\ req[r].pc = "lookup"
  /\ ~cfg.verifiers
  /\ LET tok == req[r].tok
         key == Lookup(tok.kid)
         err == keyError(key, tok, cfg.algs)
     IN
     req' = [req EXCEPT ![r] =
                  IF key = NoKey THEN Answered(tok, {"ErrKeyNotFound"}, "token")
                  ELSE IF err # {}
                  THEN Answered(tok, err, IF BrokenKey(key, tok.alg) /\ err # {"ErrKeyUsage"}
                                          THEN "key" ELSE "token")
                  ELSE Verified(tok, key)]
  /\ UNCHANGED <<fixed, clock, provider, uses>>

\* lookupVerifier and Verify: a caller-defined verifier must answer for the
\* algorithm and the kid of the token.
verifierError(v, tok) ==
  IF ~sameAlgorithm(v.alg, tok.alg) THEN {"ErrKeyUsage"}
  ELSE IF tok.kid # "" /\ v.kid # tok.kid THEN {"ErrKeyUsage"}
  ELSE Verify(v.key, v.alg, tok)

\* The provider of verifiers may return any verifier that fits its own key, or
\* none; which token it was asked about is for lookupVerifier to check.
LookupVerifier(r) ==
  /\ req[r].pc = "lookup"
  /\ cfg.verifiers
  /\ LET tok == req[r].tok IN
     \/ req' = [req EXCEPT ![r] = Answered(tok, {"ErrKeyNotFound"}, "token")]
     \/ \E k \in KeyPool, alg \in DOMAIN Family, kid \in Kids :
          LET v == [alg |-> alg, kid |-> kid, key |-> k]
              err == verifierError(v, tok)
          IN /\ k.kty = Family[alg].kty
             /\ req' = [req EXCEPT ![r] = IF err # {} THEN Answered(tok, err, "token")
                                          ELSE Verified(tok, k)]
     \/ \E failure \in Failures :   \* the verifier itself fails
          req' = [req EXCEPT ![r] = Answered(tok, {"ErrInvalidSignature"} \cup failure.err,
                                             IF failure.cause = "unavailable"
                                             THEN "unavailable" ELSE "verifier")]
  /\ UNCHANGED <<fixed, clock, provider, uses>>

\* Either provider fails, or the request's context ends while it waits.
LookupFails(r) ==
  /\ req[r].pc = "lookup"
  /\ \E failure \in Failures :
       LET err == failure.err \cup {IF cfg.verifiers THEN "ErrVerifierProvider"
                                    ELSE "ErrKeyProvider"}
       IN req' = [req EXCEPT ![r] = Answered(req[r].tok, err, failure.cause)]
  /\ UNCHANGED <<fixed, clock, provider, uses>>

\* Mutant: expiry is checked against the time at which the middleware was built.
Now_Stale == 1

\* The time validateClaims asks the clock for.
Now == clock

\* The payload must be a JSON object; then the claims; then the handler runs.
Validate(r) ==
  /\ req[r].pc = "validate"
  /\ LET tok == req[r].tok
         err == IF "payload" \in tok.defects THEN {"ErrMalformedToken"}
                ELSE validateClaims(tok, cfg, Now)
     IN IF err # {}
        THEN /\ req' = [req EXCEPT ![r] = Answered(tok, err, "token")]
             /\ UNCHANGED uses
        ELSE /\ req' = [req EXCEPT ![r] = [pc |-> "served", tok |-> tok, key |-> req[r].key,
                                           at |-> clock]]
             /\ uses' = IF cfg.verifiers THEN uses
                        ELSE uses \cup {<<req[r].key, identity(tok.alg)>>}
  /\ UNCHANGED <<fixed, clock, provider>>

Finish(r) ==
  /\ req[r].pc \in {"served", "answered"}
  /\ req' = [req EXCEPT ![r] = NoReq]
  /\ UNCHANGED <<fixed, clock, provider, uses>>

\* The application or the issuer replaces, adds or withdraws a key.
ChangeKey(kid, key) ==
  /\ key # provider[kid]
  /\ provider' = [provider EXCEPT ![kid] = key]
  /\ UNCHANGED <<fixed, clock, req, uses>>

Tick ==
  /\ clock < MaxTime
  /\ clock' = clock + 1
  /\ UNCHANGED <<fixed, provider, req, uses>>

Next ==
  \/ \E r \in Requests :
       \/ NoBearer(r)
       \/ \E tok \in Tokens : Arrive(r, tok)
       \/ LookupKey(r)
       \/ LookupVerifier(r)
       \/ LookupFails(r)
       \/ Validate(r)
       \/ Finish(r)
  \/ \E kid \in Kids, key \in KeyPool \cup {NoKey} : ChangeKey(kid, key)
  \/ Tick

Spec == Init /\ [][Next]_vars

-----------------------------------------------------------------------------
(* Properties                                                              *)

Served == {r \in Requests : req[r].pc = "served"}

\* A signature that only the holder of a secret or private key can make: the
\* scheme is one for that kind of key.
Authentic(tok) ==
  \E k \in KeyPool : k.id = tok.signer /\ k.kty = Family[tok.scheme].kty

\* The handler runs only for a token whose issuer signed it with the algorithm
\* its header names, allowed by the configuration, and with a key whose own
\* members permit it.  In particular no public key ever serves as a MAC secret,
\* whatever keys and algorithms the provider and the allowlist mix.  The token is meant
\* for this recipient: with an audience configured it names it, and without one a token
\* that names any audience is refused unless the check was switched off.
ServedSound ==
  \A r \in Served :
    LET tok == req[r].tok
        key == req[r].key
    IN /\ Authentic(tok)
       /\ tok.alg \in cfg.algs \ {"", "none", "NONE"}
       /\ sameAlgorithm(tok.alg, tok.scheme)
       /\ ~cfg.verifiers => /\ key.use # "enc"
                            /\ key.ops = {} \/ "verify" \in key.ops
       /\ cfg.audience # "" => cfg.audience \in tok.aud
       /\ cfg.audience = "" /\ ~cfg.skipAudience => tok.aud = NilAudience

\* When the handler starts, the token has not expired and is already valid, up
\* to the leeway, however long the lookup and the verification took.
ServedFresh ==
  \A r \in Served :
    /\ req[r].tok.exp # None => req[r].at < req[r].tok.exp + cfg.leeway
    /\ req[r].tok.nbf # None => req[r].at + cfg.leeway >= req[r].tok.nbf

\* One stored key verifies tokens of one algorithm only, over all requests: a key
\* that does not name its algorithm is not used when the allowlist leaves a choice.
OneKeyOneAlgorithm ==
  ~cfg.verifiers => \A u, v \in uses : u[1] = v[1] => u[2] = v[2]

\* No provider is asked on behalf of a token that is malformed, has critical
\* extensions or an algorithm that is not allowed.
ProviderShielded ==
  \A r \in Requests :
    req[r].pc = "lookup" =>
      /\ req[r].tok.defects \subseteq {"payload"}
      /\ ~req[r].tok.crit
      /\ req[r].tok.alg \in cfg.algs

\* A client is told that its token is bad when the token is to blame; a failed fetch or a
\* cancelled request gives 503, whatever else its error wraps; a wrong configuration, a
\* broken stored key (but see BrokenKey) or a failing backend gives 500.  There are two ways
\* for a client to be told that its token is bad when it is not: the error of a provider's
\* backend wraps a sentinel that is about tokens (classifyAuthError finds it anywhere in the
\* chain, where the documentation of WriteChallenge has 500 for every "KeyProvider backend
\* failure"), and a Verifier of the application fails for reasons of its own, which Parse
\* reports as a signature that did not verify ("every verification rejection is
\* ErrInvalidSignature").
FaultAttributed ==
  \A r \in Requests :
    req[r].pc = "answered" =>
      CASE req[r].cause \in {"token", "verifier"} -> req[r].status \in {400, 401}
        [] req[r].cause = "unavailable" -> req[r].status = 503
        [] req[r].cause = "backend" ->
             IF req[r].err \cap (tokenErrors \cup {"ErrMalformedToken"}) # {}
             THEN req[r].status \in {400, 401} ELSE req[r].status = 500
        [] OTHER -> req[r].status = 500
=============================================================================
