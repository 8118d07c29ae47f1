---------------------------- MODULE MCMiddleware ----------------------------
(* Instances of Middleware for TLC.                                        *)
EXTENDS Middleware

PlainToken == [defects |-> {}, crit |-> FALSE, alg |-> "RS256", kid |-> "k1",
               typ |-> [top |-> "", sub |-> "JWT"], signer |-> "rsa", scheme |-> "RS256",
               exp |-> None, nbf |-> None, iss |-> "issuer", aud |-> NilAudience,
               present |-> {"sub"}]
PlainKey == [id |-> "rsa", kty |-> "RSA", alg |-> "", use |-> "", ops |-> {}, grade |-> 2]
PlainConfig == [algs |-> {"RS256"}, verifiers |-> FALSE, issuer |-> "", audience |-> "",
                skipAudience |-> FALSE, type |-> NoType, required |-> {}, leeway |-> 0]

AllFailures == {[err |-> {"ErrKeyFetch"}, cause |-> "unavailable"],
                [err |-> {"Canceled"}, cause |-> "unavailable"],
                [err |-> {"DeadlineExceeded"}, cause |-> "unavailable"],
                [err |-> {"backend"}, cause |-> "backend"],
                [err |-> {"backend", "ErrExpired"}, cause |-> "backend"],
                [err |-> {"ErrMalformedToken"}, cause |-> "backend"]}

\* Tokens, keys and allowlists of every kind, with plain claims.
KeyTokens ==
  {[PlainToken EXCEPT !.alg = a, !.kid = k, !.signer = m, !.scheme = s] :
     a \in {"HS256", "HS512", "RS256", "PS256", "EdDSA", "none"}, k \in {"", "k1"},
     m \in {"rsa", "secret", "ed"}, s \in {"HS256", "RS256", "PS256", "Ed25519"}}
GoodKeys ==
  {[PlainKey EXCEPT !.alg = a] : a \in {"", "RS256"}}
    \cup {[PlainKey EXCEPT !.use = "enc"], [PlainKey EXCEPT !.ops = {"sign"}]}
    \cup {[PlainKey EXCEPT !.grade = g] : g \in {0, 1, 9}}
    \cup {[PlainKey EXCEPT !.id = "secret", !.kty = "oct", !.grade = g] : g \in {0, 32, 64}}
    \cup {[PlainKey EXCEPT !.id = "ed", !.kty = "OKP", !.grade = 1, !.alg = a] : a \in {"", "EdDSA"}}
KeyConfigs ==
  {[PlainConfig EXCEPT !.algs = a] :
     a \in {{"none"}, {"HS256"}, {"RS256", "PS256"}, {"HS256", "RS256"},
            {"HS256", "HS512", "Ed25519", "EdDSA"}}}
    \cup {[PlainConfig EXCEPT !.verifiers = TRUE, !.algs = {"RS256", "EdDSA"}]}

\* Claims of every kind, one good key.
ClaimTokens ==
  {[PlainToken EXCEPT !.exp = e, !.nbf = n, !.aud = a] :
     e \in {None, 2, 3}, n \in {None, 2, 4}, a \in {NilAudience, {}, {"us"}, {"them"}}}
    \cup {[PlainToken EXCEPT !.typ = t, !.present = p, !.iss = i] :
            t \in {NoType, [top |-> "", sub |-> "jwt"], [top |-> "application", sub |-> "JWT"],
                   [top |-> "text", sub |-> "jwt"]},
            p \in {{}, {"sub"}}, i \in {"", "issuer"}}
    \cup {[PlainToken EXCEPT !.defects = d, !.crit = c] :
            d \in {{"oversize"}, {"segments"}, {"header"}, {"payload64"}, {"sig64"}, {"payload"}},
            c \in BOOLEAN}
    \cup {[PlainToken EXCEPT !.kid = ""], [PlainToken EXCEPT !.kid = "k2"]}
ClaimConfigs ==
  {[PlainConfig EXCEPT !.audience = a, !.skipAudience = s, !.leeway = l] :
     a \in {"", "us"}, s \in BOOLEAN, l \in 0..1}
    \cup {[PlainConfig EXCEPT !.type = PlainToken.typ, !.required = {"sub"}, !.issuer = "issuer"]}

MCScenes ==
  [keys |-> [configs |-> KeyConfigs, tokens |-> KeyTokens, kids |-> {"k1"},
             keys |-> GoodKeys, maxTime |-> 1],
   claims |-> [configs |-> ClaimConfigs, tokens |-> ClaimTokens, kids |-> {"k1", "k2"},
               keys |-> {PlainKey}, maxTime |-> 4]]
=============================================================================
