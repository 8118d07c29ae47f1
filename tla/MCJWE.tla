-------------------------------- MODULE MCJWE --------------------------------
(* Instances of JWE for TLC.                                               *)
EXTENDS JWE

Key(id, kind, len) == [id |-> id, kind |-> kind, len |-> len]
DirKey == Key("shared", "dir", 16)
KwKey == Key("kek", "kw", 32)
EcKey == Key("ec", "ec", 0)
RsaKey == Key("rsa", "rsa", 2048)

Enc(alg, enc, kid, key) == [alg |-> alg, enc |-> enc, kid |-> kid, key |-> key]
SomeEncrypters == {Enc("dir", "A128GCM", "", DirKey), Enc("A256KW", "A256GCM", "k1", KwKey),
                   Enc("ECDH-ES", "A128GCM", "", EcKey), Enc("ECDH-ES+A256KW", "A128GCM", "", EcKey),
                   Enc("RSA-OAEP-256", "A128GCM", "k2", RsaKey)}
Dec(kid, key, custom) == [kid |-> kid, key |-> key, custom |-> custom]
SomeDecrypters == {Dec("", DirKey, FALSE), Dec("k1", KwKey, FALSE), Dec("", EcKey, TRUE),
                   Dec("k2", RsaKey, FALSE)}

PlainClaims == [defects |-> {}, exp |-> 2, nbf |-> None, iss |-> "", aud |-> {"us"},
                present |-> {}, typ |-> NoType, large |-> FALSE]
SomeClaims == {PlainClaims, [PlainClaims EXCEPT !.aud = {"them"}, !.exp = None],
               [PlainClaims EXCEPT !.defects = {"payload"}]}

PlainToken == [defects |-> {}, exp |-> 2, nbf |-> None, iss |-> "", aud |-> {"us"},
               present |-> {}, typ |-> NoType, large |-> FALSE, crit |-> FALSE,
               alg |-> "RS256", kid |-> "", signer |-> "signer", scheme |-> "RS256"]
SomeTokens == {[PlainToken EXCEPT !.aud = {"inner"}], PlainToken,
               [PlainToken EXCEPT !.aud = {"inner"}, !.signer = "other"],
               [PlainToken EXCEPT !.defects = {"payload"}, !.large = TRUE]}
SomePlaintexts == {t \in SomeTokens : t.defects # {} \/ (t.aud = {"inner"} /\ t.signer = "signer")}
SomeOptions == {[typ |-> JWT, cty |-> NoType]}

SignKey == [id |-> "signer", kty |-> "RSA", alg |-> "RS256", use |-> "", ops |-> {}, grade |-> 2]
SomeKeyring == [k \in {"s1"} |-> SignKey]

Config == [algs |-> {}, keyAlgs |-> {}, encs |-> {}, issuer |-> "", audience |-> "us",
           skipAudience |-> FALSE, type |-> NoType, required |-> {}, leeway |-> 0]
Inner == [Config EXCEPT !.algs = {"RS256"}, !.audience = "inner"]
AllAlgs == {"dir", "A256KW", "RSA-OAEP-256", "ECDH-ES", "ECDH-ES+A256KW"}
SomePolicies ==
  {[jws |-> Inner, jwe |-> c] :
     c \in {[Config EXCEPT !.keyAlgs = AllAlgs, !.encs = {"A128GCM", "A256GCM"}],
            [Config EXCEPT !.keyAlgs = {"dir", "A256KW", "none"}, !.encs = {"A128GCM"},
                     !.type = [top |-> "", sub |-> "at+jwt"]]}}
=============================================================================
