------------------------------ MODULE MCSigning ------------------------------
(* Instances of Signing for TLC, which evaluates a definition like AllCMWs *)
(* once, and one that a cfg gives to a constant again at every use.        *)
EXTENDS Signing, TLC

MCMinDate == -4

With(set) == [form |-> "With", set |-> set]
Struct(set) == [form |-> "struct", set |-> set]
Plain == [use |-> "", key_ops |-> <<>>, alg |-> ""]

Blob(format, kty, grade, priv, pub, defect) ==
  [format |-> format, kty |-> kty, grade |-> grade, priv |-> priv, pub |-> pub, defect |-> defect]
EdSeed == Blob("seed", "OKP", 1, "ed", "none", "")

KeyBlobs ==
  {EdSeed, Blob("seed", "OKP", 0, "ed", "none", "length"),
   Blob("PKCS8", "X25519", 1, "x", "x", ""), Blob("PKCS8", "OKP", 1, "ed", "none", ""),
   Blob("PKCS8", "EC", 256, "ec", "point", ""), Blob("SEC1", "EC", 384, "ec3", "point", ""),
   Blob("SEC1", "RSA", 2, "rsa", "rsa", ""),
   Blob("secret", "oct", 16, "s16", "s16", ""), Blob("secret", "oct", 32, "s32", "s32", ""),
   Blob("secret", "oct", 48, "s48", "s48", ""), Blob("SEC1", "EC", 521, "ec5", "point", ""),
   Blob("secret", "oct", 64, "s64", "s64", "")}
    \cup {Blob("PKCS1", "RSA", 2, "rsa", p, d) : p \in {"rsa", "other"}, d \in {"", "der"}}
    \cup {Blob("expanded", "OKP", 1, "ed", p, d) : p \in {"ed", "other"}, d \in {"", "length"}}
    \cup {Blob("OpenSSH", "OKP", 1, "ed", p, d) :
            p \in {"ed", "other"},
            d \in {"", "magic", "truncated", "encrypted", "count", "check", "length"}}
    \cup {Blob("OpenSSH", "EC", 256, "ec", p, d) :
            p \in {"ec", "other"}, d \in {"", "curve", "point"}}
    \cup {Blob("OpenSSH", "DSA", 1, "dsa", "dsa", "")}
    \cup {Blob("struct", "RSA", g, "big", p, "") : g \in {0, 1, 2, 8, 9}, p \in {"big", "other"}}
    \cup {Blob("struct", "EC", g, "ec", p, "") : g \in {0, 256}, p \in {"ec", "other"}}
    \cup {Blob("struct", "OKP", 0, "ed", "ed", "")}
KeyMetas ==
  {Plain, [Plain EXCEPT !.use = "sig", !.key_ops = <<"verify">>], [Plain EXCEPT !.use = "enc"],
   [Plain EXCEPT !.alg = "ES256"], [Plain EXCEPT !.alg = "EdDSA"],
   [Plain EXCEPT !.key_ops = <<"sign">>], [Plain EXCEPT !.key_ops = <<"verify", "verify">>],
   [Plain EXCEPT !.key_ops = <<"verify", "encrypt">>], [Plain EXCEPT !.key_ops = <<"verify", "unwrapKey">>],
   [Plain EXCEPT !.use = "enc", !.key_ops = <<"decrypt", "deriveBits">>],
   [Plain EXCEPT !.key_ops = <<"verify", "custom">>],
   [Plain EXCEPT !.use = "sig", !.key_ops = <<"verify", "deriveKey">>]}
AnyAlg == {"HS256", "HS384", "HS512", "PS256", "PS512", "ES256", "ES384", "ES512", "Ed25519"}

PlainClaims == [type |-> "RegisteredClaims", claims |-> [ZeroClaims EXCEPT !.iss = "us"]]

\* One signer and one key, known from the start, for the scenes about claims.
Base == [blobs |-> {EdSeed}, algs |-> {"Ed25519"}, kids |-> {"k1"}, metas |-> {Plain},
         custom |-> {}, claims |-> {PlainClaims}, values |-> {}, cmws |-> {}, signOpts |-> {<<>>},
         parseOpts |-> {<<With([algs |-> {"Ed25519"}])>>}, type |-> "RegisteredClaims",
         maxSent |-> 1, start |-> 0, maxTime |-> 0]

\* Every encoding of a key, with every algorithm.
ImportScene == [Base EXCEPT !.blobs = KeyBlobs, !.algs = AnyAlg \cup {"RS256"},
                            !.parseOpts = {<<With([algs |-> AnyAlg])>>}]

\* Every way to publish one, and signers of the application's own.
PublishScene == [Base EXCEPT
  !.blobs = {EdSeed, Blob("PKCS8", "EC", 256, "ec", "point", ""), Blob("secret", "oct", 64, "s64", "s64", "")},
  !.algs = {"HS256", "ES256"}, !.kids = {"", "k1"}, !.metas = KeyMetas,
  !.custom = {[alg |-> a, kid |-> "k1", fails |-> f, by |-> "ed"] : a \in {"none", "Ed25519"}, f \in BOOLEAN},
  !.parseOpts = {<<With([algs |-> AnyAlg])>>, <<With([algs |-> {"ES256", "EdDSA"}])>>}]

DateClaims ==
  {[PlainClaims EXCEPT !.claims.exp = e, !.claims.nbf = n] :
     e \in {NoDate, -3, -1, 0, 1, 5, 7, MaxDate * Second + 1, MaxDate * Second + 2},
     n \in {NoDate, -7, -1, 0, 1, MinDate * Second}}
DateValues == {Obj([exp |-> Null]), Obj([exp |-> Str("soon")]), Obj([nbf |-> Num(1, MaxDate + 1, 0)])}
DateScene == [Base EXCEPT
  !.claims = DateClaims, !.values = DateValues,
  !.parseOpts = {<<With([algs |-> {"Ed25519"}, leeway |-> l])>> : l \in 0..1},
  !.start = -4, !.maxTime = 8]

Complete == [ZeroClaims EXCEPT !.iss = "us", !.sub = "alice", !.jti = "t1", !.client_id = "app",
                               !.exp = 2, !.iat = 0, !.aud = <<"api">>]
PolicyClaims ==
  {[type |-> "AccessTokenClaims", claims |-> c] :
     c \in {Complete} \cup {[Complete EXCEPT ![f] = ZeroClaims[f]] : f \in {"aud", "client_id", "exp", "sub"}}
           \cup {[Complete EXCEPT !.aud = a] : a \in {<<>>, <<"">>, <<":x">>, <<"web", "api">>}}
           \cup {[Complete EXCEPT !.iss = "them"], [Complete EXCEPT !.sub = ":x"]}}
PolicyScene == [Base EXCEPT
  !.claims = PolicyClaims, !.type = "AccessTokenClaims",
  !.signOpts = {<<>>, <<With([typ |-> [top |-> "", sub |-> "at+jwt"]])>>},
  !.parseOpts =
    LET algs == Struct([algs |-> {"Ed25519", "none"}])
        issuers == {Struct([issuer |-> i]) : i \in {"", "us"}} \cup {With([issuer |-> ""])}
        rest == {With([audience |-> "api"]), Struct([skipAudience |-> TRUE, required |-> {"sub"}]),
                 With([required |-> {"client_id"}]), With([type |-> [top |-> "application", sub |-> "at+jwt"]])}
    IN {<<algs>>, <<With([issuer |-> "us"])>>}
         \cup {<<i, algs, j, r>> : i \in issuers, j \in issuers, r \in rest}]

\* CMWs, valid and not, and documents that are read as CMWs.
MCBase64 == ("" :> "") @@ ("b" :> "Yg") @@ ("c" :> "Yw")
Record == RecordCMW("m/t", "b", NoIndicator)
Nest(c) == CollectionCMW("", [a |-> c])
Nested == {NoCMW, Record, RecordCMW("m/t", "", 1), RecordCMW("bad", "b", 1), RecordCMW("m/t", "b", MaxIndicator),
           [Record EXCEPT !.Collection = Nest(Record).Collection],
           CollectionCMW("", <<>>), CollectionCMW("urn:x", [a |-> Record, b |-> RecordCMW("m/t", "c", 0)]),
           CollectionCMW("plain", [a |-> Record]), CollectionCMW("", [exp |-> Record]),
           CollectionCMW("", [aud |-> Record]), CollectionCMW("", ("__cmwc_t" :> Record)),
           Nest(Record), Nest(Nest(Record)), Nest(Nest(Nest(Record))), Nest(RecordCMW("m/t", "", 1))}
Mixed == {RecordCMW("m/t", "b", 0), RecordCMW("m/t", "", NoIndicator), RecordCMW("bad", "b", 0),
          CollectionCMW("", [cmw |-> Record])}
AllCMWs ==
  {c : c \in Nested \cup Mixed
                \cup UNION {{c.Collection.Members[l] : l \in DOMAIN c.Collection.Members} : c \in Nested}}
MCCMWs == AllCMWs

\* Two tokens whose segments and contents could be mixed.
MixClaims ==
  {[type |-> "CMWClaims", claims |-> c] :
     c \in {[ZeroClaims EXCEPT !.iss = "us"], [ZeroClaims EXCEPT !.sub = "alice", !.exp = 4],
            [ZeroClaims EXCEPT !.cmw = RecordCMW("m/t", "b", 0)],
            [ZeroClaims EXCEPT !.cmw = RecordCMW("m/t", "", NoIndicator)],
            [ZeroClaims EXCEPT !.cmw = RecordCMW("bad", "b", 0)]}}
MixValues == {Obj([iss |-> Num(1, 1, 0)]), Obj([sub |-> Null, iss |-> Str("value")]), Arr(<<>>)}
MixScene == [Base EXCEPT
  !.claims = MixClaims, !.values = MixValues,
  !.cmws = {CollectionCMW("", [cmw |-> RecordCMW("m/t", "b", NoIndicator)])},
  !.signOpts = {<<>>, <<Struct([typ |-> NoType, cty |-> CMWContentType])>>},
  !.parseOpts = {<<With([algs |-> {"Ed25519"}])>>, <<Struct([algs |-> {"Ed25519"}, required |-> {"iss"}])>>},
  !.type = "CMWClaims", !.maxSent = 2]

CMWMember == [PlainClaims EXCEPT !.type = "CMWClaims", !.claims.iss = "", !.claims.cmw = Record]
CMWValues ==
  LET json == <<Str("m/t"), Encode("b")>> IN
  {Obj([a |-> j]) : j \in {Arr(json), Arr(json \o <<Null>>), Arr(json \o <<Num(-1, 1, 0)>>),
                           Arr(<<Null, Encode("b")>>), Str("m/t")}}
    \cup {Obj([a |-> Arr(json)] @@ ("__cmwc_t" :> Str("")))}
CMWScene == [Base EXCEPT
  !.claims = {CMWMember}, !.values = CMWValues, !.cmws = Nested,
  !.signOpts = {<<>>, <<With([typ |-> DefaultType])>>,
                <<With([cty |-> [top |-> "", sub |-> "cmw+json"]])>>, <<Struct([cty |-> CMWContentType])>>},
  !.parseOpts = {<<With([algs |-> {"Ed25519"}])>>, <<Struct([algs |-> {"Ed25519"}, required |-> {"exp"}])>>,
                 <<Struct([algs |-> {"Ed25519"}, skipAudience |-> TRUE, required |-> {"aud"}])>>},
  !.type = "CMWClaims"]

\* Every payload that can be signed, and what it consists of.
Signed ==
  LET claims == {PlainClaims, CMWMember} \cup DateClaims \cup PolicyClaims \cup MixClaims IN
  {Marshal(c.type, c.claims) : c \in {d \in claims : CanMarshal(d.type, d.claims)}}
    \cup {marshal(c) : c \in {d \in AllCMWs : Validate(d)}}
    \cup DateValues \cup MixValues \cup CMWValues
Parts[n \in 0..4] ==
  IF n = 0 THEN Signed
  ELSE UNION {{j} \cup (IF Is("obj", j) THEN {j.obj[l] : l \in DOMAIN j.obj}
                        ELSE IF Is("arr", j) THEN {j.arr[i] : i \in DOMAIN j.arr} ELSE {}) :
              j \in Parts[n-1]}
AllDocuments == Parts[4]
MCDocuments == AllDocuments

AllScenes == [import |-> ImportScene, publish |-> PublishScene, dates |-> DateScene,
             policy |-> PolicyScene, mix |-> MixScene, cmw |-> CMWScene]
MCScenes == AllScenes
=============================================================================
