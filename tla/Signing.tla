------------------------------- MODULE Signing -------------------------------
(***************************************************************************)
(* An issuer that signs claims (Sign, jwt.go) and CMWs (SignCMW, cmw.go)   *)
(* with one signer after another, and a consumer that holds the key last   *)
(* published and reads what arrives into one destination (Parse,           *)
(* ParseInsecure, ParseSignedCMW, ValidateAccessTokenClaims).  The parts   *)
(* of the tokens sent may arrive in any combination.                       *)
(*                                                                         *)
(* A token is its three segments [hdr, payload, sig]; the signature names  *)
(* what it was made with and over which header and payload.                *)
(***************************************************************************)
EXTENDS Keys, Claims

CONSTANTS Scenes   \* name -> what the behaviour is about, see MCSigning

\* A claims struct, an option about the header, one about the checks, an encoded key and
\* what the application says of a key, as the Go types have them.
ClaimsType(c) ==
  c \in [iss : STRING, sub : STRING, jti : STRING, client_id : STRING, exp : Int, nbf : Int,
         iat : Int, aud : Seq(STRING), cmw : CMWs \cup {NoCMW}]
SignOptionType(o) == \A f \in DOMAIN o.set : o.set[f] \in [top : STRING, sub : STRING]
ParseOptionType(o) ==
  /\ "leeway" \in DOMAIN o.set => o.set.leeway \in Int
  /\ "audience" \in DOMAIN o.set => o.set.audience # NilAud[1]
BlobType(b) ==
  /\ b.format \in {"PKCS8", "PKCS1", "SEC1", "seed", "expanded", "OpenSSH", "secret", "struct"}
  /\ b.format \in {"seed", "expanded"} => b.kty = "OKP"
  /\ b.format = "secret" => b.kty = "oct" /\ b.priv = b.pub
  /\ b.format = "struct" => b.kty \in {"RSA", "EC", "OKP"}
  /\ b.grade \in Nat /\ {"nobody", "neither"} \cap {b.priv, b.pub} = {}
Listed(opts) == Len(opts) \in Nat /\ DOMAIN opts = 1..Len(opts)

ASSUME SceneAssumption ==
  \A s \in DOMAIN Scenes :
    /\ \A b \in Scenes[s].blobs : BlobType(b)
    /\ \A meta \in Scenes[s].metas : meta.key_ops \in Seq(STRING)
    /\ \A c \in Scenes[s].claims : c.type \in DOMAIN Fields /\ ClaimsType(c.claims)
    /\ Scenes[s].values \subseteq Documents
    /\ \A opts \in Scenes[s].signOpts :
         Listed(opts) /\ \A i \in DOMAIN opts : SignOptionType(opts[i])
    /\ \A opts \in Scenes[s].parseOpts :
         Listed(opts) /\ \A i \in DOMAIN opts : ParseOptionType(opts[i])
    /\ Scenes[s].type \in DOMAIN Fields
    /\ Scenes[s].start \in Int

NoSigner == [alg |-> "", kid |-> "", fails |-> FALSE, by |-> "nobody"]
NoKey == [kty |-> "none", id |-> "nobody"]
NoCall == [op |-> "none"]

VARIABLES scene,    \* the inputs of this behaviour
          private,  \* the private key of the signer, or BadKey
          signer,   \* the issuer's Signer, or NoSigner
          key,      \* the key of the consumer's StaticKeyProvider, or NoKey
          sent,     \* the tokens signed: [tok, kind, src], src what was signed
          now,      \* time, in ticks
          dst,      \* the consumer's claims
          accepted, \* (ghost) payload of the last token a call stored in dst, or Null
          last      \* the consumer's last call and its outcome, until anything else happens

vars == <<scene, private, signer, key, sent, now, dst, accepted, last>>
S == Scenes[scene]

Init ==
  /\ scene \in DOMAIN Scenes
  /\ private = BadKey /\ signer = NoSigner /\ key = NoKey
  /\ sent = {}
  /\ now = S.start
  /\ dst = ZeroClaims
  /\ accepted = Null
  /\ last = NoCall

-----------------------------------------------------------------------------
(* Options.  An option is a function With... or a struct; set has the      *)
(* fields it names.                                                        *)

zeroSign == [typ |-> NoType, cty |-> NoType]
DefaultType == [top |-> "", sub |-> "JWT"]
CMWContentType == [top |-> "application", sub |-> "cmw+json"]
zeroConfig == [algs |-> {}, required |-> {}, issuer |-> "", audience |-> "",
               skipAudience |-> FALSE, type |-> NoType, leeway |-> 0]

\* A zero field of a struct leaves the setting alone; a function always sets it.
Names(o, f, zero) == f \in DOMAIN o.set /\ (o.form = "struct" => o.set[f] # zero[f])

applySign(c, o) == [f \in DOMAIN c |-> IF Names(o, f, zeroSign) THEN o.set[f] ELSE c[f]]

\* Mutant: every field of a struct is taken over, the zero ones too.
applyParse_ZeroClears(c, o) ==
  [f \in DOMAIN c |->
     IF f \in {"algs", "required"} THEN c[f] \cup IF f \in DOMAIN o.set THEN o.set[f] ELSE {}
     ELSE IF o.form = "struct" /\ f \notin DOMAIN o.set THEN zeroConfig[f]
     ELSE IF f \in DOMAIN o.set THEN o.set[f] ELSE c[f]]

\* The lists are merged.
applyParse(c, o) ==
  [f \in DOMAIN c |->
     IF ~Names(o, f, zeroConfig) THEN c[f]
     ELSE IF f \in {"algs", "required"} THEN c[f] \cup o.set[f]
     ELSE o.set[f]]

\* Options apply one after another, to a configuration that starts as c.
SignConfigured(c, opts) ==
  LET after[n \in 0..Len(opts)] == IF n = 0 THEN c ELSE applySign(after[n-1], opts[n])
  IN after[Len(opts)]
Configured(opts) ==
  LET after[n \in 0..Len(opts)] == IF n = 0 THEN zeroConfig ELSE applyParse(after[n-1], opts[n])
  IN after[Len(opts)]

-----------------------------------------------------------------------------
(* The issuer                                                              *)

NewSigner(b, alg, kid) ==
  LET k == parsePrivateKey(b) IN
  /\ k # BadKey
  /\ signerError(alg, k) = {}
  /\ private' = k
  /\ signer' = signerFor(alg, k, kid)
  /\ last' = NoCall
  /\ UNCHANGED <<scene, key, sent, now, dst, accepted>>

\* A Signer of the application's own.
CustomSigner(s) ==
  /\ signer' = s
  /\ private' = BadKey
  /\ last' = NoCall
  /\ UNCHANGED <<scene, key, sent, now, dst, accepted>>

\* The JWK of the signer reaches the consumer: fetched, or handed over in the process
\* when the key is symmetric.  The application may set "use", "key_ops" and "alg".
Publish(kid, meta) ==
  LET k == [FromPublicKey(private, kid) EXCEPT !.use = meta.use, !.key_ops = meta.key_ops,
                                               !.alg = meta.alg]
  IN /\ private # BadKey
     /\ k.kty = "oct" \/ CanServe(k)
     /\ key' = asKey(k)
     /\ last' = NoCall
     /\ UNCHANGED <<scene, private, signer, sent, now, dst, accepted>>

\* The signer is there, is not for "none", and does not fail.
MaySign == signer # NoSigner /\ withoutNone({signer.alg}) # {} /\ ~signer.fails

Signature(hdr, payload) ==
  [by |-> signer.by, scheme |-> signer.alg, hdr |-> hdr, payload |-> payload]

Emit(kind, src, hdr, payload) ==
  /\ Cardinality(sent) < S.maxSent
  /\ sent' = sent \cup {[kind |-> kind, src |-> src,
                         tok |-> [hdr |-> hdr, payload |-> payload,
                                  sig |-> Signature(hdr, payload)]]}
  /\ last' = NoCall
  /\ UNCHANGED <<scene, private, signer, key, now, dst, accepted>>

Header(cfg) == [alg |-> signer.alg, kid |-> signer.kid, typ |-> cfg.typ, cty |-> cfg.cty]

\* Sign of a claims struct.
SignStruct(type, c, opts) ==
  LET cfg == SignConfigured([zeroSign EXCEPT !.typ = DefaultType], opts) IN
  /\ MaySign
  /\ CanMarshal(type, c)
  /\ Emit("claims", [type |-> type, claims |-> c], Header(cfg), Marshal(type, c))

\* Sign of any other value that encodes as this JSON.
SignValue(j, opts) ==
  LET cfg == SignConfigured([zeroSign EXCEPT !.typ = DefaultType], opts) IN
  /\ MaySign
  /\ IsObject(j)
  /\ Emit("value", j, Header(cfg), j)

SignCMW(c, opts) ==
  LET cfg == SignConfigured(zeroSign, opts) IN
  /\ Validate(c)
  /\ MaySign
  /\ Emit("cmw", c, Header([cfg EXCEPT !.cty = CMWContentType]), marshal(c))

Tick ==
  /\ now < S.maxTime
  /\ now' = now + 1
  /\ last' = NoCall
  /\ UNCHANGED <<scene, private, signer, key, sent, dst, accepted>>

-----------------------------------------------------------------------------
(* The consumer                                                            *)

\* Parse.tla keeps 0 for a claim that is not there.
Shifted(t) == IF t = NoDate THEN None ELSE t - NoDate

present(payload) == {f \in DOMAIN payload.obj : ~Is("null", payload.obj[f])}

\* The token as Parse.tla has it, before its payload is decoded.
asToken(t) ==
  [defects |-> {}, crit |-> FALSE, alg |-> t.hdr.alg, kid |-> t.hdr.kid, typ |-> t.hdr.typ,
   signer |-> IF t.sig.hdr = t.hdr /\ t.sig.payload = t.payload THEN t.sig.by ELSE "nobody",
   scheme |-> t.sig.scheme]

\* staticKeyProvider.Lookup.
Lookup(kid) == IF kid # "" /\ key.kid # "" /\ kid # key.kid THEN NoKey ELSE key

\* parseVerified as far as the signature.
signatureError(t, cfg) ==
  LET tok == asToken(t)
      err == precheck(tok, cfg)
  IN IF err # {} THEN err
     ELSE IF key = NoKey \/ Lookup(tok.kid) = NoKey THEN {"ErrKeyNotFound"}
     ELSE keyError(Lookup(tok.kid), tok, cfg.algs)

\* The rest of it: the Claims Set is decoded and its registered claims are checked.
claimsError(t, cfg) ==
  IF ~CanUnmarshal("RegisteredClaims", t.payload) THEN {"ErrMalformedToken"}
  ELSE LET reg == Unmarshal("RegisteredClaims", t.payload, ZeroClaims) IN
       validateClaims([exp |-> Shifted(reg.exp), nbf |-> Shifted(reg.nbf), iss |-> reg.iss,
                       aud |-> {reg.aud[i] : i \in DOMAIN reg.aud}, typ |-> t.hdr.typ,
                       present |-> present(t.payload)], cfg, Shifted(now))

parseVerified(t, cfg) ==
  LET err == signatureError(t, cfg) IN IF err # {} THEN err ELSE claimsError(t, cfg)

\* Mutant: the payload is decoded over what dst holds.
decodeFreshObject_InPlace(t) == Unmarshal(S.type, t.payload, dst)

decodeFreshObject(t) == Unmarshal(S.type, t.payload, ZeroClaims)

\* Mutant: the payload is decoded before the checks have passed.
Return_DecodeFirst(op, t, opts, err) ==
  /\ last' = [op |-> op, tok |-> t, opts |-> opts, err |-> err]
  /\ dst' = IF CanUnmarshal(S.type, t.payload) THEN decodeFreshObject(t) ELSE dst
  /\ accepted' = IF err = {} THEN t.payload ELSE accepted
  /\ UNCHANGED <<scene, private, signer, key, sent, now>>

\* What the consumer's call ends with; dst is assigned only when it succeeds.  (A nil
\* dst is refused at once.)
Return(op, t, opts, err) ==
  /\ last' = [op |-> op, tok |-> t, opts |-> opts, err |-> err]
  /\ dst' = IF err = {} THEN decodeFreshObject(t) ELSE dst
  /\ accepted' = IF err = {} THEN t.payload ELSE accepted
  /\ UNCHANGED <<scene, private, signer, key, sent, now>>

decodeError(t) == IF CanUnmarshal(S.type, t.payload) THEN {} ELSE {"ErrMalformedToken"}

parseError(t, cfg) ==
  LET err == parseVerified(t, cfg) IN IF err # {} THEN err ELSE decodeError(t)

ParseToken(t, opts) == Return("Parse", t, opts, parseError(t, Configured(opts)))

ParseInsecure(t) == Return("ParseInsecure", t, <<>>, decodeError(t))

\* Mutant: any content type will do.
cmwType_Any(hdr) == TRUE

cmwType(hdr) == typeMatches(hdr.cty, CMWContentType) /\ hdr.cty.top # ""

cmwError(t, cfg) ==
  LET err == signatureError(t, cfg) IN
  IF err # {} THEN err
  ELSE IF ~cmwType(t.hdr) THEN {"ErrTypeMismatch"}
  ELSE IF ParseCMW(t.payload).ok THEN {} ELSE {"ErrInvalidClaim"}

\* The options about claims are not looked at.
ParseSignedCMW(t, opts) ==
  LET err == cmwError(t, Configured(opts)) IN
  /\ last' = [op |-> "ParseSignedCMW", tok |-> t, opts |-> opts, err |-> err,
              out |-> IF err = {} THEN ParseCMW(t.payload).v ELSE NoCMW]
  /\ UNCHANGED <<scene, private, signer, key, sent, now, dst, accepted>>

ValidateAccess ==
  /\ last # NoCall /\ last.op = "Parse" /\ last.err = {}
  /\ last' = [last EXCEPT !.op = "ValidateAccessTokenClaims", !.err = ValidateAccessTokenClaims(dst)]
  /\ UNCHANGED <<scene, private, signer, key, sent, now, dst, accepted>>

\* Three segments of tokens that were sent.
Arriving == {[hdr |-> a.tok.hdr, payload |-> b.tok.payload, sig |-> c.tok.sig] :
               a \in sent, b \in sent, c \in sent}

Issue ==
  \/ \E b \in S.blobs, alg \in S.algs, kid \in S.kids : NewSigner(b, alg, kid)
  \/ \E s \in S.custom : CustomSigner(s)
  \/ \E kid \in S.kids, meta \in S.metas : Publish(kid, meta)
  \/ \E c \in S.claims, opts \in S.signOpts : SignStruct(c.type, c.claims, opts)
  \/ \E j \in S.values, opts \in S.signOpts : SignValue(j, opts)
  \/ \E c \in S.cmws, opts \in S.signOpts : SignCMW(c, opts)

Consume ==
  \/ \E t \in Arriving, opts \in S.parseOpts : ParseToken(t, opts)
  \/ \E t \in Arriving : ParseInsecure(t)
  \/ \E t \in Arriving, opts \in S.parseOpts : ParseSignedCMW(t, opts)
  \/ ValidateAccess

Next == Issue \/ Consume \/ Tick

Spec == Init /\ [][Next]_vars
-----------------------------------------------------------------------------
(* Properties                                                              *)

Called(op) == last.op = op
Accepted(op) == Called(op) /\ last.err = {}

\* The tokens sent that arrived whole in the last call.
Whole(kind) == {s \in sent : s.kind = kind /\ s.tok = last.tok}

\* The consumer held the published half of the key that made the token.
HeldItsKey == key # NoKey /\ last.tok.sig.by = key.id

\* What a claims struct says to a struct of another type; an empty audience is not sent.
View(c, type) ==
  [f \in DOMAIN c |-> IF f \notin Fields[type] THEN ZeroClaims[f]
                      ELSE IF f = "aud" /\ c.aud = <<>> THEN NilAud ELSE c[f]]

\* The two things that can be signed and never read: a time beyond the range that is
\* decoded (half a second into the last second is enough), and a CMW record without bytes.
HollowCMW(c, hollows) ==
  IF c.Record # NoRecord THEN c.Record.Value = ""
  ELSE \E l \in DOMAIN c.Collection.Members : c.Collection.Members[l] \in hollows
hollow[left \in Levels] ==
  IF left = 0 THEN {} ELSE {c \in CMWs : HollowCMW(c, hollow[left-1])}
hollowCMWs == hollow[MaxDepth+1]
Hollow(c) == c \in hollowCMWs
Unreadable(c) ==
  \/ \E f \in Dates : c[f] # NoDate /\ ~(MinDate * Second <= Float(c[f]) /\ Float(c[f]) <= MaxDate * Second)
  \/ c.cmw # NoCMW /\ Hollow(c.cmw)

\* Far from the epoch a time is read to the precision of float64 only.
Blur(t) == IF t # NoDate /\ Far(t) THEN Coarse \div 2 ELSE 0
SameClaims(c, d) ==
  \A f \in DOMAIN c : IF f \in Dates THEN d[f] \in c[f] - Blur(c[f]) .. c[f] + Blur(c[f])
                      ELSE c[f] = d[f]

\* What Sign made of a claims struct, Parse reads back for whoever holds the published
\* key: it is never malformed or badly signed, and dst has the values that were signed,
\* to the fraction of a second that float64 can tell apart, before the epoch too.  And a
\* CMW that SignCMW accepted, nested to the limit or not, comes out of ParseSignedCMW as
\* it went in.
ReadsAsSigned ==
  /\ \A s \in IF Called("Parse") /\ HeldItsKey THEN Whole("claims") ELSE {} :
       ~Unreadable(s.src.claims) =>
         /\ last.err \cap {"ErrMalformedToken", "ErrInvalidSignature"} = {}
         /\ last.err = {} => SameClaims(View(View(s.src.claims, s.src.type), S.type), dst)
  /\ \A s \in IF Called("ParseSignedCMW") /\ HeldItsKey THEN Whole("cmw") ELSE {} :
       ~Hollow(s.src) =>
         /\ last.err \cap {"ErrInvalidClaim", "ErrTypeMismatch", "ErrMalformedToken",
                           "ErrInvalidSignature"} = {}
         /\ last.err = {} => last.out = s.src

\* exp and nbf are kept to the instant the issuer gave, as far as float64 goes: no token
\* that Parse accepts is outside them, and none is refused as expired before its time.
SameInstant ==
  \A s \in IF Called("Parse") THEN Whole("claims") ELSE {} :
     LET c == s.src.claims
         leeway == Configured(last.opts).leeway
     IN /\ last.err = {} => /\ c.exp = NoDate \/ now - leeway < c.exp + Blur(c.exp)
                            /\ c.nbf = NoDate \/ c.nbf - Blur(c.nbf) <= now + leeway
        /\ last.err = {"ErrExpired"} => c.exp - Blur(c.exp) <= now - leeway

\* "The CMW is validated first, so an invalid value never reaches a token" (MarshalJSON):
\* what SignCMW signed is a CMW to ParseCMW.
InvalidNeverSigned == \A s \in sent : s.kind = "cmw" => ParseCMW(s.tok.payload).ok

\* A CMW and a Claims Set are not taken for each other, even when their segments are
\* recombined: ParseSignedCMW accepts what SignCMW signed, or what Sign was told to label
\* as a CMW; Parse accepts no CMW once a registered claim is required, unless that claim is
\* the audience: the two strings of a record can be read as one.
Separate ==
  /\ Accepted("ParseSignedCMW") =>
       \/ Whole("cmw") # {}
       \/ \E s \in Whole("claims") \cup Whole("value") : s.tok.hdr.cty = CMWContentType
  /\ Accepted("Parse") /\ Configured(last.opts).required \cap (registered \ {"aud"}) # {} =>
       Whole("cmw") = {}

\* dst is the content of the last token that a call accepted, whatever came before and
\* after it: what an earlier call left in it never shows through a later one, and a call
\* that fails, at whichever check, leaves it as it was.  So claims that pass the access
\* token profile were signed as one token, with every claim that RFC 9068 requires.
OneSource ==
  /\ accepted = Null => dst = ZeroClaims
  /\ accepted # Null => /\ \E s \in sent : s.tok.payload = accepted
                        /\ CanUnmarshal(S.type, accepted)
                        /\ dst = Unmarshal(S.type, accepted, ZeroClaims)
  /\ \A s \in IF Accepted("ValidateAccessTokenClaims") THEN Whole("claims") ELSE {} :
       LET c == s.src.claims IN
       /\ {"iss", "sub", "jti", "client_id", "exp", "iat", "aud"} \subseteq Emitted(s.src.type, c)
       /\ "" \notin {c.client_id} \cup {c.aud[i] : i \in DOMAIN c.aud}

\* The last option that sets this field.
Effective(opts, f) ==
  LET naming == {i \in DOMAIN opts : Names(opts[i], f, zeroConfig)} IN
  IF naming = {} THEN zeroConfig[f]
  ELSE opts[CHOOSE i \in naming : \A j \in naming : j <= i].set[f]
Merged(opts, f) == UNION {opts[i].set[f] : i \in {j \in DOMAIN opts : f \in DOMAIN opts[j].set}}

\* "Options apply left to right, so a later one wins", and a reusable ParseOptions after
\* them takes nothing back: an accepted token has the issuer and the audience that were
\* named last, every claim that any option requires, and an algorithm one of them lists;
\* and no key that was fetched verifies it that is published for another purpose.
PolicyHolds ==
  Accepted("Parse") =>
    LET issuer == Effective(last.opts, "issuer")
        audience == Effective(last.opts, "audience")
        members == last.tok.payload.obj
    IN /\ issuer # "" => "iss" \in DOMAIN members /\ members["iss"] = Str(issuer)
       /\ audience # "" =>
            /\ "aud" \in DOMAIN members
            /\ \/ members["aud"] = Str(audience)
               \/ Is("arr", members["aud"]) /\ \E i \in DOMAIN members["aud"].arr :
                                                 members["aud"].arr[i] = Str(audience)
       /\ Merged(last.opts, "required") \subseteq present(last.tok.payload)
       /\ last.tok.hdr.alg \in Merged(last.opts, "algs")
       /\ key.kty # "oct" => /\ key.use # "enc"
                            /\ {classOf(op) : op \in key.ops} \cap {"enc", "derive"} = {}

\* A private key that a parser and a constructor accepted makes signatures that the JWK
\* of its public half verifies: neither refuses what the other allows, at both ends of
\* the sizes, for every algorithm and every encoding.  With one exception, and no other:
\* the two halves of an Ed25519 key may come from two keys (only the expanded form is
\* compared), and what it then signs does not verify.
SignerUsable ==
  private # BadKey =>
    LET k == asKey(FromPublicKey(private, signer.kid))
        sig == [signer |-> signer.by, scheme |-> signer.alg]
    IN /\ verifierForAlg(k, signer.alg) = {}
       /\ Verify(k, signer.alg, sig) = {} <=>
            (private.kty = "OKP" => private.priv = private.pub)
=============================================================================
