--------------------------------- MODULE JWE ---------------------------------
(***************************************************************************)
(* JWE of jwe.go and jwe_*.go: senders encrypt claims and signed tokens,   *)
(* segments of their tokens get mixed up or changed on the way, and        *)
(* recipients run DecryptClaims and DecryptNestedJWT while time passes.    *)
(*                                                                         *)
(* Keys are terms: a content-encryption key is equal to another only if it *)
(* was made or derived from the same inputs, and a sealed body opens only  *)
(* with the key and the protected header it was sealed with.  Ciphers, key *)
(* wrapping and hashes are external; what is put into them is the code's.  *)
(*                                                                         *)
(* A call waits in its Decrypter, which may be the caller's own and remote,*)
(* and in the KeyProvider of the inner token.                              *)
(***************************************************************************)
EXTENDS Parse, Sequences

CONSTANTS Calls,        \* slots for calls
          Encrypters,   \* [alg, enc, kid, key]: what senders encrypt with
          Decrypters,   \* [kid, key, custom]: what recipients decrypt with
          Claims,       \* claims sets, with the fields of a token's claims
          Tokens,       \* compact JWS (see Parse.tla) given to EncryptNestedJWT
          Plaintexts,   \* the plaintexts, tokens too, given to EncryptJWE
          Options,      \* encryptConfig: [typ, cty]
          Policies,     \* [jwe, jws]: the options of a recipient
          Keyring,      \* kid -> the key a MapKeyProvider holds
          MaxSent,      \* bound on the tokens ever sent
          MaxTime       \* bound: the clock stops here

VARIABLES clock, policy,
          sent,      \* the tokens that senders made, with how (ghosts op, by)
          call,      \* the calls in progress
          dst        \* what the destination of each call holds

vars == <<clock, policy, sent, call, dst>>

Old == [kind |-> "old"]         \* what a destination held before any call
NoCall == [pc |-> "idle"]
JWT == [top |-> "", sub |-> "JWT"]

Init ==
  /\ clock = 1
  /\ policy \in Policies
  /\ sent = <<>>
  /\ call = [c \in Calls |-> NoCall]
  /\ dst = [c \in Calls |-> Old]

-----------------------------------------------------------------------------
(* Keys                                                                    *)

contentKeyLen(enc) == CASE enc = "A128GCM" -> 16
                        [] enc = "A192GCM" -> 24
                        [] enc = "A256GCM" -> 32
                        [] OTHER -> 0

\* The keys that the constructors of Decrypters accept: the length in bytes of a
\* symmetric key, the bits of an RSA key, a sound key on a supported curve.
ValidKey(key) == \/ key.kind = "dir" /\ key.len \in {16, 24, 32}
                 \/ key.kind = "kw" /\ key.len = 32
                 \/ key.kind = "rsa" /\ key.len \in 2048..8192
                 \/ key.kind = "ec" /\ key.len = 0

\* The constructors of Encrypters.
NewDirectEncrypter(e) == e.alg = "dir" /\ e.key.kind = "dir" /\ e.key.len = contentKeyLen(e.enc)
NewA256KWEncrypter(e) == e.alg = "A256KW" /\ e.key.kind = "kw"
NewRSAOAEP256Encrypter(e) == e.alg = "RSA-OAEP-256" /\ e.key.kind = "rsa"
NewECDHESEncrypter(e) == e.alg \in {"ECDH-ES", "ECDH-ES+A256KW"} /\ e.key.kind = "ec"
newEncrypter(e) ==
  /\ contentKeyLen(e.enc) # 0
  /\ ValidKey(e.key)
  /\ \/ NewDirectEncrypter(e) \/ NewA256KWEncrypter(e)
     \/ NewRSAOAEP256Encrypter(e) \/ NewECDHESEncrypter(e)

\* What can be wrong with a JWS as such, and with the claims it or a JWE holds: no JSON
\* object, a registered claim of the wrong type, no fit for the caller's type.
JWSDefects == {"oversize", "segments", "header", "payload64", "sig64"}
ClaimDefects == {"payload", "types", "dst"}
HasClaims(x) ==
  /\ {"defects", "exp", "nbf", "iss", "aud", "present", "typ"} \subseteq DOMAIN x
  /\ {x.exp, x.nbf} \subseteq Int

\* An id stands for one secret or one key pair.
ASSUME JWEAssumption ==
  /\ \A e \in Encrypters : newEncrypter(e)
  /\ \A d \in Decrypters : ValidKey(d.key)
  /\ \A e \in Encrypters, d \in Decrypters : e.key.id = d.key.id => e.key = d.key
  /\ \A cl \in Claims : HasClaims(cl) /\ cl.defects \subseteq ClaimDefects
  /\ \A t \in Tokens \cup Plaintexts : HasClaims(t) /\ t.defects \subseteq JWSDefects \cup ClaimDefects
  /\ \A o \in Options : {"typ", "cty"} = DOMAIN o
  /\ \A p \in Policies : {p.jwe.leeway, p.jws.leeway} \subseteq Nat

NoSecret == [nothing |-> TRUE]
Fresh(n, len) == [random |-> n, len |-> len]
Shared(key) == [of |-> key.id, len |-> key.len]

\* The agreed secret of a key pair and an ephemeral key, and what concatKDF
\* derives from it for an AlgorithmID and a length.
concatKDF(key, epk, algID, len) == [of |-> key.id, epk |-> epk, info |-> algID, len |-> len]

Wrapped(kek, cek) == [kek |-> kek, cek |-> cek]
Empty == [kek |-> NoSecret, cek |-> [len |-> 0]]

\* The wrappers: the content key, the encrypted key and the ephemeral key of
\* encryption number n.
wrapDirect(e, n) == [cek |-> Shared(e.key), ekey |-> Empty, epk |-> 0]

wrapAESKW(e, n) ==
  LET cek == Fresh(n, contentKeyLen(e.enc))
  IN [cek |-> cek, ekey |-> Wrapped(Shared(e.key), cek), epk |-> 0]

wrapRSAOAEP(e, n) ==
  LET cek == Fresh(n, contentKeyLen(e.enc))
  IN [cek |-> cek, ekey |-> Wrapped(Shared(e.key), cek), epk |-> 0]

wrapECDH(e, n) ==
  LET len == contentKeyLen(e.enc) IN
  IF e.alg = "ECDH-ES"
  THEN [cek |-> concatKDF(e.key, n, e.enc, len), ekey |-> Empty, epk |-> n]
  ELSE [cek |-> Fresh(n, len),
        ekey |-> Wrapped(concatKDF(e.key, n, e.alg, 32), Fresh(n, len)), epk |-> n]

wrap(e, n) == CASE e.key.kind = "dir" -> wrapDirect(e, n)
                [] e.key.kind = "kw" -> wrapAESKW(e, n)
                [] e.key.kind = "rsa" -> wrapRSAOAEP(e, n)
                [] e.key.kind = "ec" -> wrapECDH(e, n)

\* unwrapper.supports
supports(key, alg) ==
  alg \in CASE key.kind = "dir" -> {"dir"}
            [] key.kind = "kw" -> {"A256KW"}
            [] key.kind = "rsa" -> {"RSA-OAEP-256"}
            [] key.kind = "ec" -> {"ECDH-ES", "ECDH-ES+A256KW"}

\* Mutant: the key-wrapping mode derives its key for the content algorithm.
AlgorithmID_Enc(hdr) == hdr.enc

\* RFC 7518 4.6.2: "enc" for direct agreement, "alg" with key wrapping.
AlgorithmID(hdr) == IF hdr.alg = "ECDH-ES" THEN hdr.enc ELSE hdr.alg

Opened(ekey, kek, len) ==
  IF ekey # Empty /\ ekey.kek = kek /\ ekey.cek.len = len THEN ekey.cek ELSE NoSecret

\* The unwrappers; NoSecret is a failure.  Headers have no apu and apv: no
\* Encrypter here writes them.
unwrapDirect(key, hdr, ekey) ==
  IF ekey = Empty /\ key.len = contentKeyLen(hdr.enc) THEN Shared(key) ELSE NoSecret

unwrapAESKW(key, hdr, ekey) == Opened(ekey, Shared(key), contentKeyLen(hdr.enc))

unwrapRSAOAEP(key, hdr, ekey) == Opened(ekey, Shared(key), contentKeyLen(hdr.enc))

unwrapECDH(key, hdr, ekey) ==
  LET len == contentKeyLen(hdr.enc) IN
  IF hdr.epk = 0 THEN NoSecret
  ELSE IF hdr.alg # "ECDH-ES"
  THEN Opened(ekey, concatKDF(key, hdr.epk, AlgorithmID(hdr), 32), len)
  ELSE IF ekey = Empty THEN concatKDF(key, hdr.epk, AlgorithmID(hdr), len) ELSE NoSecret

unwrap(key, hdr, ekey) == CASE key.kind = "dir" -> unwrapDirect(key, hdr, ekey)
                            [] key.kind = "kw" -> unwrapAESKW(key, hdr, ekey)
                            [] key.kind = "rsa" -> unwrapRSAOAEP(key, hdr, ekey)
                            [] key.kind = "ec" -> unwrapECDH(key, hdr, ekey)

\* Mutant: the additional authenticated data is left out.
Open_NoAAD(cek, hdr, body) == cek # NoSecret /\ body.cek = cek

\* gcm.Open with the encoded protected header as additional data.
Open(cek, hdr, body) == cek # NoSecret /\ body.cek = cek /\ body.aad = hdr

-----------------------------------------------------------------------------
(* Senders                                                                 *)

\* encrypter.encrypt.  A plaintext may be so large that its token exceeds what
\* any recipient accepts; encrypt does not look.
encrypt(e, kind, value, opt, op) ==
  LET plain == [kind |-> kind, value |-> value, large |-> value.large]
      n == Len(sent) + 1
      w == wrap(e, n)
      hdr == [alg |-> e.alg, enc |-> e.enc, kid |-> e.kid, typ |-> opt.typ, cty |-> opt.cty,
              epk |-> w.epk, form |-> "ok"]
      body == [cek |-> w.cek, aad |-> hdr, plain |-> plain]
  IN /\ Len(sent) < MaxSent
     /\ sent' = Append(sent, [hdr |-> hdr, ekey |-> w.ekey, body |-> body,
                              form |-> IF plain.large THEN "oversize" ELSE "ok",
                              op |-> op, by |-> e.key.id])
     /\ UNCHANGED <<clock, policy, call, dst>>

\* EncryptClaims; claims that are no JSON object are refused and nothing is sent.
EncryptClaims(e, cl, opt) ==
  /\ "payload" \notin cl.defects
  /\ encrypt(e, "claims", cl, opt, "claims")

\* EncryptJWE of any bytes, here of a token, with no check and no forced "cty".
EncryptJWE(e, tok, opt) == encrypt(e, "jws", tok, opt, "jwe")

\* validateNestedJWS
validateNestedJWS(tok) ==
  /\ tok.defects \subseteq {"types", "dst"}
  /\ tok.alg \notin {"", "none", "NONE"}

EncryptNestedJWT(e, tok, opt) ==
  /\ validateNestedJWS(tok)
  /\ encrypt(e, "jws", tok, [opt EXCEPT !.cty = JWT], "nested")

-----------------------------------------------------------------------------
(* The way: segments of sent tokens are mixed, headers are changed         *)

Headers == {sent[i].hdr : i \in DOMAIN sent}
Changed(h) == {[h EXCEPT !.form = "bad"], [h EXCEPT !.form = "crit"],
               [h EXCEPT !.enc = "A256GCM"], [h EXCEPT !.kid = "k2", !.cty = JWT]}

Like(i, h, f) == [hdr |-> h, ekey |-> sent[i].ekey, body |-> sent[i].body, form |-> f]

\* What may arrive: a sent token, also with a changed header or broken segments,
\* or one put together of parts.
Arriving ==
  {Like(i, sent[i].hdr, sent[i].form) : i \in DOMAIN sent}
    \cup {Like(i, sent[i].hdr, f) : i \in DOMAIN sent, f \in {"segments", "seg64"}}
    \cup (UNION {{Like(i, h, "ok") : h \in Changed(sent[i].hdr)} : i \in DOMAIN sent})
    \cup {[Like(i, h, "ok") EXCEPT !.body = sent[j].body] : i, j \in DOMAIN sent, h \in Headers}

-----------------------------------------------------------------------------
(* Recipients                                                              *)

\* parseJWEProtected
parseJWEProtected(tok) ==
  IF tok.form \in {"oversize", "segments"} \/ tok.hdr.form = "bad" THEN {"ErrDecryptionFailed"}
  ELSE IF tok.hdr.form = "crit" THEN {"ErrUnsupportedCritical"}
  ELSE {}

kidMismatch(tok, d) == d.kid # "" /\ tok.hdr.kid # "" /\ d.kid # tok.hdr.kid

\* Mutant: the allowlists are applied to the result only.
policyError_Late(tok, d, cfg) ==
  IF kidMismatch(tok, d) THEN {"ErrDecryptionFailed"} ELSE parseJWEProtected(tok)

\* decryptJWEWithPolicy up to the call of the Decrypter.
policyError(tok, d, cfg) ==
  LET algs == withoutNone(cfg.keyAlgs)
      encs == withoutNone(cfg.encs)
  IN IF algs = {} \/ encs = {} THEN {"ErrNoAllowedAlgorithms"}
     ELSE IF parseJWEProtected(tok) # {} THEN parseJWEProtected(tok)
     ELSE IF tok.hdr.alg \notin algs THEN {"ErrAlgorithmNotAllowed"}
     ELSE IF tok.hdr.enc \notin encs THEN {"ErrAlgorithmNotAllowed"}
     ELSE IF kidMismatch(tok, d) THEN {"ErrDecryptionFailed"}
     ELSE {}

\* decrypter.Decrypt succeeds.
Decrypts(tok, d) ==
  /\ parseJWEProtected(tok) = {}
  /\ ~kidMismatch(tok, d)
  /\ contentKeyLen(tok.hdr.enc) # 0
  /\ supports(d.key, tok.hdr.alg)
  /\ tok.form # "seg64"
  /\ Open(unwrap(d.key, tok.hdr, tok.ekey), tok.hdr, tok.body)

Returned(c, err) == [pc |-> "returned", op |-> call[c].op, tok |-> call[c].tok,
                     dec |-> call[c].dec, err |-> err, at |-> clock]
Fail(c, err) ==
  /\ call' = [call EXCEPT ![c] = Returned(c, err)]
  /\ UNCHANGED dst
Accept(c) ==
  /\ call' = [call EXCEPT ![c] = Returned(c, {})]
  /\ dst' = [dst EXCEPT ![c] = call[c].tok.body.plain]
Continue(c, pc) ==
  /\ call' = [call EXCEPT ![c].pc = pc]
  /\ UNCHANGED dst

\* DecryptClaims or DecryptNestedJWT is called, and stops at the Decrypter.
Begin(c, op, tok, d) ==
  /\ call[c].pc = "idle"
  /\ LET err == policyError(tok, d, policy.jwe) IN
     call' = [call EXCEPT ![c] =
                [pc |-> IF err = {} THEN "decrypt" ELSE "returned", op |-> op, tok |-> tok,
                 dec |-> d, err |-> err, at |-> clock]]
  /\ UNCHANGED <<clock, policy, sent, dst>>

\* The Decrypter answers; DecryptNestedJWT looks at the header and at the inner
\* token up to its KeyProvider.
Decrypt(c) ==
  LET tok == call[c].tok
      text == tok.body.plain
      inner == IF text.kind = "jws" THEN precheck(text.value, policy.jws)
               ELSE precheck([defects |-> {"segments"}], policy.jws)
  IN /\ call[c].pc = "decrypt"
     /\ IF ~Decrypts(tok, call[c].dec) THEN Fail(c, {"ErrDecryptionFailed"})
        ELSE IF call[c].op = "claims" THEN Continue(c, "claims")
        ELSE IF ~typeMatches(tok.hdr.cty, JWT) THEN Fail(c, {"ErrMalformedToken"})
        ELSE IF policy.jwe.type # NoType /\ ~typeMatches(tok.hdr.typ, policy.jwe.type)
        THEN Fail(c, {"ErrTypeMismatch"})
        ELSE IF inner # {} THEN Fail(c, inner)
        ELSE Continue(c, "inner")
     /\ UNCHANGED <<clock, policy, sent>>

\* A caller-supplied Decrypter fails on its own account.
DecrypterFails(c) ==
  /\ call[c].pc = "decrypt"
  /\ call[c].dec.custom
  /\ Fail(c, {"backend"})
  /\ UNCHANGED <<clock, policy, sent>>

\* The decoded claims are checked, then decoded into the caller's type.
checkClaims(cl, typ, cfg) ==
  LET invalid == validateClaims([cl EXCEPT !.typ = typ], cfg, clock) IN
  IF cl.defects \cap {"payload", "types"} # {} THEN {"ErrMalformedToken"}
  ELSE IF invalid # {} THEN invalid
  ELSE IF "dst" \in cl.defects THEN {"ErrMalformedToken"}
  ELSE {}

\* The rest of DecryptClaims.  A compact JWS is no JSON object.
DecryptClaims(c) ==
  /\ call[c].pc = "claims"
  /\ LET tok == call[c].tok
         text == tok.body.plain
         err == IF text.kind = "jws" THEN {"ErrMalformedToken"}
                ELSE checkClaims(text.value, tok.hdr.typ, policy.jwe)
     IN IF err # {} THEN Fail(c, err) ELSE Accept(c)
  /\ UNCHANGED <<clock, policy, sent>>

\* mapKeyProvider.Lookup; the answer is a set of at most one key.
LookupKey(kid) ==
  {Keyring[k] : k \in IF kid = "" /\ Cardinality(DOMAIN Keyring) = 1
                      THEN DOMAIN Keyring ELSE {kid} \cap DOMAIN Keyring}

\* The inner token has options of its own.
jwsPolicy == policy.jws

\* The rest of DecryptNestedJWT: parseVerified on the inner token, final decode.
DecryptNestedJWT(c) ==
  /\ call[c].pc = "inner"
  /\ LET tok == call[c].tok.body.plain.value
         keys == LookupKey(tok.kid)
         refused == UNION {keyError(k, tok, jwsPolicy.algs) : k \in keys}
         claims == checkClaims(tok, tok.typ, jwsPolicy)
     IN IF keys = {} THEN Fail(c, {"ErrKeyNotFound"})
        ELSE IF refused # {} THEN Fail(c, refused)
        ELSE IF claims # {} THEN Fail(c, claims)
        ELSE Accept(c)
  /\ UNCHANGED <<clock, policy, sent>>

\* The caller has taken the result; the next call of the slot has its own dst.
Finish(c) ==
  /\ call[c].pc = "returned"
  /\ call' = [call EXCEPT ![c] = NoCall]
  /\ dst' = [dst EXCEPT ![c] = Old]
  /\ UNCHANGED <<clock, policy, sent>>

Tick ==
  /\ clock < MaxTime
  /\ clock' = clock + 1
  /\ UNCHANGED <<policy, sent, call, dst>>

Next ==
  \/ \E e \in Encrypters, opt \in Options :
       \/ \E cl \in Claims : EncryptClaims(e, cl, opt)
       \/ \E tok \in Tokens : EncryptNestedJWT(e, tok, opt)
       \/ \E tok \in Plaintexts : EncryptJWE(e, tok, opt)
  \/ \E c \in Calls :
       \/ \E op \in {"claims", "nested"}, tok \in Arriving, d \in Decrypters :
            Begin(c, op, tok, d)
       \/ Decrypt(c)
       \/ DecrypterFails(c)
       \/ DecryptClaims(c)
       \/ DecryptNestedJWT(c)
       \/ Finish(c)
  \/ Tick

Spec == Init /\ [][Next]_vars

-----------------------------------------------------------------------------
(* Properties                                                              *)

Accepted(c) == call[c].pc = "returned" /\ call[c].err = {}

\* Whatever is mixed on the way and however long a call waits, a destination only ever
\* receives what one sender sealed, complete: the header the policy was applied to, the
\* algorithms and the plaintext belong to one sent token, for the recipient's key; a
\* nested token was also signed by a key of the provider, with an algorithm of the inner
\* policy.  Claims that are refused never get there ("every failure leaves its previous
\* value unchanged"): what it holds is well formed, meant for the recipient by the policy
\* of its own layer, and had not expired when the call returned.
DstSound ==
  \A c \in Calls :
    /\ Accepted(c) =>
         \E i \in DOMAIN sent :
           /\ sent[i].hdr = call[c].tok.hdr
           /\ sent[i].body.plain = dst[c]
           /\ sent[i].by = call[c].dec.key.id
           /\ sent[i].hdr.alg \in policy.jwe.keyAlgs
           /\ sent[i].hdr.enc \in policy.jwe.encs
    /\ Accepted(c) /\ call[c].op = "nested" =>
         LET tok == dst[c].value IN
         /\ \E k \in DOMAIN Keyring : Keyring[k].id = tok.signer
         /\ tok.alg \in policy.jws.algs
         /\ sameAlgorithm(tok.scheme, tok.alg)
    /\ dst[c] # Old =>
         LET cfg == IF dst[c].kind = "jws" THEN policy.jws ELSE policy.jwe IN
         /\ dst[c].value.defects = {}
         /\ cfg.audience # "" => cfg.audience \in dst[c].value.aud
         /\ Accepted(c) /\ dst[c].value.exp # None => call[c].at < dst[c].value.exp + cfg.leeway

\* Allowlists hold for caller-supplied Decrypters too: none is asked about a token
\* with another algorithm, a critical extension or another recipient's kid.
DecrypterShielded ==
  \A c \in Calls :
    call[c].pc = "decrypt" =>
      /\ call[c].tok.hdr.alg \in policy.jwe.keyAlgs \ {"", "none"}
      /\ call[c].tok.hdr.enc \in policy.jwe.encs \ {"", "none"}
      /\ call[c].tok.hdr.form = "ok"
      /\ call[c].dec.kid \in {"", call[c].tok.hdr.kid} \/ call[c].tok.hdr.kid = ""

\* What was encrypted can be decrypted: a token that arrives as it was sent, at a
\* Decrypter with its key, is not refused by the Decrypter; and a token that
\* EncryptNestedJWT accepted is not malformed to DecryptNestedJWT, unless its
\* claims have the wrong types.  A token over the size limit is the exception.
RoundTrip ==
  \A c \in Calls, i \in DOMAIN sent :
    /\ call[c].pc = "returned"
    /\ call[c].tok = [hdr |-> sent[i].hdr, ekey |-> sent[i].ekey, body |-> sent[i].body,
                      form |-> "ok"]
    /\ sent[i].form = "ok"
    /\ call[c].dec.key.id = sent[i].by
    /\ ~kidMismatch(call[c].tok, call[c].dec)
    => /\ call[c].err # {"ErrDecryptionFailed"}
       /\ sent[i].op = "nested" /\ call[c].op = "nested" /\ sent[i].body.plain.value.defects = {}
            => call[c].err # {"ErrMalformedToken"}
=============================================================================
