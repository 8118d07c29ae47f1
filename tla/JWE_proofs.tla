----------------------------- MODULE JWE_proofs -----------------------------
(***************************************************************************)
(* Proofs about JWE for any senders, recipients, keys, plaintexts and      *)
(* policies, and any number of tokens and calls.                           *)
(*                                                                         *)
(* The argument: what was sent keeps the shape encrypt gave it (SentInv);  *)
(* what arrives is put together of sent parts, and a call knows what was   *)
(* checked (CallInv).  A content key names the encryption it was made in,  *)
(* so an encrypted key and a body that open together come from one token   *)
(* (OpenedBySender), and the additional data makes its header that token's *)
(* too.                                                                    *)
(***************************************************************************)
EXTENDS JWE, TLAPS

-----------------------------------------------------------------------------
(* What it means that a check passed                                       *)

\* A token that passes precheck has an allowed algorithm, no critical extension and no
\* defect but that its payload may be no JSON object.
LEMMA PrecheckPassed ==
  ASSUME NEW tok, NEW c, precheck(tok, c) = {}
  PROVE  /\ tok.alg \in withoutNone(c.algs)
         /\ ~tok.crit
         /\ tok.defects \cap {"oversize", "segments", "header", "payload64", "sig64"} = {}
BY DEF precheck

\* What precheck finds is an empty allowlist or a fault of the token.
LEMMA PrecheckErrors ==
  ASSUME NEW tok, NEW c
  PROVE  precheck(tok, c) \in {{}, {"ErrNoAllowedAlgorithms"}, {"ErrMalformedToken"},
                               {"ErrUnsupportedCritical"}, {"ErrAlgorithmNotAllowed"}}
BY DEF precheck

\* What keyError finds.
LEMMA KeyErrorRange ==
  ASSUME NEW key, NEW tok, NEW A
  PROVE  keyError(key, tok, A) \in
           {{}, {"ErrKeyUsage"}, {"ErrUnsupportedAlgorithm"}, {"ErrAlgorithmNotAllowed"},
            {"ErrMalformedKey"}, {"ErrKeyTypeMismatch"}, {"ErrWeakKey"}, {"ErrInvalidSignature"}}
<1>1. requireUnambiguousKeyAlgorithm(key, withoutNone(A)) \in {{}, {"ErrKeyUsage"}}
  BY DEF requireUnambiguousKeyAlgorithm
<1>2. Verify(key, tok.alg, tok) \in {{}, {"ErrInvalidSignature"}}
  BY DEF Verify
<1>3. verifierForAlg(key, tok.alg) \in
        {{}, {"ErrKeyUsage"}, {"ErrUnsupportedAlgorithm"}, {"ErrAlgorithmNotAllowed"},
         {"ErrMalformedKey"}, {"ErrKeyTypeMismatch"}, {"ErrWeakKey"}}
  BY DEF verifierForAlg
<1> QED BY <1>1, <1>2, <1>3 DEF keyError

\* A key that passes was unambiguous, serves the algorithm and made the signature.
LEMMA KeyPassed ==
  ASSUME NEW key, NEW tok, NEW A, keyError(key, tok, A) = {}
  PROVE  /\ requireUnambiguousKeyAlgorithm(key, withoutNone(A)) = {}
         /\ verifierForAlg(key, tok.alg) = {}
         /\ Verify(key, tok.alg, tok) = {}
BY DEF keyError

\* What the claims checks find is a fault of the token.
LEMMA ClaimErrors ==
  ASSUME NEW tok, NEW c, NEW now
  PROVE  validateClaims(tok, c, now) \in
           {{}, {"ErrExpired"}, {"ErrNotYetValid"}, {"ErrIssuerMismatch"},
            {"ErrAudienceMismatch"}, {"ErrTypeMismatch"}, {"ErrMissingClaim"}}
BY DEF validateClaims, None

\* A token whose claims pass is within its time, up to the leeway, and for this recipient.
LEMMA ClaimsPassed ==
  ASSUME NEW tok, NEW c, NEW now \in Int, c.leeway \in Nat, {tok.exp, tok.nbf} \subseteq Int,
         validateClaims(tok, c, now) = {}
  PROVE  /\ tok.exp # None => now < tok.exp + c.leeway
         /\ tok.nbf # None => now + c.leeway >= tok.nbf
         /\ audienceOK(tok.aud, c)
<1>1. audienceOK(tok.aud, c)
  BY DEF validateClaims
<1>2. tok.exp # None => now - c.leeway < tok.exp
  BY DEF validateClaims
<1>3. tok.nbf # None => ~(now + c.leeway < tok.nbf)
  BY DEF validateClaims
<1>4. tok.exp \in Int /\ tok.nbf \in Int
  OBVIOUS
<1> QED BY <1>1, <1>2, <1>3, <1>4

-----------------------------------------------------------------------------
(* What senders make                                                       *)

\* The token that encrypt makes as number n.
Made(n, e, kind, value, typ, cty, op) ==
  LET w == wrap(e, n)
      hdr == [alg |-> e.alg, enc |-> e.enc, kid |-> e.kid, typ |-> typ, cty |-> cty,
              epk |-> w.epk, form |-> "ok"]
      plain == [kind |-> kind, value |-> value, large |-> value.large]
  IN [hdr |-> hdr, ekey |-> w.ekey, body |-> [cek |-> w.cek, aad |-> hdr, plain |-> plain],
      form |-> IF value.large THEN "oversize" ELSE "ok", op |-> op, by |-> e.key.id]

\* What each operation may seal: the plaintext with its kind and content type.
Sealable(kind, value, cty, op) ==
  \/ op = "claims" /\ kind = "claims" /\ value \in Claims
  \/ op = "nested" /\ kind = "jws" /\ value \in Tokens /\ cty = JWT
  \/ op = "jwe" /\ kind = "jws" /\ value \in Plaintexts

\* What wrap returns for each kind of key.
LEMMA WrapFacts ==
  ASSUME NEW e \in Encrypters, NEW n
  PROVE  LET w == wrap(e, n)
             len == contentKeyLen(e.enc)
         IN \/ /\ e.key.kind = "dir" /\ e.alg = "dir" /\ e.key.len = len
               /\ w = [cek |-> Shared(e.key), ekey |-> Empty, epk |-> 0]
            \/ /\ \/ e.key.kind = "kw" /\ e.alg = "A256KW"
                  \/ e.key.kind = "rsa" /\ e.alg = "RSA-OAEP-256"
               /\ w = [cek |-> Fresh(n, len), ekey |-> Wrapped(Shared(e.key), Fresh(n, len)),
                       epk |-> 0]
            \/ /\ e.key.kind = "ec" /\ e.alg = "ECDH-ES"
               /\ w = [cek |-> concatKDF(e.key, n, e.enc, len), ekey |-> Empty, epk |-> n]
            \/ /\ e.key.kind = "ec" /\ e.alg = "ECDH-ES+A256KW"
               /\ w = [cek |-> Fresh(n, len),
                       ekey |-> Wrapped(concatKDF(e.key, n, e.alg, 32), Fresh(n, len)),
                       epk |-> n]
<1>1. newEncrypter(e)
  BY JWEAssumption
<1>2. \/ NewDirectEncrypter(e) \/ NewA256KWEncrypter(e)
      \/ NewRSAOAEP256Encrypter(e) \/ NewECDHESEncrypter(e)
  BY <1>1 DEF newEncrypter
<1>3. CASE NewDirectEncrypter(e)
  BY <1>3 DEF NewDirectEncrypter, wrap, wrapDirect
<1>4. CASE NewA256KWEncrypter(e)
  BY <1>4 DEF NewA256KWEncrypter, wrap, wrapAESKW
<1>5. CASE NewRSAOAEP256Encrypter(e)
  BY <1>5 DEF NewRSAOAEP256Encrypter, wrap, wrapRSAOAEP
<1>6. CASE NewECDHESEncrypter(e)
  <2>1. wrap(e, n) = wrapECDH(e, n)
    BY <1>6 DEF NewECDHESEncrypter, wrap
  <2> QED BY <1>6, <2>1 DEF NewECDHESEncrypter, wrapECDH
<1> QED BY <1>2, <1>3, <1>4, <1>5, <1>6

\* Terms of different shape are different, and equal ones have equal parts.
LEMMA Terms ==
  /\ \A a, b : /\ Shared(a) # NoSecret /\ Fresh(a, b) # NoSecret
               /\ \A l : Shared(a) # Fresh(b, l)
  /\ \A a, b, c, d : /\ concatKDF(a, b, c, d) # NoSecret
                     /\ \A k : concatKDF(a, b, c, d) # Shared(k)
                     /\ \A n, l : concatKDF(a, b, c, d) # Fresh(n, l)
  /\ \A a, b : Shared(a) = Shared(b) => a.id = b.id
  /\ \A a, b, k, l : Fresh(a, k) = Fresh(b, l) => a = b
  /\ \A a, b, c, d, e, f, g, h : concatKDF(a, b, c, d) = concatKDF(e, f, g, h) => a.id = e.id
<1>1. \A a, b : Shared(a) # NoSecret /\ Fresh(a, b) # NoSecret
  BY DEF Shared, Fresh, NoSecret
<1>2. \A a, b, l : Shared(a) # Fresh(b, l)
  BY DEF Shared, Fresh
<1>3. \A a, b, c, d : concatKDF(a, b, c, d) # NoSecret
  BY DEF concatKDF, NoSecret
<1>4. \A a, b, c, d, k : concatKDF(a, b, c, d) # Shared(k)
  BY DEF concatKDF, Shared
<1>5. \A a, b, c, d, n, l : concatKDF(a, b, c, d) # Fresh(n, l)
  BY DEF concatKDF, Fresh
<1>6. \A a, b : Shared(a) = Shared(b) => a.id = b.id
  BY DEF Shared
<1>7. \A a, b, k, l : Fresh(a, k) = Fresh(b, l) => a = b
  BY DEF Fresh
<1>8. \A a, b, c, d, e, f, g, h : concatKDF(a, b, c, d) = concatKDF(e, f, g, h) => a.id = e.id
  BY DEF concatKDF
<1> QED BY <1>1, <1>2, <1>3, <1>4, <1>5, <1>6, <1>7, <1>8

\* A wrapped key is what was wrapped, and no empty segment unless there was no key.
LEMMA WrappedParts ==
  ASSUME NEW kek, NEW cek
  PROVE  /\ Wrapped(kek, cek).kek = kek /\ Wrapped(kek, cek).cek = cek
         /\ kek # NoSecret => Wrapped(kek, cek) # Empty
<1>1. Wrapped(kek, cek).kek = kek /\ Wrapped(kek, cek).cek = cek /\ Empty.kek = NoSecret
  BY DEF Wrapped, Empty
<1> QED BY <1>1

-----------------------------------------------------------------------------
(* Keys that open                                                          *)

\* A body opens only for the holder of the key that it was sealed for, also with the encrypted
\* key of another token and under any header.
LEMMA OpenedBySender ==
  ASSUME NEW e \in Encrypters, NEW i, NEW f \in Encrypters, NEW j, NEW d \in Decrypters, NEW hdr,
         unwrap(d.key, hdr, wrap(e, i).ekey) # NoSecret,
         unwrap(d.key, hdr, wrap(e, i).ekey) = wrap(f, j).cek,
         i = j => e = f
  PROVE  f.key.id = d.key.id
<1> DEFINE ekey == wrap(e, i).ekey
           cek == wrap(f, j).cek
<1>1. \/ cek = Shared(f.key)
      \/ \E l : cek = Fresh(j, l)
      \/ \E m, l : cek = concatKDF(f.key, j, m, l)
  BY WrapFacts
<1>2. \/ ekey = Empty
      \/ \E l : ekey = Wrapped(Shared(e.key), Fresh(i, l))
      \/ \E m, l : ekey = Wrapped(concatKDF(e.key, i, m, 32), Fresh(i, l))
  BY WrapFacts
<1>0. unwrap(d.key, hdr, ekey) # NoSecret
  OBVIOUS
<1>3. d.key.kind \in {"dir", "kw", "rsa", "ec"}
  <2>1. ValidKey(d.key)
    BY JWEAssumption
  <2> QED BY <2>1 DEF ValidKey
<1>4. \/ unwrap(d.key, hdr, ekey) = Shared(d.key)
      \/ \E kek, len : /\ unwrap(d.key, hdr, ekey) = Opened(ekey, kek, len)
                       /\ kek = Shared(d.key) \/ \E a, b, c : kek = concatKDF(d.key, a, b, c)
      \/ \E a, b, c : unwrap(d.key, hdr, ekey) = concatKDF(d.key, a, b, c)
  <2> HIDE DEF ekey
  <2>1. CASE d.key.kind = "dir"
    BY <1>0, <2>1 DEF unwrap, unwrapDirect
  <2>2. CASE d.key.kind = "kw"
    BY <2>2 DEF unwrap, unwrapAESKW
  <2>3. CASE d.key.kind = "rsa"
    BY <2>3 DEF unwrap, unwrapRSAOAEP
  <2>4. CASE d.key.kind = "ec"
    BY <1>0, <2>4 DEF unwrap, unwrapECDH
  <2> QED BY <1>3, <2>1, <2>2, <2>3, <2>4
<1> HIDE DEF ekey, cek
<1>5. CASE unwrap(d.key, hdr, ekey) = Shared(d.key)
  BY <1>1, <1>5, Terms DEF ekey, cek
<1>6. ASSUME NEW a, NEW b, NEW c, unwrap(d.key, hdr, ekey) = concatKDF(d.key, a, b, c)
      PROVE  f.key.id = d.key.id
  BY <1>1, <1>6, Terms DEF ekey, cek
<1>7. ASSUME NEW kek, NEW len, unwrap(d.key, hdr, ekey) = Opened(ekey, kek, len),
             kek = Shared(d.key) \/ \E a, b, c : kek = concatKDF(d.key, a, b, c)
      PROVE  f.key.id = d.key.id
  <2>1. ekey # Empty /\ ekey.kek = kek /\ ekey.cek = cek
    BY <1>7 DEF Opened, ekey, cek
  <2>2. \/ \E l : kek = Shared(e.key) /\ cek = Fresh(i, l)
        \/ \E m, l : kek = concatKDF(e.key, i, m, 32) /\ cek = Fresh(i, l)
    BY <1>2, <2>1, WrappedParts
  <2>3. i = j
    BY <1>1, <2>2, Terms
  <2>4. e.key.id = d.key.id
    BY <1>7, <2>2, Terms
  <2> QED BY <2>3, <2>4
<1> QED BY <1>4, <1>5, <1>6, <1>7 DEF ekey, cek

\* The holder of the key recovers the content key of a token as it was sent.
LEMMA RecipientUnwraps ==
  ASSUME NEW e \in Encrypters, NEW d \in Decrypters, e.key.id = d.key.id, NEW n \in Nat \ {0},
         NEW hdr, hdr.alg = e.alg, hdr.enc = e.enc, hdr.epk = wrap(e, n).epk
  PROVE  /\ supports(d.key, hdr.alg)
         /\ unwrap(d.key, hdr, wrap(e, n).ekey) = wrap(e, n).cek
         /\ wrap(e, n).cek # NoSecret
<1> DEFINE len == contentKeyLen(e.enc)
           w == wrap(e, n)
<1>1. d.key = e.key
  BY JWEAssumption
<1>2. Fresh(n, len).len = len
  BY DEF Fresh
<1>3. CASE /\ e.key.kind = "dir" /\ e.alg = "dir" /\ e.key.len = len
           /\ w = [cek |-> Shared(e.key), ekey |-> Empty, epk |-> 0]
  <2>1. w.cek = Shared(e.key) /\ w.ekey = Empty
    BY <1>3
  <2> HIDE DEF w
  <2>2. unwrap(d.key, hdr, w.ekey) = Shared(e.key)
    BY <1>1, <1>3, <2>1 DEF unwrap, unwrapDirect
  <2>3. supports(d.key, hdr.alg)
    BY <1>1, <1>3 DEF supports
  <2> QED BY <2>1, <2>2, <2>3, Terms DEF w
<1>4. CASE /\ \/ e.key.kind = "kw" /\ e.alg = "A256KW"
              \/ e.key.kind = "rsa" /\ e.alg = "RSA-OAEP-256"
           /\ w = [cek |-> Fresh(n, len), ekey |-> Wrapped(Shared(e.key), Fresh(n, len)), epk |-> 0]
  <2>1. w.cek = Fresh(n, len) /\ w.ekey = Wrapped(Shared(e.key), Fresh(n, len))
    BY <1>4
  <2> HIDE DEF w, len
  <2>2. Opened(w.ekey, Shared(e.key), len) = Fresh(n, len)
    BY <1>2, <2>1, Terms, WrappedParts DEF Opened
  <2>3. unwrap(d.key, hdr, w.ekey) = Opened(w.ekey, Shared(e.key), len)
    BY <1>1, <1>4 DEF unwrap, unwrapAESKW, unwrapRSAOAEP, len
  <2>4. supports(d.key, hdr.alg)
    BY <1>1, <1>4 DEF supports
  <2> QED BY <2>1, <2>2, <2>3, <2>4, Terms DEF w
<1>5. CASE /\ e.key.kind = "ec" /\ e.alg = "ECDH-ES"
           /\ w = [cek |-> concatKDF(e.key, n, e.enc, len), ekey |-> Empty, epk |-> n]
  <2>1. w.cek = concatKDF(e.key, n, e.enc, len) /\ w.ekey = Empty /\ w.epk = n
    BY <1>5
  <2> HIDE DEF w
  <2>2. unwrap(d.key, hdr, w.ekey) = concatKDF(e.key, n, e.enc, len)
    BY <1>1, <1>5, <2>1 DEF unwrap, unwrapECDH, AlgorithmID, w
  <2>3. supports(d.key, hdr.alg)
    BY <1>1, <1>5 DEF supports
  <2> QED BY <2>1, <2>2, <2>3, Terms DEF w
<1>6. CASE /\ e.key.kind = "ec" /\ e.alg = "ECDH-ES+A256KW"
           /\ w = [cek |-> Fresh(n, len),
                   ekey |-> Wrapped(concatKDF(e.key, n, e.alg, 32), Fresh(n, len)), epk |-> n]
  <2>1. /\ w.cek = Fresh(n, len) /\ w.epk = n
        /\ w.ekey = Wrapped(concatKDF(e.key, n, e.alg, 32), Fresh(n, len))
    BY <1>6
  <2>2. hdr.epk = n
    BY <2>1
  <2> HIDE DEF w, len
  <2>3. Opened(w.ekey, concatKDF(e.key, n, e.alg, 32), len) = Fresh(n, len)
    BY <1>2, <2>1, Terms, WrappedParts DEF Opened
  <2>4. unwrap(d.key, hdr, w.ekey) = Opened(w.ekey, concatKDF(e.key, n, e.alg, 32), len)
    BY <1>1, <1>6, <2>2 DEF unwrap, unwrapECDH, AlgorithmID, len
  <2>5. supports(d.key, hdr.alg)
    BY <1>1, <1>6 DEF supports
  <2> QED BY <2>1, <2>3, <2>4, <2>5, Terms DEF w
<1> QED BY <1>3, <1>4, <1>5, <1>6, WrapFacts

-----------------------------------------------------------------------------
(* The inductive invariant                                                 *)

\* Everything sent was made by encrypt, as the number it has.
SentInv ==
  /\ \E S : sent \in Seq(S)
  /\ \A i \in DOMAIN sent :
       \E e, kind, value, typ, cty, op :
         /\ e \in Encrypters
         /\ Sealable(kind, value, cty, op)
         /\ sent[i] = Made(i, e, kind, value, typ, cty, op)

\* What arrived is put together of what was sent.
Assembled(tok, s) ==
  /\ tok.hdr.form \in {"ok", "bad", "crit"}
  /\ \E i, j \in DOMAIN s : tok.ekey = s[i].ekey /\ tok.body = s[j].body

\* The errors that say something about the token or the recipient's key.
ErrOK(q) ==
  /\ q.err = {"ErrDecryptionFailed"} => ~Decrypts(q.tok, q.dec)
  /\ q.err = {"ErrMalformedToken"} /\ q.op = "nested" =>
       \/ ~typeMatches(q.tok.hdr.cty, JWT)
       \/ q.tok.body.plain.kind # "jws"
       \/ q.tok.body.plain.value.defects # {}

\* Claims that were accepted at a time.
ClaimsOK(cl, typ, cfg, at) ==
  /\ cl.defects \cap ClaimDefects = {}
  /\ validateClaims([cl EXCEPT !.typ = typ], cfg, at) = {}

\* What is known of a plaintext that is handed over.
HandedOK(q, pol) ==
  LET plain == q.tok.body.plain IN
  /\ Decrypts(q.tok, q.dec) /\ policyError(q.tok, q.dec, pol.jwe) = {}
  /\ \/ /\ q.op = "claims" /\ plain.kind # "jws"
        /\ ClaimsOK(plain.value, q.tok.hdr.typ, pol.jwe, q.at)
     \/ /\ q.op = "nested" /\ plain.kind = "jws"
        /\ precheck(plain.value, pol.jws) = {}
        /\ \E k \in DOMAIN Keyring : keyError(Keyring[k], plain.value, pol.jws.algs) = {}
        /\ ClaimsOK(plain.value, plain.value.typ, pol.jws, q.at)

\* What a call q with the destination v knows under a policy, of the sent tokens s.
KnownOK(q, v, pol, s) ==
  /\ q.pc \in {"idle", "decrypt", "claims", "inner", "returned"}
  /\ q.pc # "idle" => /\ DOMAIN q = {"pc", "op", "tok", "dec", "err", "at"}
                      /\ q.op \in {"claims", "nested"} /\ q.dec \in Decrypters
                      /\ q.at \in Int /\ Assembled(q.tok, s)
  /\ q.pc \in {"decrypt", "claims", "inner"} => policyError(q.tok, q.dec, pol.jwe) = {}
  /\ q.pc \in {"claims", "inner"} => Decrypts(q.tok, q.dec)
  /\ q.pc = "claims" => q.op = "claims"
  /\ q.pc = "inner" => /\ q.op = "nested" /\ q.tok.body.plain.kind = "jws"
                       /\ precheck(q.tok.body.plain.value, pol.jws) = {}
  /\ q.pc = "returned" => ErrOK(q)
  /\ q.pc = "returned" /\ q.err = {} => HandedOK(q, pol) /\ v = q.tok.body.plain
  /\ ~(q.pc = "returned" /\ q.err = {}) => v = Old

Inv ==
  /\ clock \in Int /\ policy \in Policies
  /\ DOMAIN call = Calls /\ DOMAIN dst = Calls
  /\ SentInv
  /\ \A c \in Calls : KnownOK(call[c], dst[c], policy, sent)

-----------------------------------------------------------------------------
(* The invariant holds                                                     *)

\* The parts of what was sent.
LEMMA MadeParts ==
  ASSUME NEW n, NEW e, NEW kind, NEW value, NEW typ, NEW cty, NEW op
  PROVE  LET m == Made(n, e, kind, value, typ, cty, op) IN
         /\ m.ekey = wrap(e, n).ekey /\ m.by = e.key.id /\ m.op = op
         /\ m.body.cek = wrap(e, n).cek /\ m.body.aad = m.hdr
         /\ m.body.plain.kind = kind /\ m.body.plain.value = value
         /\ m.hdr.alg = e.alg /\ m.hdr.enc = e.enc /\ m.hdr.epk = wrap(e, n).epk
         /\ m.hdr.cty = cty /\ m.hdr.form = "ok" /\ "form" \in DOMAIN m.hdr
BY DEF Made

\* One element more at the end.
LEMMA AppendParts ==
  ASSUME NEW S, NEW s \in Seq(S), NEW m
  PROVE  /\ Append(s, m) \in Seq(S \cup {m})
         /\ Len(s) \in Nat /\ Len(s) + 1 \notin DOMAIN s
         /\ DOMAIN Append(s, m) = DOMAIN s \cup {Len(s) + 1}
         /\ Append(s, m)[Len(s) + 1] = m
         /\ \A i \in DOMAIN s : Append(s, m)[i] = s[i]
<1>1. s \in Seq(S \cup {m})
  OBVIOUS
<1> QED BY <1>1

\* A token more does not take anything away from what a call knows.
LEMMA KnownAfterAppend ==
  ASSUME NEW s, NEW t, DOMAIN s \subseteq DOMAIN t, \A i \in DOMAIN s : t[i] = s[i],
         NEW q, NEW v, NEW pol, KnownOK(q, v, pol, s)
  PROVE  KnownOK(q, v, pol, t)
<1>1. q.pc # "idle" => Assembled(q.tok, t)
  <2>1. q.pc # "idle" => Assembled(q.tok, s)
    BY DEF KnownOK
  <2> QED BY <2>1 DEF Assembled
<1> QED BY <1>1 DEF KnownOK

\* A token more is sent.
LEMMA EncryptInv ==
  ASSUME Inv, NEW e \in Encrypters, NEW kind, NEW value, NEW opt, NEW op,
         Sealable(kind, value, opt.cty, op), encrypt(e, kind, value, opt, op)
  PROVE  Inv'
<1> DEFINE n == Len(sent) + 1
           m == Made(n, e, kind, value, opt.typ, opt.cty, op)
<1>1. sent' = Append(sent, m) /\ UNCHANGED <<clock, policy, call, dst>>
  BY DEF encrypt, Made
<1> HIDE DEF m
<1>2. /\ \E S : sent' \in Seq(S)
      /\ DOMAIN sent' = DOMAIN sent \cup {n} /\ sent'[n] = m
      /\ \A i \in DOMAIN sent : sent'[i] = sent[i]
  <2>1. PICK S : sent \in Seq(S)
    BY DEF Inv, SentInv
  <2>2. /\ Append(sent, m) \in Seq(S \cup {m})
        /\ DOMAIN Append(sent, m) = DOMAIN sent \cup {n} /\ Append(sent, m)[n] = m
        /\ \A i \in DOMAIN sent : Append(sent, m)[i] = sent[i]
    BY <2>1, AppendParts
  <2> QED BY <1>1, <2>2
<1> HIDE DEF n
<1>3. SentInv'
  <2>1. ASSUME NEW i \in DOMAIN sent'
        PROVE  \E f, kin, val, typ, cty, o :
                 f \in Encrypters /\ Sealable(kin, val, cty, o) /\ sent'[i] = Made(i, f, kin, val, typ, cty, o)
    <3>1. CASE i = n
      BY <1>2, <3>1 DEF m
    <3>2. CASE i # n
      <4>1. i \in DOMAIN sent /\ sent'[i] = sent[i]
        BY <1>2, <3>2
      <4> QED BY <4>1 DEF Inv, SentInv
    <3> QED BY <3>1, <3>2
  <2> QED BY <1>2, <2>1 DEF SentInv
<1>4. ASSUME NEW c \in Calls PROVE KnownOK(call[c], dst[c], policy, sent')
  <2>1. KnownOK(call[c], dst[c], policy, sent)
    BY DEF Inv
  <2> QED BY <1>2, <2>1, KnownAfterAppend
<1> QED BY <1>1, <1>3, <1>4 DEF Inv

\* What arrives is put together of what was sent.
LEMMA ArrivingAssembled == ASSUME Inv, NEW tok \in Arriving PROVE Assembled(tok, sent)
<1> DEFINE Forms == {"ok", "bad", "crit"}
<1>1. ASSUME NEW i \in DOMAIN sent, NEW h, h.form \in Forms, NEW f, tok = Like(i, h, f)
      PROVE  Assembled(tok, sent)
  BY <1>1 DEF Assembled, Like
<1>2. ASSUME NEW i \in DOMAIN sent, NEW j \in DOMAIN sent, NEW h, h.form \in Forms,
             tok = [Like(i, h, "ok") EXCEPT !.body = sent[j].body]
      PROVE  Assembled(tok, sent)
  BY <1>2 DEF Assembled, Like
<1>3. \A i \in DOMAIN sent : sent[i].hdr.form = "ok" /\ "form" \in DOMAIN sent[i].hdr
  <2> SUFFICES ASSUME NEW i \in DOMAIN sent
               PROVE  sent[i].hdr.form = "ok" /\ "form" \in DOMAIN sent[i].hdr
    OBVIOUS
  <2>1. PICK e, kind, value, typ, cty, op :
          e \in Encrypters /\ sent[i] = Made(i, e, kind, value, typ, cty, op)
    BY DEF Inv, SentInv
  <2> QED BY <2>1, MadeParts
<1>4. \A i \in DOMAIN sent : \A h \in Changed(sent[i].hdr) : h.form \in Forms
  BY <1>3 DEF Changed
<1>5. \A h \in Headers : h.form \in Forms
  BY <1>3 DEF Headers
<1> HIDE DEF Forms
<1>6. \A i \in DOMAIN sent : sent[i].hdr.form \in Forms
  BY <1>3 DEF Forms
<1>7. \/ tok \in {Like(i, sent[i].hdr, sent[i].form) : i \in DOMAIN sent}
      \/ tok \in {Like(i, sent[i].hdr, f) : i \in DOMAIN sent, f \in {"segments", "seg64"}}
      \/ tok \in UNION {{Like(i, h, "ok") : h \in Changed(sent[i].hdr)} : i \in DOMAIN sent}
      \/ tok \in {[Like(i, h, "ok") EXCEPT !.body = sent[j].body] :
                    i, j \in DOMAIN sent, h \in Headers}
  BY DEF Arriving
<1>8. CASE tok \in {Like(i, sent[i].hdr, sent[i].form) : i \in DOMAIN sent}
  BY <1>1, <1>6, <1>8
<1>9. CASE tok \in {Like(i, sent[i].hdr, f) : i \in DOMAIN sent, f \in {"segments", "seg64"}}
  BY <1>1, <1>6, <1>9
<1>10. CASE tok \in UNION {{Like(i, h, "ok") : h \in Changed(sent[i].hdr)} : i \in DOMAIN sent}
  BY <1>1, <1>4, <1>10
<1>11. CASE tok \in {[Like(i, h, "ok") EXCEPT !.body = sent[j].body] :
                       i, j \in DOMAIN sent, h \in Headers}
  BY <1>2, <1>5, <1>11
<1> QED BY <1>7, <1>8, <1>9, <1>10, <1>11

\* A step of one call keeps the invariant if what the call then knows is true.
LEMMA CallStep ==
  ASSUME Inv, NEW c \in Calls,
         DOMAIN call' = Calls, DOMAIN dst' = Calls,
         \A b \in Calls : b # c => call'[b] = call[b] /\ dst'[b] = dst[b],
         UNCHANGED <<clock, policy, sent>>,
         KnownOK(call'[c], dst'[c], policy, sent)
  PROVE  Inv'
<1>1. SentInv'
  BY DEF Inv, SentInv
<1>2. ASSUME NEW b \in Calls PROVE KnownOK(call'[b], dst'[b], policy', sent')
  BY DEF Inv
<1> QED BY <1>1, <1>2 DEF Inv

\* A call that fails leaves its destination alone.
LEMMA FailInv ==
  ASSUME Inv, NEW c \in Calls, call[c].pc \in {"decrypt", "claims", "inner"}, NEW err, err # {},
         Fail(c, err), UNCHANGED <<clock, policy, sent>>, ErrOK(Returned(c, err))
  PROVE  Inv'
<1> DEFINE q == Returned(c, err)
<1>1. KnownOK(call[c], dst[c], policy, sent) /\ clock \in Int
  BY DEF Inv
<1>2. dst[c] = Old
  BY <1>1 DEF KnownOK
<1>3. /\ DOMAIN call' = Calls /\ DOMAIN dst' = Calls /\ call'[c] = q /\ dst'[c] = Old
      /\ \A b \in Calls : b # c => call'[b] = call[b] /\ dst'[b] = dst[b]
  BY <1>2 DEF Fail, Inv
<1>4. /\ q.pc = "returned" /\ q.op = call[c].op /\ q.tok = call[c].tok /\ q.dec = call[c].dec
      /\ q.err = err /\ q.at = clock /\ DOMAIN q = {"pc", "op", "tok", "dec", "err", "at"}
  BY DEF Returned
<1>5. ErrOK(q)
  OBVIOUS
<1> HIDE DEF q
<1>6. KnownOK(q, Old, policy, sent)
  BY <1>1, <1>4, <1>5 DEF KnownOK
<1> QED BY <1>3, <1>6, CallStep

\* A call that accepts hands the plaintext over.
LEMMA AcceptInv ==
  ASSUME Inv, NEW c \in Calls, call[c].pc \in {"claims", "inner"},
         Accept(c), UNCHANGED <<clock, policy, sent>>, HandedOK(Returned(c, {}), policy)
  PROVE  Inv'
<1> DEFINE q == Returned(c, {})
           v == call[c].tok.body.plain
<1>1. KnownOK(call[c], dst[c], policy, sent) /\ clock \in Int
  BY DEF Inv
<1>2. /\ DOMAIN call' = Calls /\ DOMAIN dst' = Calls /\ call'[c] = q /\ dst'[c] = v
      /\ \A b \in Calls : b # c => call'[b] = call[b] /\ dst'[b] = dst[b]
  BY DEF Accept, Inv
<1>3. /\ q.pc = "returned" /\ q.op = call[c].op /\ q.tok = call[c].tok /\ q.dec = call[c].dec
      /\ q.err = {} /\ q.at = clock /\ DOMAIN q = {"pc", "op", "tok", "dec", "err", "at"}
  BY DEF Returned
<1>4. HandedOK(q, policy)
  OBVIOUS
<1> HIDE DEF q
<1>5. ErrOK(q)
  BY <1>3 DEF ErrOK
<1>6. KnownOK(q, v, policy, sent)
  BY <1>1, <1>3, <1>4, <1>5 DEF KnownOK
<1> QED BY <1>2, <1>6, CallStep

\* A call that goes on.
LEMMA ContinueInv ==
  ASSUME Inv, NEW c \in Calls, call[c].pc = "decrypt", Decrypts(call[c].tok, call[c].dec),
         NEW pc, Continue(c, pc), UNCHANGED <<clock, policy, sent>>,
         \/ pc = "claims" /\ call[c].op = "claims"
         \/ /\ pc = "inner" /\ call[c].op = "nested" /\ call[c].tok.body.plain.kind = "jws"
            /\ precheck(call[c].tok.body.plain.value, policy.jws) = {}
  PROVE  Inv'
<1> DEFINE q == [call[c] EXCEPT !.pc = pc]
<1>1. KnownOK(call[c], dst[c], policy, sent)
  BY DEF Inv
<1>2. DOMAIN call[c] = {"pc", "op", "tok", "dec", "err", "at"} /\ dst[c] = Old
  BY <1>1 DEF KnownOK
<1>3. /\ DOMAIN call' = Calls /\ DOMAIN dst' = Calls /\ call'[c] = q /\ dst'[c] = Old
      /\ \A b \in Calls : b # c => call'[b] = call[b] /\ dst'[b] = dst[b]
  BY <1>2 DEF Continue, Inv
<1>4. /\ q.pc = pc /\ q.op = call[c].op /\ q.tok = call[c].tok /\ q.dec = call[c].dec
      /\ q.at = call[c].at /\ DOMAIN q = {"pc", "op", "tok", "dec", "err", "at"}
  BY <1>2
<1> HIDE DEF q
<1>5. KnownOK(q, Old, policy, sent)
  BY <1>1, <1>4 DEF KnownOK
<1> QED BY <1>3, <1>5, CallStep

\* Whatever the policy refuses as undecryptable, the Decrypter would refuse too.
LEMMA PolicyErrors ==
  ASSUME NEW tok, NEW d, NEW cfg
  PROVE  /\ policyError(tok, d, cfg) = {"ErrDecryptionFailed"} => ~Decrypts(tok, d)
         /\ policyError(tok, d, cfg) # {"ErrMalformedToken"}
<1>1. parseJWEProtected(tok) \in {{}, {"ErrDecryptionFailed"}, {"ErrUnsupportedCritical"}}
  BY DEF parseJWEProtected
<1> QED BY <1>1 DEF policyError, Decrypts

\* A call begins.
LEMMA BeginInv ==
  ASSUME Inv, NEW c \in Calls, NEW op \in {"claims", "nested"}, NEW tok, Assembled(tok, sent),
         NEW d \in Decrypters, Begin(c, op, tok, d)
  PROVE  Inv'
<1> DEFINE err == policyError(tok, d, policy.jwe)
           q == [pc |-> IF err = {} THEN "decrypt" ELSE "returned", op |-> op, tok |-> tok,
                 dec |-> d, err |-> err, at |-> clock]
<1>1. KnownOK(call[c], dst[c], policy, sent) /\ clock \in Int /\ call[c].pc = "idle"
  BY DEF Inv, Begin
<1>2. dst[c] = Old
  BY <1>1 DEF KnownOK
<1>3. /\ DOMAIN call' = Calls /\ DOMAIN dst' = Calls /\ call'[c] = q /\ dst'[c] = Old
      /\ \A b \in Calls : b # c => call'[b] = call[b] /\ dst'[b] = dst[b]
      /\ UNCHANGED <<clock, policy, sent>>
  BY <1>2 DEF Begin, Inv
<1>4. /\ q.pc = IF err = {} THEN "decrypt" ELSE "returned"
      /\ q.op = op /\ q.tok = tok /\ q.dec = d
      /\ q.err = err /\ q.at = clock /\ DOMAIN q = {"pc", "op", "tok", "dec", "err", "at"}
  OBVIOUS
<1> HIDE DEF q
<1>5. ErrOK(q)
  BY <1>4, PolicyErrors DEF ErrOK
<1>6. KnownOK(q, Old, policy, sent)
  BY <1>1, <1>4, <1>5 DEF KnownOK
<1> QED BY <1>3, <1>6, CallStep

\* An error that is neither of the two says nothing that needs to be shown.
LEMMA OtherError ==
  ASSUME NEW c, NEW err, Decrypts(call[c].tok, call[c].dec) => err # {"ErrDecryptionFailed"},
         \/ err # {"ErrMalformedToken"}
         \/ call[c].op # "nested"
         \/ ~typeMatches(call[c].tok.hdr.cty, JWT)
         \/ call[c].tok.body.plain.kind # "jws"
         \/ call[c].tok.body.plain.value.defects # {}
  PROVE  ErrOK(Returned(c, err))
<1> DEFINE q == Returned(c, err)
<1>1. q.op = call[c].op /\ q.tok = call[c].tok /\ q.dec = call[c].dec /\ q.err = err
  BY DEF Returned
<1> HIDE DEF q
<1>2. ErrOK(q)
  BY <1>1 DEF ErrOK
<1> QED BY <1>2 DEF q

\* The Decrypter answers.
LEMMA DecryptInv == ASSUME Inv, NEW c \in Calls, Decrypt(c) PROVE Inv'
<1> DEFINE tok == call[c].tok
           text == tok.body.plain
           inner == IF text.kind = "jws" THEN precheck(text.value, policy.jws)
                    ELSE precheck([defects |-> {"segments"}], policy.jws)
<1>0. call[c].pc = "decrypt" /\ UNCHANGED <<clock, policy, sent>>
  BY DEF Decrypt
<1>1. \/ ~Decrypts(tok, call[c].dec) /\ Fail(c, {"ErrDecryptionFailed"})
      \/ Decrypts(tok, call[c].dec) /\ call[c].op = "claims" /\ Continue(c, "claims")
      \/ ~typeMatches(tok.hdr.cty, JWT) /\ Fail(c, {"ErrMalformedToken"})
      \/ Fail(c, {"ErrTypeMismatch"})
      \/ inner # {} /\ Fail(c, inner)
      \/ /\ Decrypts(tok, call[c].dec) /\ call[c].op # "claims" /\ inner = {}
         /\ Continue(c, "inner")
  BY DEF Decrypt
<1>2. call[c].op \in {"claims", "nested"}
  BY <1>0 DEF Inv, KnownOK
<1>3. inner # {"ErrDecryptionFailed"}
  BY PrecheckErrors
<1>4. inner = {"ErrMalformedToken"} => text.kind # "jws" \/ text.value.defects # {}
  BY DEF precheck
<1>5. inner = {} => text.kind = "jws" /\ precheck(text.value, policy.jws) = {}
  <2>1. precheck([defects |-> {"segments"}], policy.jws) # {}
    BY DEF precheck
  <2> QED BY <2>1
<1> HIDE DEF inner
<1>6. CASE ~Decrypts(tok, call[c].dec) /\ Fail(c, {"ErrDecryptionFailed"})
  BY <1>0, <1>6, OtherError, FailInv
<1>7. CASE Decrypts(tok, call[c].dec) /\ call[c].op = "claims" /\ Continue(c, "claims")
  BY <1>0, <1>7, ContinueInv
<1>8. CASE ~typeMatches(tok.hdr.cty, JWT) /\ Fail(c, {"ErrMalformedToken"})
  BY <1>0, <1>8, OtherError, FailInv
<1>9. CASE Fail(c, {"ErrTypeMismatch"})
  BY <1>0, <1>9, OtherError, FailInv
<1>10. CASE inner # {} /\ Fail(c, inner)
  BY <1>0, <1>3, <1>4, <1>10, OtherError, FailInv
<1>11. CASE /\ Decrypts(tok, call[c].dec) /\ call[c].op # "claims" /\ inner = {}
            /\ Continue(c, "inner")
  BY <1>0, <1>2, <1>5, <1>11, ContinueInv
<1> QED BY <1>1, <1>6, <1>7, <1>8, <1>9, <1>10, <1>11

\* A Decrypter that fails ends the call and changes nothing else.
LEMMA DecrypterFailsInv == ASSUME Inv, NEW c \in Calls, DecrypterFails(c) PROVE Inv'
<1>1. call[c].pc = "decrypt" /\ Fail(c, {"backend"}) /\ UNCHANGED <<clock, policy, sent>>
  BY DEF DecrypterFails
<1>2. ErrOK(Returned(c, {"backend"}))
  BY OtherError
<1> QED BY <1>1, <1>2, FailInv

\* What checkClaims finds, and what it has established when it finds nothing.
LEMMA CheckedClaims ==
  ASSUME NEW cl, NEW typ, NEW cfg
  PROVE  LET err == checkClaims(cl, typ, cfg) IN
         /\ err # {"ErrDecryptionFailed"}
         /\ err = {"ErrMalformedToken"} => cl.defects # {}
         /\ err = {} => ClaimsOK(cl, typ, cfg, clock)
<1> DEFINE invalid == validateClaims([cl EXCEPT !.typ = typ], cfg, clock)
<1>1. invalid # {"ErrDecryptionFailed"} /\ invalid # {"ErrMalformedToken"}
  BY ClaimErrors
<1>2. ClaimsOK(cl, typ, cfg, clock) <=> cl.defects \cap ClaimDefects = {} /\ invalid = {}
  BY DEF ClaimsOK
<1>3. checkClaims(cl, typ, cfg) =
        IF cl.defects \cap {"payload", "types"} # {} THEN {"ErrMalformedToken"}
        ELSE IF invalid # {} THEN invalid
        ELSE IF "dst" \in cl.defects THEN {"ErrMalformedToken"}
        ELSE {}
  BY DEF checkClaims
<1> HIDE DEF invalid
<1> QED BY <1>1, <1>2, <1>3 DEF ClaimDefects

\* The rest of DecryptClaims.
LEMMA DecryptClaimsInv == ASSUME Inv, NEW c \in Calls, DecryptClaims(c) PROVE Inv'
<1> DEFINE tok == call[c].tok
           text == tok.body.plain
           err == IF text.kind = "jws" THEN {"ErrMalformedToken"}
                  ELSE checkClaims(text.value, tok.hdr.typ, policy.jwe)
<1>1. /\ call[c].pc = "claims" /\ UNCHANGED <<clock, policy, sent>>
      /\ IF err # {} THEN Fail(c, err) ELSE Accept(c)
  BY DEF DecryptClaims
<1>2. /\ call[c].op = "claims" /\ Decrypts(tok, call[c].dec)
      /\ policyError(tok, call[c].dec, policy.jwe) = {}
  BY <1>1 DEF Inv, KnownOK
<1>3. err # {"ErrDecryptionFailed"}
  BY CheckedClaims
<1>4. err = {} => text.kind # "jws" /\ ClaimsOK(text.value, tok.hdr.typ, policy.jwe, clock)
  BY CheckedClaims
<1> HIDE DEF err
<1>5. CASE err # {}
  BY <1>1, <1>2, <1>3, <1>5, OtherError, FailInv
<1>6. CASE err = {}
  <2> DEFINE q == Returned(c, {})
  <2>1. q.op = call[c].op /\ q.tok = tok /\ q.dec = call[c].dec /\ q.at = clock
    BY DEF Returned
  <2> HIDE DEF q
  <2>2. HandedOK(q, policy)
    BY <1>2, <1>4, <1>6, <2>1 DEF HandedOK
  <2> QED BY <1>1, <1>6, <2>2, AcceptInv DEF q
<1> QED BY <1>5, <1>6

\* The rest of DecryptNestedJWT.
LEMMA DecryptNestedJWTInv == ASSUME Inv, NEW c \in Calls, DecryptNestedJWT(c) PROVE Inv'
<1> DEFINE tok == call[c].tok.body.plain.value
           keys == LookupKey(tok.kid)
           refused == UNION {keyError(k, tok, policy.jws.algs) : k \in keys}
           claims == checkClaims(tok, tok.typ, policy.jws)
<1>1. /\ call[c].pc = "inner" /\ UNCHANGED <<clock, policy, sent>>
      /\ \/ Fail(c, {"ErrKeyNotFound"})
         \/ refused # {} /\ Fail(c, refused)
         \/ claims # {} /\ Fail(c, claims)
         \/ keys # {} /\ refused = {} /\ claims = {} /\ Accept(c)
  BY DEF DecryptNestedJWT, jwsPolicy
<1>2. /\ call[c].op = "nested" /\ Decrypts(call[c].tok, call[c].dec)
      /\ policyError(call[c].tok, call[c].dec, policy.jwe) = {}
      /\ call[c].tok.body.plain.kind = "jws" /\ precheck(tok, policy.jws) = {}
  BY <1>1 DEF Inv, KnownOK
<1>3. refused # {"ErrDecryptionFailed"} /\ refused # {"ErrMalformedToken"}
  <2>1. \A k : keyError(k, tok, policy.jws.algs) \cap {"ErrDecryptionFailed", "ErrMalformedToken"} = {}
    BY KeyErrorRange
  <2> QED BY <2>1
<1>4. /\ claims # {"ErrDecryptionFailed"}
      /\ claims = {"ErrMalformedToken"} => tok.defects # {}
      /\ claims = {} => ClaimsOK(tok, tok.typ, policy.jws, clock)
  BY CheckedClaims
<1>5. keys # {} /\ refused = {} =>
        \E k \in DOMAIN Keyring : keyError(Keyring[k], tok, policy.jws.algs) = {}
  <2> SUFFICES ASSUME keys # {}, refused = {}
               PROVE  \E k \in DOMAIN Keyring : keyError(Keyring[k], tok, policy.jws.algs) = {}
    OBVIOUS
  <2>1. PICK key \in keys : TRUE
    OBVIOUS
  <2>2. keyError(key, tok, policy.jws.algs) = {}
    OBVIOUS
  <2>3. \E k \in DOMAIN Keyring : key = Keyring[k]
    BY DEF LookupKey
  <2> QED BY <2>2, <2>3
<1> HIDE DEF refused, claims, keys
<1>6. CASE Fail(c, {"ErrKeyNotFound"})
  BY <1>1, <1>6, OtherError, FailInv
<1>7. CASE refused # {} /\ Fail(c, refused)
  BY <1>1, <1>3, <1>7, OtherError, FailInv
<1>8. CASE claims # {} /\ Fail(c, claims)
  BY <1>1, <1>4, <1>8, OtherError, FailInv
<1>9. CASE keys # {} /\ refused = {} /\ claims = {} /\ Accept(c)
  <2> DEFINE q == Returned(c, {})
  <2>1. q.op = call[c].op /\ q.tok = call[c].tok /\ q.dec = call[c].dec /\ q.at = clock
    BY DEF Returned
  <2> HIDE DEF q
  <2>2. HandedOK(q, policy)
    BY <1>2, <1>4, <1>5, <1>9, <2>1 DEF HandedOK
  <2> QED BY <1>1, <1>9, <2>2, AcceptInv DEF q
<1> QED BY <1>1, <1>6, <1>7, <1>8, <1>9

\* The caller is done with a call that has returned.
LEMMA FinishInv == ASSUME Inv, NEW c \in Calls, Finish(c) PROVE Inv'
<1>1. /\ DOMAIN call' = Calls /\ DOMAIN dst' = Calls /\ call'[c] = NoCall /\ dst'[c] = Old
      /\ \A b \in Calls : b # c => call'[b] = call[b] /\ dst'[b] = dst[b]
      /\ UNCHANGED <<clock, policy, sent>>
  BY DEF Finish, Inv
<1>2. KnownOK(NoCall, Old, policy, sent)
  BY DEF KnownOK, NoCall
<1> QED BY <1>1, <1>2, CallStep

\* Time passes while calls are under way.
LEMMA TickInv == ASSUME Inv, Tick PROVE Inv'
<1>1. clock' \in Int /\ UNCHANGED <<policy, sent, call, dst>>
  BY DEF Tick, Inv
<1>2. SentInv'
  BY <1>1 DEF Inv, SentInv
<1> QED BY <1>1, <1>2 DEF Inv

\* The senders.
LEMMA SendersInv ==
  ASSUME Inv, NEW e \in Encrypters, NEW opt \in Options,
         \/ \E cl \in Claims : EncryptClaims(e, cl, opt)
         \/ \E tok \in Tokens : EncryptNestedJWT(e, tok, opt)
         \/ \E tok \in Plaintexts : EncryptJWE(e, tok, opt)
  PROVE  Inv'
<1>1. ASSUME NEW cl \in Claims, EncryptClaims(e, cl, opt) PROVE Inv'
  <2>1. Sealable("claims", cl, opt.cty, "claims") /\ encrypt(e, "claims", cl, opt, "claims")
    BY <1>1 DEF EncryptClaims, Sealable
  <2> QED BY <2>1, EncryptInv
<1>2. ASSUME NEW tok \in Tokens, EncryptNestedJWT(e, tok, opt) PROVE Inv'
  <2> DEFINE o == [opt EXCEPT !.cty = JWT]
  <2>1. o.cty = JWT
    BY JWEAssumption
  <2>2. encrypt(e, "jws", tok, o, "nested")
    BY <1>2 DEF EncryptNestedJWT
  <2> HIDE DEF o
  <2>3. Sealable("jws", tok, o.cty, "nested")
    BY <2>1 DEF Sealable
  <2> QED BY <2>2, <2>3, EncryptInv
<1>3. ASSUME NEW tok \in Plaintexts, EncryptJWE(e, tok, opt) PROVE Inv'
  <2>1. Sealable("jws", tok, opt.cty, "jwe") /\ encrypt(e, "jws", tok, opt, "jwe")
    BY <1>3 DEF EncryptJWE, Sealable
  <2> QED BY <2>1, EncryptInv
<1> QED BY <1>1, <1>2, <1>3

\* Every step keeps the invariant.
LEMMA NextInv == ASSUME Inv, [Next]_vars PROVE Inv'
<1>1. ASSUME NEW e \in Encrypters, NEW opt \in Options,
             \/ \E cl \in Claims : EncryptClaims(e, cl, opt)
             \/ \E tok \in Tokens : EncryptNestedJWT(e, tok, opt)
             \/ \E tok \in Plaintexts : EncryptJWE(e, tok, opt)
      PROVE  Inv'
  BY <1>1, SendersInv
<1>2. ASSUME NEW c \in Calls, NEW op \in {"claims", "nested"}, NEW tok \in Arriving,
             NEW d \in Decrypters, Begin(c, op, tok, d)
      PROVE  Inv'
  BY <1>2, ArrivingAssembled, BeginInv
<1>3. ASSUME NEW c \in Calls, Decrypt(c) PROVE Inv'
  BY <1>3, DecryptInv
<1>4. ASSUME NEW c \in Calls, DecrypterFails(c) PROVE Inv'
  BY <1>4, DecrypterFailsInv
<1>5. ASSUME NEW c \in Calls, DecryptClaims(c) PROVE Inv'
  BY <1>5, DecryptClaimsInv
<1>6. ASSUME NEW c \in Calls, DecryptNestedJWT(c) PROVE Inv'
  BY <1>6, DecryptNestedJWTInv
<1>7. ASSUME NEW c \in Calls, Finish(c) PROVE Inv'
  BY <1>7, FinishInv
<1>8. CASE Tick
  BY <1>8, TickInv
<1>9. CASE UNCHANGED vars
  <2>1. UNCHANGED <<clock, policy, sent, call, dst>>
    BY <1>9 DEF vars
  <2>2. SentInv'
    BY <2>1 DEF Inv, SentInv
  <2> QED BY <2>1, <2>2 DEF Inv
<1> QED BY <1>1, <1>2, <1>3, <1>4, <1>5, <1>6, <1>7, <1>8, <1>9 DEF Next

\* Nothing has been sent and no call has begun.
LEMMA InitInv == Init => Inv
<1> SUFFICES ASSUME Init PROVE Inv
  OBVIOUS
<1>1. SentInv
  <2>1. sent \in Seq({})
    BY DEF Init
  <2> QED BY <2>1 DEF SentInv, Init
<1>2. ASSUME NEW c \in Calls PROVE KnownOK(call[c], dst[c], policy, sent)
  BY DEF Init, KnownOK, NoCall
<1> QED BY <1>1, <1>2 DEF Init, Inv

\* The inductive invariant: what was sent was made by encrypt, what a call works on is put
\* together of sent parts, and what a call has got to says which checks have passed.
THEOREM InvHolds == Spec => []Inv
BY InitInv, NextInv, PTL DEF Spec

-----------------------------------------------------------------------------
(* What follows                                                            *)

\* What passes the policy.
LEMMA PolicyPassed ==
  ASSUME NEW tok, NEW d, NEW cfg, policyError(tok, d, cfg) = {}
  PROVE  /\ tok.hdr.alg \in withoutNone(cfg.keyAlgs) /\ tok.hdr.enc \in withoutNone(cfg.encs)
         /\ parseJWEProtected(tok) = {} /\ ~kidMismatch(tok, d)
BY DEF policyError

\* A token that decrypts has the header and the body of one sent token, which was made for
\* the key of the Decrypter: no mixture of parts of several tokens does.
LEMMA DecryptsWhatWasSent ==
  ASSUME Inv, NEW tok, Assembled(tok, sent), NEW d \in Decrypters, Decrypts(tok, d)
  PROVE  \E j \in DOMAIN sent :
           sent[j].hdr = tok.hdr /\ sent[j].body = tok.body /\ sent[j].by = d.key.id
<1>1. PICK i \in DOMAIN sent, j \in DOMAIN sent : tok.ekey = sent[i].ekey /\ tok.body = sent[j].body
  BY DEF Assembled
<1> DEFINE cek == unwrap(d.key, tok.hdr, tok.ekey)
<1>2. cek # NoSecret /\ tok.body.cek = cek /\ tok.body.aad = tok.hdr
  BY DEF Decrypts, Open
<1>3. PICK f, kind, value, typ, cty, op :
        f \in Encrypters /\ sent[j] = Made(j, f, kind, value, typ, cty, op)
  BY DEF Inv, SentInv
<1>4. /\ sent[j].by = f.key.id /\ sent[j].body.cek = wrap(f, j).cek
      /\ sent[j].body.aad = sent[j].hdr /\ sent[j].ekey = wrap(f, j).ekey
  BY <1>3, MadeParts
<1>5. \E e \in Encrypters : sent[i].ekey = wrap(e, i).ekey /\ (i = j => e = f)
  <2>1. CASE i = j
    BY <1>3, <1>4, <2>1
  <2>2. CASE i # j
    <3>1. PICK e, k, v, ty, ct, o :
            e \in Encrypters /\ sent[i] = Made(i, e, k, v, ty, ct, o)
      BY DEF Inv, SentInv
    <3>2. sent[i].ekey = wrap(e, i).ekey
      BY <3>1, MadeParts
    <3> QED BY <2>2, <3>1, <3>2
  <2> QED BY <2>1, <2>2
<1>6. PICK e \in Encrypters : sent[i].ekey = wrap(e, i).ekey /\ (i = j => e = f)
  BY <1>5
<1>7. /\ unwrap(d.key, tok.hdr, wrap(e, i).ekey) = wrap(f, j).cek
      /\ unwrap(d.key, tok.hdr, wrap(e, i).ekey) # NoSecret /\ (i = j => e = f)
  BY <1>1, <1>2, <1>4, <1>6
<1>8. f.key.id = d.key.id
  BY <1>3, <1>7, OpenedBySender
<1> QED BY <1>1, <1>2, <1>4, <1>8

\* A plaintext that was handed over is a claims set or a token, without defects and in time.
LEMMA HandedSound ==
  ASSUME Inv, NEW q, HandedOK(q, policy), q.at \in Int, NEW plain, plain = q.tok.body.plain,
         NEW j \in DOMAIN sent, sent[j].body.plain = plain
  PROVE  LET cfg == IF plain.kind = "jws" THEN policy.jws ELSE policy.jwe IN
         /\ plain.value.defects = {}
         /\ cfg.audience # "" => cfg.audience \in plain.value.aud
         /\ plain.value.exp # None => q.at < plain.value.exp + cfg.leeway
<1> DEFINE cl == plain.value
<1>1. PICK e, kind, value, typ, cty, op :
        e \in Encrypters /\ Sealable(kind, value, cty, op) /\ sent[j] = Made(j, e, kind, value, typ, cty, op)
  BY DEF Inv, SentInv
<1>2. plain.kind = kind /\ cl = value
  BY <1>1, MadeParts
<1>3. /\ HasClaims(cl)
      /\ IF plain.kind = "jws" THEN cl.defects \subseteq JWSDefects \cup ClaimDefects
         ELSE cl.defects \subseteq ClaimDefects
  BY <1>1, <1>2, JWEAssumption DEF Sealable
<1>4. policy.jwe.leeway \in Nat /\ policy.jws.leeway \in Nat
  BY JWEAssumption DEF Inv
<1>5. ASSUME NEW ty, NEW cfg, cfg.leeway \in Nat, ClaimsOK(cl, ty, cfg, q.at)
      PROVE  /\ cl.defects \cap ClaimDefects = {}
             /\ cfg.audience # "" => cfg.audience \in cl.aud
             /\ cl.exp # None => q.at < cl.exp + cfg.leeway
  <2> DEFINE x == [cl EXCEPT !.typ = ty]
  <2>1. x.exp = cl.exp /\ x.nbf = cl.nbf /\ x.aud = cl.aud /\ {cl.exp, cl.nbf} \subseteq Int
    BY <1>3 DEF HasClaims
  <2>2. cl.defects \cap ClaimDefects = {} /\ validateClaims(x, cfg, q.at) = {}
    BY <1>5 DEF ClaimsOK
  <2> HIDE DEF x, cl
  <2>3. audienceOK(x.aud, cfg) /\ (x.exp # None => q.at < x.exp + cfg.leeway)
    BY <1>5, <2>1, <2>2, ClaimsPassed
  <2> QED BY <2>1, <2>2, <2>3 DEF audienceOK
<1>6. CASE q.op = "claims" /\ plain.kind # "jws" /\ ClaimsOK(cl, q.tok.hdr.typ, policy.jwe, q.at)
  BY <1>3, <1>4, <1>5, <1>6
<1>7. CASE /\ q.op = "nested" /\ plain.kind = "jws" /\ precheck(cl, policy.jws) = {}
           /\ ClaimsOK(cl, cl.typ, policy.jws, q.at)
  <2>1. cl.defects \cap JWSDefects = {}
    BY <1>7, PrecheckPassed DEF JWSDefects
  <2> QED BY <1>3, <1>4, <1>5, <1>7, <2>1
<1> QED BY <1>6, <1>7 DEF HandedOK

\* DstSound (decryptJWEWithPolicy, DecryptClaims, DecryptNestedJWT): whatever segments are
\* mixed and however the calls interleave, a destination holds only what one sender sealed for
\* the recipient's key under the header that the policy was applied to; a nested token was also
\* signed by a key of the provider; and its claims were good when the call returned.
THEOREM DestinationsAreSound == Spec => []DstSound
<1>1. ASSUME Inv, NEW c \in Calls, Accepted(c)
      PROVE  /\ HandedOK(call[c], policy) /\ dst[c] = call[c].tok.body.plain
             /\ call[c].at \in Int
             /\ \E j \in DOMAIN sent :
                  /\ sent[j].hdr = call[c].tok.hdr /\ sent[j].body.plain = dst[c]
                  /\ sent[j].by = call[c].dec.key.id
  <2>1. KnownOK(call[c], dst[c], policy, sent) /\ call[c].pc = "returned" /\ call[c].err = {}
    BY <1>1 DEF Inv, Accepted
  <2>2. /\ HandedOK(call[c], policy) /\ dst[c] = call[c].tok.body.plain
        /\ call[c].at \in Int /\ call[c].dec \in Decrypters /\ Assembled(call[c].tok, sent)
    BY <2>1 DEF KnownOK
  <2>3. Decrypts(call[c].tok, call[c].dec)
    BY <2>2 DEF HandedOK
  <2>4. PICK j \in DOMAIN sent : /\ sent[j].hdr = call[c].tok.hdr /\ sent[j].body = call[c].tok.body
                                 /\ sent[j].by = call[c].dec.key.id
    BY <1>1, <2>2, <2>3, DecryptsWhatWasSent
  <2> QED BY <2>2, <2>4
<1>2. ASSUME Inv, NEW c \in Calls, Accepted(c)
      PROVE  \E i \in DOMAIN sent :
               /\ sent[i].hdr = call[c].tok.hdr
               /\ sent[i].body.plain = dst[c]
               /\ sent[i].by = call[c].dec.key.id
               /\ sent[i].hdr.alg \in policy.jwe.keyAlgs
               /\ sent[i].hdr.enc \in policy.jwe.encs
  <2>1. policyError(call[c].tok, call[c].dec, policy.jwe) = {}
    BY <1>1, <1>2 DEF HandedOK
  <2>2. call[c].tok.hdr.alg \in policy.jwe.keyAlgs /\ call[c].tok.hdr.enc \in policy.jwe.encs
    BY <2>1, PolicyPassed DEF withoutNone
  <2> QED BY <1>1, <1>2, <2>2
<1>3. ASSUME Inv, NEW c \in Calls, Accepted(c), call[c].op = "nested"
      PROVE  /\ \E k \in DOMAIN Keyring : Keyring[k].id = dst[c].value.signer
             /\ dst[c].value.alg \in policy.jws.algs
             /\ sameAlgorithm(dst[c].value.scheme, dst[c].value.alg)
  <2> DEFINE tok == dst[c].value
  <2>1. HandedOK(call[c], policy) /\ dst[c] = call[c].tok.body.plain
    BY <1>1, <1>3
  <2>2. /\ precheck(tok, policy.jws) = {}
        /\ \E k \in DOMAIN Keyring : keyError(Keyring[k], tok, policy.jws.algs) = {}
    BY <1>3, <2>1 DEF HandedOK
  <2> HIDE DEF tok
  <2>3. tok.alg \in policy.jws.algs
    BY <2>2, PrecheckPassed DEF withoutNone
  <2>4. PICK k \in DOMAIN Keyring : keyError(Keyring[k], tok, policy.jws.algs) = {}
    BY <2>2
  <2>5. Verify(Keyring[k], tok.alg, tok) = {}
    BY <2>4, KeyPassed
  <2>6. tok.signer = Keyring[k].id /\ sameAlgorithm(tok.scheme, tok.alg)
    BY <2>5 DEF Verify
  <2> QED BY <2>3, <2>6 DEF tok
<1>4. ASSUME Inv, NEW c \in Calls, dst[c] # Old
      PROVE  Accepted(c)
  <2>1. KnownOK(call[c], dst[c], policy, sent)
    BY <1>4 DEF Inv
  <2> QED BY <1>4, <2>1 DEF KnownOK, Accepted
<1>5. ASSUME Inv, NEW c \in Calls, dst[c] # Old
      PROVE  LET cfg == IF dst[c].kind = "jws" THEN policy.jws ELSE policy.jwe IN
             /\ dst[c].value.defects = {}
             /\ cfg.audience # "" => cfg.audience \in dst[c].value.aud
             /\ dst[c].value.exp # None => call[c].at < dst[c].value.exp + cfg.leeway
  BY <1>1, <1>4, <1>5, HandedSound
<1>6. Inv => DstSound
  BY <1>2, <1>3, <1>5 DEF DstSound
<1> QED BY <1>6, InvHolds, PTL

\* DecrypterShielded (decryptJWEWithPolicy): no Decrypter, a caller's own included, is asked
\* about a token that the allowlists, "crit" or the kid rule out.
THEOREM DecryptersShielded == Spec => []DecrypterShielded
<1>1. ASSUME Inv, NEW c \in Calls, call[c].pc = "decrypt"
      PROVE  /\ call[c].tok.hdr.alg \in policy.jwe.keyAlgs \ {"", "none"}
             /\ call[c].tok.hdr.enc \in policy.jwe.encs \ {"", "none"}
             /\ call[c].tok.hdr.form = "ok"
             /\ call[c].dec.kid \in {"", call[c].tok.hdr.kid} \/ call[c].tok.hdr.kid = ""
  <2> DEFINE tok == call[c].tok
             d == call[c].dec
  <2>1. policyError(tok, d, policy.jwe) = {} /\ Assembled(tok, sent)
    BY <1>1 DEF Inv, KnownOK
  <2>2. tok.hdr.form \in {"ok", "bad", "crit"}
    BY <2>1 DEF Assembled
  <2> HIDE DEF tok, d
  <2>3. /\ tok.hdr.alg \in withoutNone(policy.jwe.keyAlgs)
        /\ tok.hdr.enc \in withoutNone(policy.jwe.encs)
        /\ parseJWEProtected(tok) = {} /\ ~kidMismatch(tok, d)
    BY <2>1, PolicyPassed
  <2>4. tok.hdr.form = "ok"
    BY <2>2, <2>3 DEF parseJWEProtected
  <2> QED BY <2>3, <2>4 DEF withoutNone, kidMismatch, tok, d
<1>2. Inv => DecrypterShielded
  BY <1>1 DEF DecrypterShielded
<1> QED BY <1>2, InvHolds, PTL

\* RoundTrip (encrypter.encrypt, decrypter.Decrypt, the wrappers and unwrappers): a token that
\* arrives as it was sent, at a Decrypter with its key, is not refused by the Decrypter, for
\* every algorithm, and what EncryptNestedJWT took is not malformed to DecryptNestedJWT.
THEOREM SentCanBeDecrypted == Spec => []RoundTrip
<1>1. ASSUME Inv, NEW c \in Calls, NEW i \in DOMAIN sent, call[c].pc = "returned",
             call[c].tok = [hdr |-> sent[i].hdr, ekey |-> sent[i].ekey, body |-> sent[i].body,
                            form |-> "ok"],
             call[c].dec.key.id = sent[i].by, ~kidMismatch(call[c].tok, call[c].dec)
      PROVE  /\ call[c].err # {"ErrDecryptionFailed"}
             /\ /\ sent[i].op = "nested" /\ call[c].op = "nested"
                /\ sent[i].body.plain.value.defects = {}
                => call[c].err # {"ErrMalformedToken"}
  <2> DEFINE tok == call[c].tok
             d == call[c].dec
  <2>1. /\ tok.hdr = sent[i].hdr /\ tok.ekey = sent[i].ekey /\ tok.body = sent[i].body
        /\ tok.form = "ok"
    BY <1>1
  <2>2. ErrOK(call[c]) /\ d \in Decrypters
    BY <1>1 DEF Inv, KnownOK
  <2>3. PICK e, kind, value, typ, cty, op :
          e \in Encrypters /\ Sealable(kind, value, cty, op) /\ sent[i] = Made(i, e, kind, value, typ, cty, op)
    BY <1>1 DEF Inv, SentInv
  <2>4. /\ sent[i].ekey = wrap(e, i).ekey /\ sent[i].by = e.key.id /\ sent[i].op = op
        /\ sent[i].body.cek = wrap(e, i).cek /\ sent[i].body.aad = sent[i].hdr
        /\ sent[i].body.plain.kind = kind
        /\ sent[i].hdr.alg = e.alg /\ sent[i].hdr.enc = e.enc /\ sent[i].hdr.epk = wrap(e, i).epk
        /\ sent[i].hdr.cty = cty /\ sent[i].hdr.form = "ok"
    BY <2>3, MadeParts
  <2>5. i \in Nat \ {0}
    <3>1. PICK S : sent \in Seq(S)
      BY <1>1 DEF Inv, SentInv
    <3> QED BY <1>1, <3>1
  <2>6. contentKeyLen(e.enc) # 0
    BY <2>3, JWEAssumption DEF newEncrypter
  <2> HIDE DEF tok, d
  <2>7. /\ supports(d.key, tok.hdr.alg)
        /\ unwrap(d.key, tok.hdr, wrap(e, i).ekey) = wrap(e, i).cek /\ wrap(e, i).cek # NoSecret
    <3>1. e.key.id = d.key.id /\ tok.hdr.alg = e.alg /\ tok.hdr.enc = e.enc
      BY <1>1, <2>1, <2>4 DEF d
    <3>2. tok.hdr.epk = wrap(e, i).epk
      BY <2>1, <2>4
    <3> QED BY <2>2, <2>3, <2>5, <3>1, <3>2, RecipientUnwraps
  <2>8. parseJWEProtected(tok) = {}
    BY <2>1, <2>4 DEF parseJWEProtected
  <2>9. Open(unwrap(d.key, tok.hdr, tok.ekey), tok.hdr, tok.body)
    BY <2>1, <2>4, <2>7 DEF Open
  <2>10. Decrypts(tok, d)
    BY <1>1, <2>1, <2>4, <2>6, <2>7, <2>8, <2>9 DEF Decrypts, tok, d
  <2>11. sent[i].op = "nested" => kind = "jws" /\ cty = JWT
    BY <2>3, <2>4 DEF Sealable
  <2>12. typeMatches(JWT, JWT)
    BY DEF typeMatches, JWT, NoType
  <2> QED BY <2>1, <2>2, <2>4, <2>10, <2>11, <2>12 DEF ErrOK, tok, d
<1>2. Inv => RoundTrip
  BY <1>1 DEF RoundTrip
<1> QED BY <1>2, InvHolds, PTL
=============================================================================
