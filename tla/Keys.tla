-------------------------------- MODULE Keys --------------------------------
(***************************************************************************)
(* From the bytes of a private key to a signer (keyparse.go, alg.go) and to*)
(* the JWK under which its signatures are verified (key.go).               *)
(*                                                                         *)
(* An encoded key is a record of                                           *)
(*   format      which parser it is handed to                              *)
(*   kty, grade  as for a key of Parse.tla                                 *)
(*   priv, pub   its two halves: they belong together when they are equal  *)
(*   defect      what is wrong with the encoding, or ""                    *)
(* A parsed private key has the fields kty, grade, priv and pub.           *)
(***************************************************************************)
EXTENDS Parse, Sequences

BadKey == [kty |-> "error", grade |-> 0, priv |-> "", pub |-> ""]
Parsed(b) == [kty |-> b.kty, grade |-> b.grade, priv |-> b.priv, pub |-> b.pub]
\* The public half is computed from the private one, whatever came with it.
Derived(b) == [Parsed(b) EXCEPT !.pub = b.priv]
Consistent(b) == b.priv = b.pub

\* The DER parsers of crypto/x509 (external) behind ParsePKCS8PrivateKey,
\* ParsePKCS1PrivateKey and ParseSEC1ECPrivateKey: an RSA key is validated.
parseDER(b, ktys) ==
  IF b.defect # "" \/ b.kty \notin ktys \/ (b.kty = "RSA" /\ ~Consistent(b)) THEN BadKey
  ELSE Derived(b)

\* The magic, the framing, no encryption, one key and equal check integers; then
\* parseOpenSSHKeyBody, which recomputes the public half of every key but an Ed25519 one.
ParseOpenSSHPrivateKey(b) ==
  IF \/ b.defect \in {"magic", "truncated", "encrypted", "count", "check", "length", "curve", "point"}
     \/ b.kty \notin {"RSA", "EC", "OKP"}
     \/ b.kty \in {"RSA", "EC"} /\ ~Consistent(b)
  THEN BadKey ELSE Parsed(b)

\* One parser per format: nothing is detected.
parsePrivateKey(b) ==
  CASE b.format = "PKCS8" -> parseDER(b, {"RSA", "EC", "OKP"})
    [] b.format = "PKCS1" -> parseDER(b, {"RSA"})
    [] b.format = "SEC1" -> parseDER(b, {"EC"})
    [] b.format = "seed" -> IF b.defect = "length" THEN BadKey ELSE Derived(b)
    [] b.format = "expanded" ->
         IF b.defect = "length" \/ ~Consistent(b) THEN BadKey ELSE Parsed(b)
    [] b.format = "OpenSSH" -> ParseOpenSSHPrivateKey(b)
    [] b.format \in {"secret", "struct"} -> Parsed(b)   \* bytes, or a key the caller assembled

-----------------------------------------------------------------------------
(* Signers                                                                 *)

NewHMACSigner(alg, k) ==
  IF alg \notin FamilyHMAC THEN {"ErrUnsupportedAlgorithm"}
  ELSE IF k.grade < Family[alg].grade THEN {"ErrWeakKey"}
  ELSE {}

NewECDSASigner(alg, k) ==
  IF alg \notin FamilyECDSA THEN {"ErrUnsupportedAlgorithm"}
  ELSE IF k.grade = 0 THEN {"ErrMalformedKey"}
  ELSE IF k.grade # Family[alg].grade THEN {"ErrKeyTypeMismatch"}
  ELSE IF ~Consistent(k) THEN {"ErrMalformedKey"}
  ELSE {}

\* Mutant: the largest size is left to the verifier.
NewRSAPSSSigner_AnySize(alg, k) ==
  IF alg \notin FamilyRSAPSS THEN {"ErrUnsupportedAlgorithm"}
  ELSE IF k.grade = 0 THEN {"ErrMalformedKey"}
  ELSE IF k.grade < Family[alg].grade THEN {"ErrWeakKey"}
  ELSE IF ~Consistent(k) THEN {"ErrMalformedKey"}
  ELSE {}

NewRSAPSSSigner(alg, k) ==
  IF alg \notin FamilyRSAPSS THEN {"ErrUnsupportedAlgorithm"}
  ELSE IF k.grade = 0 THEN {"ErrMalformedKey"}
  ELSE IF k.grade < Family[alg].grade THEN {"ErrWeakKey"}
  ELSE IF k.grade > MaxRSA \/ ~Consistent(k) THEN {"ErrMalformedKey"}
  ELSE {}

NewEd25519Signer(k) == IF k.grade = 0 THEN {"ErrMalformedKey"} ELSE {}

\* The constructor that takes a key of this Go type; Ed25519 is not asked for by name.
signerError(alg, k) ==
  CASE k.kty = "oct" -> NewHMACSigner(alg, k)
    [] k.kty = "EC" -> NewECDSASigner(alg, k)
    [] k.kty = "RSA" -> NewRSAPSSSigner(alg, k)
    [] k.kty = "OKP" -> NewEd25519Signer(k)

\* A signature of an Ed25519 key binds both halves: one made from two keys verifies
\* under neither.
signerFor(alg, k, kid) ==
  [alg |-> IF k.kty = "OKP" THEN "Ed25519" ELSE alg, kid |-> kid, fails |-> FALSE,
   by |-> IF Consistent(k) THEN k.pub ELSE "neither"]

-----------------------------------------------------------------------------
(* JWKs                                                                    *)

\* FromRSAPublicKey, FromECDSAPublicKey, FromEd25519PublicKey and FromHMACSecret.
FromPublicKey(k, kid) ==
  [kty |-> k.kty, kid |-> kid, use |-> "", key_ops |-> <<>>, alg |-> "",
   id |-> k.pub, grade |-> k.grade]

\* The registered operations, by the use they are consistent with.
OpClass == [sign |-> "sig", verify |-> "sig", encrypt |-> "enc", decrypt |-> "enc",
            wrapKey |-> "enc", unwrapKey |-> "enc", deriveKey |-> "derive",
            deriveBits |-> "derive"]
classOf(op) == IF op \in DOMAIN OpClass THEN OpClass[op] ELSE "other"

\* The rules about "key_ops" and the size; the ones about octets concern other encodings
\* than the one MarshalJSON gives a key.
checkCanonical(k) ==
  LET classes == {classOf(k.key_ops[i]) : i \in DOMAIN k.key_ops} IN
  /\ \A i, j \in DOMAIN k.key_ops : i # j => k.key_ops[i] # k.key_ops[j]
  /\ k.use = "sig" => classes \subseteq {"sig"}
  /\ k.use = "enc" => classes \subseteq {"enc", "derive"}
  /\ Cardinality(classes \ {"other"}) <= 1
  /\ k.kty = "RSA" => k.grade <= MaxRSA

\* MarshalJSON, then UnmarshalJSON by whoever fetches it: a symmetric key is not served.
CanServe(k) == k.kty # "oct" /\ checkCanonical(k)

\* The key as Parse.tla has it.
asKey(k) == [kid |-> k.kid, kty |-> k.kty, alg |-> k.alg, use |-> k.use,
             ops |-> {k.key_ops[i] : i \in DOMAIN k.key_ops}, id |-> k.id, grade |-> k.grade]
=============================================================================
