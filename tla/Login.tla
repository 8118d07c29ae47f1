-------------------------------- MODULE Login --------------------------------
(***************************************************************************)
(* A relying party as README.md and examples/verify_idtoken show it: it    *)
(* discovers an issuer's keys, sends users to the provider with a nonce    *)
(* each, and accepts a login when Parse and ValidateIDTokenForContext both *)
(* accept the ID token that comes back.  Tokens come back at any session,  *)
(* in any order and more than once.                                        *)
(***************************************************************************)
EXTENDS Discovery, IDToken

CONSTANTS Sessions,    \* the login attempts
          Context,     \* session -> its IDTokenValidationContext
          IDTokens     \* the tokens that may come back: [claims, signer]

\* "aud" decodes to a list of strings.
ASSUME LoginAssumption == \A tok \in IDTokens : tok.claims.aud \in Seq(STRING)

VARIABLE login         \* per session: waiting, refused, or the token accepted

vars == <<fetching, login>>

Waiting == [state |-> "waiting"]

Init == FetchInit /\ login = [s \in Sessions |-> Waiting]

\* Parse with the fetched keys, WithIssuer, WithAudience and WithRequiredClaims:
\* the token is signed by one of the keys and names the issuer they were fetched
\* for.  The order is that of validateClaims; times are left to Middleware.tla.
ParseError(tok, client) ==
  IF tok.signer # keys.owner THEN {"ErrInvalidSignature"}
  ELSE IF tok.claims.iss # keys.issuer.name THEN {"ErrIssuerMismatch"}
  ELSE IF ~Contains(tok.claims.aud, client) THEN {"ErrAudienceMismatch"}
  ELSE IF tok.claims.sub = "" \/ ~tok.claims.exp \/ ~tok.claims.iat THEN {"ErrMissingClaim"}
  ELSE {}

\* A token comes back for session s.
Callback(s, tok) ==
  /\ keys # NoKeys
  /\ login[s].state # "accepted"
  /\ LET bad == ParseError(tok, Context[s].client)
         err == IF bad # {} THEN bad ELSE ValidateIDTokenForContext(tok.claims, Context[s])
     IN login' = [login EXCEPT ![s] =
                    IF err = {} THEN [state |-> "accepted", tok |-> tok]
                    ELSE [state |-> "refused", err |-> err]]
  /\ UNCHANGED fetching

Next ==
  \/ FetchNext /\ UNCHANGED login
  \/ \E s \in Sessions, tok \in IDTokens : Callback(s, tok)

Spec == Init /\ [][Next]_vars

-----------------------------------------------------------------------------
(* Properties                                                              *)

AcceptedAt(s) == login[s].state = "accepted"

\* An accepted ID token is for this login and no other.  It is for this client alone, or
\* for it and audiences it trusts with the client as the authorized party; what its hash
\* claims are about is the access token and the code that the session received; and no
\* token that logged in one session logs in another one that expects its own nonce.
MeantForThisLogin ==
  \A s \in Sessions :
    AcceptedAt(s) =>
      LET c == login[s].tok.claims
          v == Context[s]
      IN /\ v.client \in ToSet(c.aud) /\ ToSet(c.aud) \subseteq {v.client} \cup v.trusted
         /\ Len(c.aud) > 1 => c.azp = v.client
         /\ c.azp \in {"", v.client}
         /\ c.at_hash # NoHash => c.at_hash.of = v.access
         /\ c.c_hash # NoHash => c.c_hash.of = v.code
         /\ \A t \in Sessions :
              /\ AcceptedAt(t) /\ login[t].tok = login[s].tok
              /\ v.requireNonce /\ Context[t].requireNonce
              => v.nonce = Context[t].nonce

\* From the issuer to the user, with no mix-up on the way: an accepted token was
\* signed with the keys that a document of exactly its own issuer names, although
\* another issuer shares the well-known URL and any server may redirect.
ChainOfTrust ==
  \A s \in Sessions :
    AcceptedAt(s) => /\ found.doc.issuer.name = login[s].tok.claims.iss
                     /\ login[s].tok.signer = keys.owner
=============================================================================
