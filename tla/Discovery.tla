------------------------------ MODULE Discovery ------------------------------
(***************************************************************************)
(* Fetching in keyfetch.go: DiscoverJWKSURI and then the JWKS of the URI   *)
(* it found, over a web whose servers answer, redirect or fail.  A step is *)
(* one exchange with one server: getCapped and the redirect policy of      *)
(* safeHTTPClient run between two of them.                                 *)
(*                                                                         *)
(* A URL is a record of scheme, host and path; a host belongs to a kind,   *)
(* which is all that defaultURLPolicy looks at.                            *)
(***************************************************************************)
EXTENDS Integers, Sequences, SequencesExt

CONSTANTS Issuers,       \* issuer identifiers: [url, slash, extra]
          Webs,          \* the webs to check: URL -> response, in their domain
          HostKind,      \* host -> "public", "local", "ip", "userinfo" or "none"
          Allowed,       \* the hosts that a caller's own URLPolicy accepts
          CacheHeaders,  \* the Cache-Control directives a JWKS may come with
          MaxRedirects,  \* maxRedirects
          MaxVia,        \* bound on the redirects a caller's own policy follows
          MaxDuration    \* the largest time.Duration, in seconds

ASSUME DiscoveryAssumption ==
  /\ MaxRedirects \in Nat \ {0} /\ MaxVia \in Nat /\ MaxRedirects <= MaxVia
  /\ MaxDuration \in Nat
  /\ CacheHeaders \subseteq Seq([name : STRING, valid : BOOLEAN, secs : Nat])

VARIABLES web,       \* what each server answers
          setup,     \* [policy, ownRedirects]: the caller's URLPolicy and CheckRedirect
          get,       \* the exchange in progress
          found,     \* what discovery returned, and the document it read (ghost)
          keys,      \* the JWKS fetched: whose keys, from where, how long fresh
          dialled    \* (ghost) the URLs requests were sent to

fetching == <<web, setup, get, found, keys, dialled>>

NoGet == [pc |-> "idle"]
NoDoc == [uri |-> "none"]
NoKeys == [owner |-> "none"]

FetchInit ==
  /\ web \in Webs
  /\ setup \in [policy : {"default", "allowlist"}, ownRedirects : BOOLEAN]
  /\ get = NoGet
  /\ found = NoDoc
  /\ keys = NoKeys
  /\ dialled = {}

-----------------------------------------------------------------------------
(* URL policy                                                              *)

validateHTTPSURL(u) == u.scheme = "https" /\ u.host # ""

defaultURLPolicy(u) == HostKind[u.host] = "public"

selectURLPolicy(u) ==
  IF setup.policy = "default" THEN defaultURLPolicy(u) ELSE u.host \in Allowed

validateURL(u) == validateHTTPSURL(u) /\ selectURLPolicy(u)

\* Mutant: redirects are checked for HTTPS only.
CheckRedirect_HTTPSOnly(to, via) ==
  validateHTTPSURL(to) /\ (setup.ownRedirects \/ via < MaxRedirects)

\* The redirect policy of safeHTTPClient after via requests; a caller's own
\* CheckRedirect replaces the limit and is asked last.
CheckRedirect(to, via) ==
  validateURL(to) /\ (setup.ownRedirects \/ via < MaxRedirects)

-----------------------------------------------------------------------------
(* Cache-Control                                                           *)

\* Invalid values count as zero, large ones saturate.
parseDeltaSeconds(v) ==
  IF ~v.valid THEN 0 ELSE IF v.secs > MaxDuration THEN MaxDuration ELSE v.secs

\* Mutant: of several max-age directives the last one counts.
maxAgeValue_Last(count, v) == parseDeltaSeconds(v)

\* The first max-age gives the value; a repeated one makes it zero.
maxAgeValue(count, v) == IF count = 1 THEN parseDeltaSeconds(v) ELSE 0

\* One round of the loop.  A directive is [name, valid, secs]; names other than these
\* three are ignored.
readDirective(out, d) ==
  CASE d.name = "no-cache" -> [out EXCEPT !.noCache = TRUE]
    [] d.name = "no-store" -> [out EXCEPT !.noStore = TRUE]
    [] d.name = "max-age" -> [out EXCEPT !.count = @ + 1, !.hasMaxAge = TRUE,
                                         !.maxAge = maxAgeValue(out.count + 1, d)]
    [] OTHER -> out

NothingRead ==
  [noCache |-> FALSE, noStore |-> FALSE, hasMaxAge |-> FALSE, maxAge |-> 0, count |-> 0]

\* read[n]: what the first n directives leave.
parseCacheControl(directives) ==
  LET read[n \in 0..Len(directives)] ==
        IF n = 0 THEN NothingRead ELSE readDirective(read[n-1], directives[n])
  IN read[Len(directives)]

-----------------------------------------------------------------------------
(* Requests                                                                *)

\* getCapped: the URL is checked, then the first request is sent.
getCapped(u, what, issuer) ==
  IF validateURL(u)
  THEN /\ get' = [pc |-> "sent", url |-> u, via |-> 1, what |-> what, issuer |-> issuer]
       /\ dialled' = dialled \cup {u}
  ELSE /\ get' = [pc |-> "failed", what |-> what]
       /\ UNCHANGED dialled

\* Without a terminating slash, plus the well-known path.
discoveryURI(issuer) == [issuer.url EXCEPT !.path = "well-known"]

\* DiscoverJWKSURI up to its request.
DiscoverJWKSURI(issuer) ==
  /\ get = NoGet /\ found = NoDoc
  /\ IF issuer.extra \/ ~validateURL(issuer.url)
     THEN get' = [pc |-> "failed", what |-> "discovery"] /\ UNCHANGED dialled
     ELSE getCapped(discoveryURI(issuer), "discovery", issuer)
  /\ UNCHANGED <<web, setup, found, keys>>

\* A KeyFetcher for the discovered URI fetches it.
FetchJWKS ==
  /\ get = NoGet /\ found # NoDoc /\ keys = NoKeys
  /\ getCapped(found.uri, "jwks", found.issuer)
  /\ UNCHANGED <<web, setup, found, keys>>

Answer == web[get.url]

\* The server redirects.  A caller's own CheckRedirect may refuse, and the model
\* bounds how long it does not.
Redirected ==
  /\ get.pc = "sent" /\ get.url \in DOMAIN web /\ Answer.kind = "redirect"
  /\ \/ /\ CheckRedirect(Answer.to, get.via)
        /\ get.via < MaxVia
        /\ get' = [get EXCEPT !.url = Answer.to, !.via = @ + 1]
        /\ dialled' = dialled \cup {Answer.to}
     \/ /\ ~CheckRedirect(Answer.to, get.via) \/ setup.ownRedirects
        /\ get' = [pc |-> "failed", what |-> get.what]
        /\ UNCHANGED dialled
  /\ UNCHANGED <<web, setup, found, keys>>

\* Network failure, timeout, another status than 200, or too large a body.
RequestFails ==
  /\ get.pc = "sent"
  /\ get' = [pc |-> "failed", what |-> get.what]
  /\ UNCHANGED <<web, setup, found, keys, dialled>>

\* Mutant: issuers are compared without their terminating slash.
sameIssuer_Trimmed(doc, issuer) == doc.url = issuer.url

\* The document's issuer must be identical to the one asked for.
sameIssuer(doc, issuer) == doc = issuer

\* The rest of DiscoverJWKSURI.  A document of another kind does not decode, or
\* has no issuer.
DocumentArrives ==
  /\ get.pc = "sent" /\ get.what = "discovery"
  /\ get.url \in DOMAIN web /\ Answer.kind # "redirect"
  /\ LET ok == /\ Answer.kind = "document"
               /\ sameIssuer(Answer.issuer, get.issuer)
               /\ Answer.uri.host # "" /\ validateURL(Answer.uri)
     IN IF ok THEN /\ get' = NoGet
                   /\ found' = [uri |-> Answer.uri, issuer |-> get.issuer, doc |-> Answer]
        ELSE /\ get' = [pc |-> "failed", what |-> "discovery"]
             /\ UNCHANGED found
  /\ UNCHANGED <<web, setup, keys, dialled>>

\* fetchJWKS; the set is whatever keys the server publishes.
KeysArrive(directives) ==
  /\ get.pc = "sent" /\ get.what = "jwks"
  /\ get.url \in DOMAIN web /\ Answer.kind # "redirect"
  /\ IF Answer.kind = "jwks"
     THEN /\ get' = NoGet
          /\ keys' = [owner |-> Answer.owner, issuer |-> get.issuer, directives |-> directives,
                      cache |-> parseCacheControl(directives)]
     ELSE /\ get' = [pc |-> "failed", what |-> "jwks"]
          /\ UNCHANGED keys
  /\ UNCHANGED <<web, setup, found, dialled>>

\* The caller sees ErrKeyFetch and may try again.
GiveUp ==
  /\ get.pc = "failed"
  /\ get' = NoGet
  /\ UNCHANGED <<web, setup, found, keys, dialled>>

FetchNext ==
  \/ \E issuer \in Issuers : DiscoverJWKSURI(issuer)
  \/ FetchJWKS
  \/ Redirected
  \/ RequestFails
  \/ DocumentArrives
  \/ \E directives \in CacheHeaders : KeysArrive(directives)
  \/ GiveUp

-----------------------------------------------------------------------------
(* Properties                                                              *)

\* No request is ever sent, first or redirected, for a document or for keys, to a
\* URL that is not https or that the URL policy refuses, whatever servers answer; and
\* servers that redirect in circles are left: without a redirect policy of the caller's
\* own, one document costs at most maxRedirects requests.
EveryHopVetted ==
  /\ \A u \in dialled :
       /\ u.scheme = "https"
       /\ IF setup.policy = "default" THEN HostKind[u.host] = "public" ELSE u.host \in Allowed
  /\ get.pc = "sent" /\ ~setup.ownRedirects => get.via <= MaxRedirects

\* Whatever directives come, in whatever order and number, a JWKS is kept fresh no
\* longer than every max-age it came with says, and not at all when one of them is
\* invalid or contradicted; no-store and no-cache are never overridden.
CacheNeverLonger ==
  keys # NoKeys =>
    LET ds == ToSet(keys.directives)
        ages == {d \in ds : d.name = "max-age"}
    IN /\ \A d \in ages : keys.cache.maxAge <= IF d.valid THEN d.secs ELSE 0
       /\ keys.cache.maxAge \in 0..MaxDuration
       /\ keys.cache.hasMaxAge = (ages # {})
       /\ keys.cache.noStore = (\E d \in ds : d.name = "no-store")
       /\ keys.cache.noCache = (\E d \in ds : d.name = "no-cache")
=============================================================================
