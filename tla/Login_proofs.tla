---------------------------- MODULE Login_proofs ----------------------------
(***************************************************************************)
(* Proofs about Login and the Discovery it rests on, for any issuers, webs *)
(* of servers, URL policies, sessions and tokens.                          *)
(*                                                                         *)
(* The argument: discovery ends once, with a document that names the       *)
(* issuer asked for, and the keys are fetched once, for that issuer, after *)
(* it (TrustInv); so the keys under which a login was accepted are still   *)
(* the keys, and what was checked then is true for ever (LoginInv).        *)
(***************************************************************************)
EXTENDS Login, WellFoundedInduction, TLAPS

-----------------------------------------------------------------------------
(* What the checks of idtoken.go establish                                 *)

\* ValidateIDTokenForContext accepts only what each of its checks accepts.
LEMMA ContextPassed ==
  ASSUME NEW c, NEW v, ValidateIDTokenForContext(c, v) = {}
  PROVE  /\ audienceError(c, v) = {}
         /\ nonceError(c, v) = {}
         /\ validateOIDCHash(c.at_hash, v.access, v.alg) = {}
         /\ validateOIDCHash(c.c_hash, v.code, v.alg) = {}
<1> DEFINE errs == <<ValidateIDTokenClaims(c),
                     IF v.client = "" THEN {"ErrInvalidClaim"} ELSE {},
                     audienceError(c, v), nonceError(c, v),
                     validateOIDCHash(c.at_hash, v.access, v.alg),
                     validateOIDCHash(c.c_hash, v.code, v.alg)>>
           real == {i \in 1..6 : errs[i] # {}}
<1>1. IF real = {} THEN TRUE ELSE errs[CHOOSE i \in real : \A j \in real : i <= j] = {}
  BY DEF ValidateIDTokenForContext
<1>2. ASSUME real # {} PROVE \E i \in real : \A j \in real : i <= j
  <2> HIDE DEF errs
  <2> QED BY <1>2
<1>3. ASSUME real # {} PROVE FALSE
  <2> DEFINE first == CHOOSE i \in real : \A j \in real : i <= j
  <2>1. first \in real
    <3> HIDE DEF real
    <3> QED BY <1>2, <1>3
  <2>2. errs[first] = {}
    BY <1>1, <1>3
  <2> HIDE DEF first, errs
  <2> QED BY <2>1, <2>2
<1>4. \A i \in 1..6 : errs[i] = {}
  <2> HIDE DEF errs
  <2> QED BY <1>3
<1>5. errs[3] = {} /\ errs[4] = {} /\ errs[5] = {} /\ errs[6] = {}
  <2> HIDE DEF errs
  <2> QED BY <1>4
<1> QED BY <1>5

\* A hash claim that is accepted is about the value the session holds.
LEMMA HashPassed ==
  ASSUME NEW claim, NEW value, NEW alg, validateOIDCHash(claim, value, alg) = {}, claim # NoHash
  PROVE  claim.of = value
<1>1. claim = [hash |-> oidcHashAlgorithm(alg), of |-> value]
  BY DEF validateOIDCHash
<1> QED BY <1>1

-----------------------------------------------------------------------------
(***************************************************************************)
(* The loop of parseCacheControl, by induction on the directives read.     *)
(***************************************************************************)

\* A set of naturals that has 0 and with each number its successor has them all.
LEMMA SetOfNaturals ==
  ASSUME NEW S \in SUBSET Nat, 0 \in S, \A n \in S : n + 1 \in S
  PROVE  S = Nat
<1> SUFFICES ASSUME Nat \ S # {} PROVE FALSE
  OBVIOUS
<1> DEFINE Less == OpToRel(<, Nat)
           Rest == Nat \ S
<1>1. IsWellFoundedOn(Less, Nat)
  BY NatLessThanWellFounded
<1>2. \A x, y \in Nat : x < y => <<x, y>> \in Less
  BY DEF OpToRel
<1> HIDE DEF Less
<1>3. PICK x \in Rest : \A y \in Rest : ~ (<<y, x>> \in Less)
  BY <1>1, WFMin
<1>4. x \in Nat /\ x # 0 /\ x - 1 \in Nat /\ x - 1 < x /\ x - 1 + 1 = x /\ x \notin S
  OBVIOUS
<1>5. x - 1 \in Rest
  BY <1>4
<1> QED BY <1>2, <1>3, <1>4, <1>5

Directive == [name : STRING, valid : BOOLEAN, secs : Nat]
Directives == Seq(Directive)

\* g is what the loop holds after each of the first n directives.
Reading(ds, n, g) ==
  g = [i \in 0..n |-> IF i = 0 THEN NothingRead ELSE readDirective(g[i-1], ds[i])]

\* The loop runs over directives of any number.
LEMMA ReadingExists ==
  ASSUME NEW ds \in Directives
  PROVE  \E g : Reading(ds, Len(ds), g)
<1> DEFINE S == {n \in Nat : \E g : Reading(ds, n, g)}
<1>1. 0 \in S
  <2>1. Reading(ds, 0, [i \in 0..0 |-> NothingRead])
    BY DEF Reading
  <2> QED BY <2>1
<1>2. ASSUME NEW n \in S PROVE n + 1 \in S
  <2>1. PICK g : Reading(ds, n, g)
    OBVIOUS
  <2> DEFINE h == [i \in 0..(n+1) |-> IF i = n + 1 THEN readDirective(g[n], ds[n+1]) ELSE g[i]]
  <2>2. n \in Nat /\ \A i \in 0..n : g[i] = IF i = 0 THEN NothingRead ELSE readDirective(g[i-1], ds[i])
    BY <2>1 DEF Reading
  <2>3. \A i \in 0..(n+1) : h[i] = IF i = 0 THEN NothingRead ELSE readDirective(h[i-1], ds[i])
    BY <2>2
  <2>4. Reading(ds, n + 1, h)
    BY <2>2, <2>3 DEF Reading
  <2> HIDE DEF h
  <2> QED BY <2>2, <2>4
<1>3. S = Nat
  <2> HIDE DEF S
  <2>1. S \in SUBSET Nat
    BY DEF S
  <2> QED BY <1>1, <1>2, <2>1, SetOfNaturals
<1>4. Len(ds) \in Nat
  BY DEF Directives
<1> QED BY <1>3, <1>4

\* parseCacheControl is the last of those.
LEMMA ReadingResult ==
  ASSUME NEW ds \in Directives
  PROVE  \E g : Reading(ds, Len(ds), g) /\ parseCacheControl(ds) = g[Len(ds)]
<1>1. PICK g : Reading(ds, Len(ds), g) /\ g = CHOOSE f : Reading(ds, Len(ds), f)
  BY ReadingExists
<1>2. parseCacheControl(ds) = g[Len(ds)]
  BY <1>1 DEF parseCacheControl, Reading
<1> QED BY <1>1, <1>2

Named(ds, n, name) == \E i \in 1..n : ds[i].name = name
Says(d) == IF d.valid THEN d.secs ELSE 0

CacheControl ==
  [noCache : BOOLEAN, noStore : BOOLEAN, hasMaxAge : BOOLEAN, maxAge : Nat, count : Nat]

\* What the first n directives leave, said without a loop.
Summary(ds, n, out) ==
  /\ out \in CacheControl
  /\ out.maxAge <= MaxDuration
  /\ out.noCache = TRUE <=> Named(ds, n, "no-cache")
  /\ out.noStore = TRUE <=> Named(ds, n, "no-store")
  /\ out.hasMaxAge = TRUE <=> Named(ds, n, "max-age")
  /\ out.count = 0 <=> ~Named(ds, n, "max-age")
  /\ \A i \in 1..n : ds[i].name = "max-age" => out.maxAge <= Says(ds[i])

\* One more directive.
LEMMA SummaryStep ==
  ASSUME NEW ds \in Directives, NEW n \in Nat, n + 1 <= Len(ds), NEW out, Summary(ds, n, out)
  PROVE  Summary(ds, n + 1, readDirective(out, ds[n+1]))
<1> DEFINE d == ds[n+1]
           new == readDirective(out, d)
<1>0. Len(ds) \in Nat /\ \A i \in 1..Len(ds) : ds[i] \in Directive
  BY DEF Directives
<1>1. n + 1 \in 1..Len(ds) /\ d \in Directive
  BY <1>0
<1>2. \A name : Named(ds, n + 1, name) <=> Named(ds, n, name) \/ d.name = name
  BY DEF Named
<1>3. out \in CacheControl
  BY DEF Summary, CacheControl
<1>4. \A i \in 1..(n+1) : i \in 1..n \/ ds[i] = d
  OBVIOUS
<1> HIDE DEF d
<1>5. CASE d.name = "no-cache"
  <2>1. new = [out EXCEPT !.noCache = TRUE]
    BY <1>5 DEF readDirective
  <2> HIDE DEF new
  <2> QED BY <1>2, <1>3, <1>4, <1>5, <2>1 DEF Summary, CacheControl, new, d
<1>6. CASE d.name = "no-store"
  <2>1. new = [out EXCEPT !.noStore = TRUE]
    BY <1>6 DEF readDirective
  <2> HIDE DEF new
  <2> QED BY <1>2, <1>3, <1>4, <1>6, <2>1 DEF Summary, CacheControl, new, d
<1>7. CASE d.name = "max-age"
  <2> DEFINE age == maxAgeValue(out.count + 1, d)
  <2>1. new = [out EXCEPT !.count = @ + 1, !.hasMaxAge = TRUE, !.maxAge = age]
    BY <1>7 DEF readDirective
  <2>2. /\ age \in Nat /\ age <= MaxDuration /\ age <= Says(d)
        /\ out.count # 0 => age = 0
    BY <1>1, <1>3, DiscoveryAssumption DEF Directive, CacheControl, maxAgeValue, parseDeltaSeconds, Says
  <2> HIDE DEF age
  <2>3. /\ new \in CacheControl
        /\ new.noCache = out.noCache /\ new.noStore = out.noStore /\ new.hasMaxAge = TRUE
        /\ new.count = out.count + 1 /\ new.maxAge = age
    <3> HIDE DEF new
    <3>1. out.count + 1 \in Nat
      BY <1>3 DEF CacheControl
    <3> QED BY <1>3, <2>1, <2>2, <3>1 DEF CacheControl
  <2> HIDE DEF new
  <2>4. ASSUME NEW i \in 1..(n+1), ds[i].name = "max-age" PROVE new.maxAge <= Says(ds[i])
    <3>1. CASE ds[i] = d
      BY <2>2, <2>3, <3>1
    <3>2. CASE i \in 1..n /\ ds[i] # d
      <4>1. out.count # 0
        BY <2>4, <3>2 DEF Summary, CacheControl, Named
      <4>2. Says(ds[i]) \in Nat
        BY <1>0, <3>2 DEF Says, Directive
      <4> QED BY <2>2, <2>3, <4>1, <4>2
    <3> QED BY <1>4, <3>1, <3>2
  <2> QED BY <1>2, <1>3, <1>7, <2>2, <2>3, <2>4 DEF Summary, CacheControl, new, d
<1>8. CASE d.name \notin {"no-cache", "no-store", "max-age"}
  <2>1. new = out
    BY <1>8 DEF readDirective
  <2> HIDE DEF new
  <2> QED BY <1>2, <1>3, <1>4, <1>8, <2>1 DEF Summary, CacheControl, new, d
<1> QED BY <1>5, <1>6, <1>7, <1>8

\* The summary is what parseCacheControl returns, for directives of any number.
LEMMA SummaryHolds ==
  ASSUME NEW ds \in Directives
  PROVE  Summary(ds, Len(ds), parseCacheControl(ds))
<1>1. PICK g : Reading(ds, Len(ds), g) /\ parseCacheControl(ds) = g[Len(ds)]
  BY ReadingResult
<1>2. Len(ds) \in Nat
  BY DEF Directives
<1>3. \A i \in 0..Len(ds) : g[i] = IF i = 0 THEN NothingRead ELSE readDirective(g[i-1], ds[i])
  BY <1>1 DEF Reading
<1> DEFINE S == {n \in Nat : n <= Len(ds) => Summary(ds, n, g[n])}
<1>4. 0 \in S
  <2>1. Summary(ds, 0, NothingRead)
    BY DiscoveryAssumption DEF Summary, CacheControl, Named, NothingRead
  <2> QED BY <1>2, <1>3, <2>1
<1>5. ASSUME NEW n \in S PROVE n + 1 \in S
  <2> SUFFICES ASSUME n + 1 <= Len(ds) PROVE Summary(ds, n + 1, g[n+1])
    OBVIOUS
  <2>1. n \in Nat /\ n + 1 \in 0..Len(ds) /\ Summary(ds, n, g[n]) /\ n + 1 - 1 = n /\ n + 1 # 0
    BY <1>2
  <2>2. g[n+1] = readDirective(g[n], ds[n+1])
    BY <1>3, <2>1
  <2> QED BY <2>1, <2>2, SummaryStep
<1>6. S = Nat
  <2> HIDE DEF S
  <2>1. S \in SUBSET Nat
    BY DEF S
  <2> QED BY <1>4, <1>5, <2>1, SetOfNaturals
<1> QED BY <1>1, <1>2, <1>6

\* What a JWKS was kept with is what parseCacheControl made of its directives.
CacheInv ==
  keys # NoKeys => keys.directives \in CacheHeaders /\ keys.cache = parseCacheControl(keys.directives)

\* Only KeysArrive writes the keys.
LEMMA FetchCache == ASSUME CacheInv, FetchNext PROVE CacheInv'
<1>1. CASE UNCHANGED keys
  BY <1>1 DEF CacheInv
<1>2. ASSUME NEW ds \in CacheHeaders, KeysArrive(ds) PROVE CacheInv'
  <2>1. CASE UNCHANGED keys
    BY <2>1 DEF CacheInv
  <2>2. CASE keys' = [owner |-> Answer.owner, issuer |-> get.issuer, directives |-> ds,
                      cache |-> parseCacheControl(ds)]
    BY <2>2 DEF CacheInv
  <2> QED BY <1>2, <2>1, <2>2 DEF KeysArrive
<1> QED BY <1>1, <1>2 DEF FetchNext, DiscoverJWKSURI, FetchJWKS, Redirected, RequestFails,
        DocumentArrives, GiveUp

-----------------------------------------------------------------------------
(* The inductive invariant                                                 *)

\* Requests went to vetted URLs only, and not too many for one document.
HopsInv ==
  /\ \A u \in dialled : validateURL(u)
  /\ get.pc = "sent" => /\ DOMAIN get = {"pc", "url", "via", "what", "issuer"}
                        /\ get.via \in Nat
                        /\ ~setup.ownRedirects => get.via <= MaxRedirects

\* Documents before keys, each once, and all for the issuer that was asked for.
TrustInv ==
  /\ get.pc = "sent" => /\ keys = NoKeys
                        /\ get.what = "discovery" => found = NoDoc
                        /\ get.what = "jwks" => found # NoDoc /\ get.issuer = found.issuer
  /\ found # NoDoc => found.doc.issuer = found.issuer
  /\ keys # NoKeys => found # NoDoc /\ keys.issuer = found.issuer

\* An accepted token passes the checks with the keys of now.
LoginInv ==
  /\ DOMAIN login = Sessions
  /\ \A s \in Sessions :
       AcceptedAt(s) =>
         /\ keys # NoKeys
         /\ login[s].tok \in IDTokens
         /\ ParseError(login[s].tok, Context[s].client) = {}
         /\ ValidateIDTokenForContext(login[s].tok.claims, Context[s]) = {}

Inv == HopsInv /\ TrustInv /\ LoginInv

\* The first request is to a vetted URL.
LEMMA GetCappedHops ==
  ASSUME HopsInv, NEW u, NEW what, NEW issuer, getCapped(u, what, issuer), UNCHANGED setup
  PROVE  HopsInv'
<1>1. CASE validateURL(u)
  <2>1. /\ get' = [pc |-> "sent", url |-> u, via |-> 1, what |-> what, issuer |-> issuer]
        /\ dialled' = dialled \cup {u}
    BY <1>1 DEF getCapped
  <2> QED BY <1>1, <2>1, DiscoveryAssumption DEF HopsInv, validateURL, selectURLPolicy
<1>2. CASE ~validateURL(u)
  <2>1. get' = [pc |-> "failed", what |-> what] /\ dialled' = dialled
    BY <1>2 DEF getCapped
  <2> QED BY <2>1 DEF HopsInv, validateURL, selectURLPolicy
<1> QED BY <1>1, <1>2

\* A request that is over, and no new one, adds nothing.
LEMMA QuietHops ==
  ASSUME HopsInv, get'.pc # "sent", UNCHANGED <<setup, dialled>>
  PROVE  HopsInv'
BY DEF HopsInv, validateURL, selectURLPolicy

\* A document is taken with the issuer that was asked for, or not at all.
LEMMA DocumentTaken ==
  ASSUME DocumentArrives
  PROVE  \/ /\ get' = NoGet /\ Answer.issuer = get.issuer
            /\ found' = [uri |-> Answer.uri, issuer |-> get.issuer, doc |-> Answer]
         \/ get' = [pc |-> "failed", what |-> "discovery"] /\ found' = found
<1> DEFINE ok == /\ Answer.kind = "document"
                 /\ sameIssuer(Answer.issuer, get.issuer)
                 /\ Answer.uri.host # "" /\ validateURL(Answer.uri)
<1>1. IF ok THEN /\ get' = NoGet
                 /\ found' = [uri |-> Answer.uri, issuer |-> get.issuer, doc |-> Answer]
      ELSE get' = [pc |-> "failed", what |-> "discovery"] /\ UNCHANGED found
  BY DEF DocumentArrives
<1>2. ok => Answer.issuer = get.issuer
  BY DEF sameIssuer
<1> HIDE DEF ok
<1> QED BY <1>1, <1>2

\* Every step of a fetch keeps to vetted URLs.
LEMMA FetchHops == ASSUME HopsInv, FetchNext PROVE HopsInv'
<1>1. ASSUME NEW issuer \in Issuers, DiscoverJWKSURI(issuer) PROVE HopsInv'
  <2>1. CASE issuer.extra \/ ~validateURL(issuer.url)
    <3>1. get' = [pc |-> "failed", what |-> "discovery"] /\ UNCHANGED <<setup, dialled>>
      BY <1>1, <2>1 DEF DiscoverJWKSURI
    <3> QED BY <3>1, QuietHops
  <2>2. CASE ~(issuer.extra \/ ~validateURL(issuer.url))
    BY <1>1, <2>2, GetCappedHops DEF DiscoverJWKSURI
  <2> QED BY <2>1, <2>2
<1>2. CASE FetchJWKS
  BY <1>2, GetCappedHops DEF FetchJWKS
<1>3. CASE Redirected
  <2>1. get.pc = "sent" /\ UNCHANGED setup
    BY <1>3 DEF Redirected
  <2>2. CASE /\ CheckRedirect(Answer.to, get.via)
             /\ get' = [get EXCEPT !.url = Answer.to, !.via = @ + 1]
             /\ dialled' = dialled \cup {Answer.to}
    <3>1. validateURL(Answer.to) /\ (setup.ownRedirects \/ get.via < MaxRedirects)
      BY <2>2 DEF CheckRedirect
    <3>2. /\ DOMAIN get = {"pc", "url", "via", "what", "issuer"} /\ get.via \in Nat
      BY <2>1 DEF HopsInv
    <3>3. DOMAIN get' = DOMAIN get /\ get'.via = get.via + 1
      BY <2>2, <3>2
    <3>4. \A u \in dialled' : validateURL(u)'
      BY <2>1, <2>2, <3>1 DEF HopsInv, validateURL, selectURLPolicy
    <3> QED BY <2>1, <3>1, <3>2, <3>3, <3>4, DiscoveryAssumption DEF HopsInv
  <2>3. CASE get' = [pc |-> "failed", what |-> get.what] /\ UNCHANGED dialled
    BY <2>1, <2>3, QuietHops
  <2> QED BY <1>3, <2>2, <2>3 DEF Redirected
<1>4. CASE RequestFails \/ GiveUp
  BY <1>4, QuietHops DEF RequestFails, GiveUp, NoGet
<1>5. CASE DocumentArrives
  <2>1. get'.pc # "sent"
    BY <1>5, DocumentTaken DEF NoGet
  <2> QED BY <1>5, <2>1, QuietHops DEF DocumentArrives
<1>6. ASSUME NEW directives, KeysArrive(directives) PROVE HopsInv'
  BY <1>6, QuietHops DEF KeysArrive, NoGet
<1> QED BY <1>1, <1>2, <1>3, <1>4, <1>5, <1>6 DEF FetchNext

\* Every step of a fetch keeps documents and keys together, and replaces neither.
LEMMA FetchTrust ==
  ASSUME HopsInv, TrustInv, FetchNext
  PROVE  TrustInv' /\ (keys # NoKeys => keys' = keys)
<1>0. NoGet.pc # "sent" /\ (get = NoGet => get.pc # "sent")
  BY DEF NoGet
<1>1. ASSUME NEW issuer \in Issuers, DiscoverJWKSURI(issuer) PROVE TrustInv' /\ keys' = keys
  <2>1. found = NoDoc /\ keys = NoKeys /\ UNCHANGED <<found, keys>>
    BY <1>1 DEF DiscoverJWKSURI, TrustInv
  <2>2. get'.pc = "sent" => get'.what = "discovery"
    BY <1>1 DEF DiscoverJWKSURI, getCapped
  <2> QED BY <2>1, <2>2 DEF TrustInv
<1>2. CASE FetchJWKS
  <2>1. found # NoDoc /\ keys = NoKeys /\ UNCHANGED <<found, keys>>
    BY <1>2 DEF FetchJWKS
  <2>2. get'.pc = "sent" => get'.what = "jwks" /\ get'.issuer = found.issuer
    BY <1>2 DEF FetchJWKS, getCapped
  <2> QED BY <2>1, <2>2 DEF TrustInv
<1>3. CASE Redirected
  <2>1. get.pc = "sent" /\ UNCHANGED <<found, keys>>
    BY <1>3 DEF Redirected
  <2>2. get'.pc = "sent" => get'.what = get.what /\ get'.issuer = get.issuer
    <3>1. DOMAIN get = {"pc", "url", "via", "what", "issuer"}
      BY <2>1 DEF HopsInv
    <3>2. \/ \E u, n : get' = [get EXCEPT !.url = u, !.via = n]
          \/ get' = [pc |-> "failed", what |-> get.what]
      BY <1>3 DEF Redirected
    <3>3. ASSUME NEW u, NEW n, get' = [get EXCEPT !.url = u, !.via = n]
          PROVE  get'.what = get.what /\ get'.issuer = get.issuer
      BY <3>1, <3>3
    <3>4. [pc |-> "failed", what |-> get.what].pc # "sent"
      OBVIOUS
    <3> QED BY <3>2, <3>3, <3>4
  <2> QED BY <2>1, <2>2 DEF TrustInv
<1>4. CASE RequestFails \/ GiveUp
  <2>1. get'.pc # "sent" /\ UNCHANGED <<found, keys>>
    BY <1>0, <1>4 DEF RequestFails, GiveUp
  <2> QED BY <2>1 DEF TrustInv
<1>5. CASE DocumentArrives
  <2>1. keys = NoKeys /\ keys' = keys /\ get'.pc # "sent"
    <3>1. get.pc = "sent" /\ keys' = keys
      BY <1>5 DEF DocumentArrives
    <3>2. get'.pc # "sent"
      BY <1>5, DocumentTaken DEF NoGet
    <3> QED BY <3>1, <3>2 DEF TrustInv
  <2>2. found' # NoDoc => found'.doc.issuer = found'.issuer
    <3>1. CASE /\ Answer.issuer = get.issuer
               /\ found' = [uri |-> Answer.uri, issuer |-> get.issuer, doc |-> Answer]
      BY <3>1
    <3>2. CASE found' = found
      BY <3>2 DEF TrustInv
    <3> QED BY <1>5, <3>1, <3>2, DocumentTaken
  <2> QED BY <2>1, <2>2 DEF TrustInv
<1>6. ASSUME NEW directives, KeysArrive(directives) PROVE TrustInv' /\ keys = NoKeys
  <2>1. keys = NoKeys /\ found # NoDoc /\ get.issuer = found.issuer /\ found' = found
    BY <1>6 DEF KeysArrive, TrustInv
  <2>2. get'.pc # "sent" /\ (keys' # NoKeys => keys'.issuer = get.issuer)
    BY <1>0, <1>6, <2>1 DEF KeysArrive
  <2> QED BY <2>1, <2>2 DEF TrustInv
<1> QED BY <1>1, <1>2, <1>3, <1>4, <1>5, <1>6 DEF FetchNext, DiscoverJWKSURI, FetchJWKS, Redirected,
        RequestFails, GiveUp, DocumentArrives

\* A login is accepted only after the checks.
LEMMA CallbackInv ==
  ASSUME Inv, NEW s \in Sessions, NEW tok \in IDTokens, Callback(s, tok) PROVE Inv'
<1>1. UNCHANGED <<web, setup, get, found, keys, dialled>> /\ keys # NoKeys
  BY DEF Callback, fetching
<1>2. HopsInv' /\ TrustInv'
  BY <1>1 DEF Inv, HopsInv, TrustInv, validateURL, selectURLPolicy
<1> DEFINE bad == ParseError(tok, Context[s].client)
           err == IF bad # {} THEN bad ELSE ValidateIDTokenForContext(tok.claims, Context[s])
           new == IF err = {} THEN [state |-> "accepted", tok |-> tok]
                  ELSE [state |-> "refused", err |-> err]
<1>3. login' = [login EXCEPT ![s] = new]
  BY DEF Callback
<1>4. DOMAIN login' = Sessions /\ login'[s] = new /\ \A t \in Sessions : t # s => login'[t] = login[t]
  BY <1>3 DEF Inv, LoginInv
<1>5. new.state = "accepted" => new.tok = tok /\ bad = {} /\ err = {}
  <2> HIDE DEF bad
  <2>1. CASE err = {}
    BY <2>1
  <2>2. CASE err # {}
    BY <2>2
  <2> QED BY <2>1, <2>2
<1>6. LoginInv'
  <2> SUFFICES ASSUME NEW t \in Sessions, login'[t].state = "accepted"
               PROVE  /\ keys # NoKeys
                      /\ login'[t].tok \in IDTokens
                      /\ ParseError(login'[t].tok, Context[t].client) = {}
                      /\ ValidateIDTokenForContext(login'[t].tok.claims, Context[t]) = {}
    BY <1>1, <1>4 DEF LoginInv, AcceptedAt, ParseError
  <2>1. CASE t = s
    <3> HIDE DEF new
    <3> QED BY <1>1, <1>4, <1>5, <2>1
  <2>2. CASE t # s
    BY <1>4, <2>2 DEF Inv, LoginInv, AcceptedAt
  <2> QED BY <2>1, <2>2
<1> QED BY <1>2, <1>6 DEF Inv

\* The invariant holds in every reachable state.
THEOREM InvHolds == Spec => []Inv
<1>1. Init => Inv
  BY DEF Init, FetchInit, Inv, HopsInv, TrustInv, LoginInv, AcceptedAt, NoGet, Waiting
<1>2. Inv /\ [Next]_vars => Inv'
  <2> SUFFICES ASSUME Inv, [Next]_vars PROVE Inv'
    OBVIOUS
  <2>1. CASE UNCHANGED vars
    BY <2>1 DEF vars, fetching, Inv, HopsInv, TrustInv, LoginInv, AcceptedAt, ParseError,
         validateURL, selectURLPolicy
  <2>2. CASE FetchNext /\ UNCHANGED login
    <3>1. HopsInv' /\ TrustInv' /\ (keys # NoKeys => keys' = keys)
      BY <2>2, FetchHops, FetchTrust DEF Inv
    <3>2. LoginInv'
      BY <2>2, <3>1 DEF Inv, LoginInv, AcceptedAt, ParseError
    <3> QED BY <3>1, <3>2 DEF Inv
  <2>3. ASSUME NEW s \in Sessions, NEW tok \in IDTokens, Callback(s, tok) PROVE Inv'
    BY <2>3, CallbackInv
  <2> QED BY <2>1, <2>2, <2>3 DEF Next
<1> QED BY <1>1, <1>2, PTL DEF Spec

-----------------------------------------------------------------------------
(* What follows from it                                                    *)

\* No request leaves for a URL that is not https or that the policy refuses, whatever the
\* servers answer, and circles of redirects end (getCapped, safeHTTPClient of keyfetch.go).
THEOREM EveryHopIsVetted == Spec => []EveryHopVetted
<1>1. Inv => EveryHopVetted
  BY DEF Inv, HopsInv, EveryHopVetted, validateURL, validateHTTPSURL, selectURLPolicy, defaultURLPolicy
<1> QED BY <1>1, InvHolds, PTL

\* An accepted login rests on keys that a document of exactly its issuer named (DiscoverJWKSURI
\* of keyfetch.go and Parse), whatever servers there are.
THEOREM ChainHolds == Spec => []ChainOfTrust
<1>1. Inv => ChainOfTrust
  <2> SUFFICES ASSUME Inv, NEW s \in Sessions, AcceptedAt(s)
               PROVE  /\ found.doc.issuer.name = login[s].tok.claims.iss
                      /\ login[s].tok.signer = keys.owner
    BY DEF ChainOfTrust
  <2>1. keys # NoKeys /\ ParseError(login[s].tok, Context[s].client) = {}
    BY DEF Inv, LoginInv
  <2>2. login[s].tok.signer = keys.owner /\ login[s].tok.claims.iss = keys.issuer.name
    BY <2>1 DEF ParseError
  <2>3. found.doc.issuer = keys.issuer
    BY <2>1 DEF Inv, TrustInv
  <2> QED BY <2>2, <2>3
<1> QED BY <1>1, InvHolds, PTL

\* An accepted ID token is for this client, with its own access token, code and nonce
\* (ValidateIDTokenForContext of idtoken.go), in any order of callbacks.
THEOREM TokensMeantForTheirLogin == Spec => []MeantForThisLogin
<1>1. Inv => MeantForThisLogin
  <2> SUFFICES ASSUME Inv, NEW s \in Sessions, AcceptedAt(s)
      PROVE  LET c == login[s].tok.claims
                 v == Context[s]
             IN /\ v.client \in ToSet(c.aud) /\ ToSet(c.aud) \subseteq {v.client} \cup v.trusted
                /\ Len(c.aud) > 1 => c.azp = v.client
                /\ c.azp \in {"", v.client}
                /\ c.at_hash # NoHash => c.at_hash.of = v.access
                /\ c.c_hash # NoHash => c.c_hash.of = v.code
                /\ \A t \in Sessions :
                     /\ AcceptedAt(t) /\ login[t].tok = login[s].tok
                     /\ v.requireNonce /\ Context[t].requireNonce
                     => v.nonce = Context[t].nonce
    BY DEF MeantForThisLogin
  <2> DEFINE c == login[s].tok.claims
             v == Context[s]
  <2>1. \A t \in Sessions : AcceptedAt(t) =>
          /\ audienceError(login[t].tok.claims, Context[t]) = {}
          /\ nonceError(login[t].tok.claims, Context[t]) = {}
          /\ validateOIDCHash(login[t].tok.claims.at_hash, Context[t].access, Context[t].alg) = {}
          /\ validateOIDCHash(login[t].tok.claims.c_hash, Context[t].code, Context[t].alg) = {}
    BY ContextPassed DEF Inv, LoginInv
  <2>2. Contains(c.aud, v.client) /\ ToSet(c.aud) \subseteq v.trusted \cup {v.client}
    BY <2>1 DEF audienceError
  <2>3. v.client \in ToSet(c.aud)
    <3>1. c.aud \in Seq(STRING)
      BY LoginAssumption DEF Inv, LoginInv
    <3> QED BY <2>2, <3>1 DEF Contains, ToSet
  <2>4. (Len(c.aud) > 1 => c.azp = v.client) /\ c.azp \in {"", v.client}
    BY <2>1 DEF audienceError
  <2>5. c.at_hash # NoHash => c.at_hash.of = v.access
    BY <2>1, HashPassed
  <2>6. c.c_hash # NoHash => c.c_hash.of = v.code
    BY <2>1, HashPassed
  <2>7. \A t \in Sessions : AcceptedAt(t) /\ Context[t].requireNonce =>
                              login[t].tok.claims.nonce = Context[t].nonce
    BY <2>1 DEF nonceError
  <2> QED BY <2>2, <2>3, <2>4, <2>5, <2>6, <2>7
<1> QED BY <1>1, InvHolds, PTL

\* A JWKS is kept fresh no longer than every max-age it came with says (parseCacheControl of
\* keyfetch.go), for headers of any length; no-store and no-cache always count.
THEOREM CachedNoLonger == Spec => []CacheNeverLonger
<1>1. Init => CacheInv
  BY DEF Init, FetchInit, CacheInv
<1>2. CacheInv /\ [Next]_vars => CacheInv'
  <2> SUFFICES ASSUME CacheInv, [Next]_vars PROVE CacheInv'
    OBVIOUS
  <2>1. CASE UNCHANGED keys
    BY <2>1 DEF CacheInv
  <2> QED BY <2>1, FetchCache DEF Next, Callback, vars, fetching
<1>3. CacheInv => CacheNeverLonger
  <2> SUFFICES ASSUME CacheInv, keys # NoKeys PROVE CacheNeverLonger
    BY DEF CacheNeverLonger
  <2>1. PICK ds, out : /\ ds \in Directives /\ ds = keys.directives
                      /\ out = keys.cache /\ out = parseCacheControl(ds)
    BY DiscoveryAssumption DEF CacheInv, Directives, Directive
  <2>2. Summary(ds, Len(ds), out)
    BY <2>1, SummaryHolds
  <2> DEFINE ages == {d \in ToSet(ds) : d.name = "max-age"}
  <2>3. \A name : Named(ds, Len(ds), name) <=> \E d \in ToSet(ds) : d.name = name
    BY DEF Named, ToSet, Directives
  <2>4. \A d \in ages : out.maxAge <= IF d.valid THEN d.secs ELSE 0
    BY <2>2 DEF Summary, Says, ToSet, Directives
  <2>5. out.maxAge \in 0..MaxDuration
    BY <2>2, DiscoveryAssumption DEF Summary, CacheControl
  <2>6. out.noCache \in BOOLEAN /\ out.noStore \in BOOLEAN /\ out.hasMaxAge \in BOOLEAN
    BY <2>2 DEF Summary, CacheControl
  <2>7. /\ out.hasMaxAge = TRUE <=> ages # {}
        /\ out.noStore = TRUE <=> \E d \in ToSet(ds) : d.name = "no-store"
        /\ out.noCache = TRUE <=> \E d \in ToSet(ds) : d.name = "no-cache"
    BY <2>2, <2>3 DEF Summary
  <2>8. /\ out.hasMaxAge = (ages # {})
        /\ out.noStore = (\E d \in ToSet(ds) : d.name = "no-store")
        /\ out.noCache = (\E d \in ToSet(ds) : d.name = "no-cache")
    BY <2>6, <2>7, Zenon
  <2> QED BY <2>1, <2>4, <2>5, <2>8 DEF CacheNeverLonger
<1> QED BY <1>1, <1>2, <1>3, PTL DEF Spec
=============================================================================
