# A verification project for the jwt library

TLA+ models of the Go library in `src/`, the TLC runs that check them on small
instances, and TLAPS proofs of the central properties for every instance.
`PROJECT.json` maps each definition to the lines it models and lists the runs,
the mutants that show each property can fail, the hazards and the theorems.

## 1. Inventory

| Component | State | Operations | Interacts with |
| --- | --- | --- | --- |
| `KeyFetcher` (`keyfetch.go`) | cached set, its times, last error, last attempt, the fetch in flight, all under `f.mu` | `Lookup`, `Refresh`, the fetch goroutine | callers' goroutines, the issuer's server, `KeySet` |
| discovery and requests (`keyfetch.go`) | none of its own; one exchange at a time | `DiscoverJWKSURI`, `getCapped`, redirect policy, `parseCacheControl` | servers, the caller's `URLPolicy` and `http.Client` |
| `RevocationStore` (`revoke.go`) | map of entries, expiry heap, generation counter, under a mutex | `Revoke`, `IsRevoked`, lazy cleanup, heap rebuild | rotation, the application |
| `KeySet` (`keyset.go`, `key.go`) | slice of keys, index kid → position, under `s.mu` | `Add`, `Remove`, `Lookup`, `Keys`, `Clone`, the parsers | callers that share `key_ops` arrays, `KeyFetcher`, `Parse` |
| `Parse` (`jwt.go`, `key.go`, `internal/alg`) | none | the checks of `parseVerified` in order | key and verifier providers, the clock |
| `Middleware` (`httpauth.go`) | a fixed `parseConfig` | one request after another | `Parse`, providers, the handler |
| JWE (`jwe*.go`) | none; the caller's `dst` | `EncryptJWE`, `EncryptClaims`, `EncryptNestedJWT`, `DecryptClaims`, `DecryptNestedJWT` | `Encrypter`, `Decrypter` (may be the caller's), `Parse` |
| ID tokens (`idtoken.go`) | none; the relying party's session | `ValidateIDTokenClaims`, `ValidateIDTokenForContext` | discovery, `Parse` |
| refresh rotation (`examples/refresh_rotation`, `opaque.go`, `rotation.go`) | live hash per family | `issue`, `rotate` | `RevocationStore` |
| key providers (`keyprovider.go`) | fixed keys | `Lookup`, `LookupVerifier` | `Parse` |
| keys and signers (`internal/keyparse`, `internal/alg`, `alg.go`, `key.go`) | none | the private-key parsers, `New…Signer`, `From…PublicKey`, the JWK rules | signing, `Parse` |
| signing (`jwt.go`, `cmw.go`) | none; the caller's `dst` | `Sign`, `SignCMW`, `Parse` with its options, `ParseInsecure`, `ParseSignedCMW` | signers (may be the caller's), a static provider |
| claims (`claims.go`, `atclaims.go`, `cmw.go`) | none | JSON of `NumericDate`, `Audience`, `CMW`; `ValidateAccessTokenClaims` | signing, `Parse` |
| standards watch (`.github/standards` and its workflow) | `baseline.json`, `tracked.json`, the snapshot being collected, the open issue | check, `-accept`, the workflow's issue step | the RFC Editor, IANA, the Datatracker, web pages, a maintainer |
| thumbprints, errors, test support | none | pure functions | see "Not modelled" |

What is hard here: goroutines that share one fetch while some of them cancel;
answers from a cache that another goroutine replaces between two critical
sections; time passing while a provider, a Decrypter or a server is waited for;
an expiry heap that lags behind its map; positions that shift in an index;
arrays shared with callers; segments of tokens recombined on the way; redirects;
errors that match several sentinels at once; an encoder and a decoder that have
to agree on times, limits and nesting; options that pile up; sources that fail
one by one, and a baseline that is rewritten in place.

What makes each component correct:

* `KeyFetcher`: one request at a time; no replaced key set comes back; a
  withdrawn key goes within a bound; traffic is bounded; nobody's cancellation
  fails another; the last good document serves through a failure; calls return.
* `RevocationStore`: what is revoked stays revoked until its time, the capacity
  holds and refuses only when live entries fill it, the heap stays bounded.
* `KeySet`: index and slice agree, only the set's own operations change it, and
  parsing builds exactly the set the document and the mode call for.
* `Parse` and `Middleware`: only a token that its key and the configuration
  permit is served, while it is fresh, and the right party is blamed.
* JWE: a destination receives what one sender sealed and every policy accepts.
* Signing: what was signed is what is read, for the time it was meant, into a
  destination that mixes nothing; claims and CMWs are told apart; options that
  are combined take no requirement back; a key that a parser and a constructor
  accept makes signatures that its JWK verifies.
* Standards watch: an outage is never reported as a change or accepted as a
  baseline, every run ends, every lasting change gets into the issue.
* Discovery and login: every hop is vetted, keys belong to the issuer asked for,
  and a login accepts a token meant for it only.

## 2. Modules

| Module | Models | Extends or instantiates |
| --- | --- | --- |
| `KeyFetcher` | the cache and its goroutines | |
| `KeyFetcher_proofs` | its theorems | `KeyFetcher` |
| `RevocationContract` | abstract: the interface's promise, identifier → until when | |
| `RevocationStore` | map, heap, generations | refines `RevocationContract` |
| `RevocationStore_proofs` | theorems about the store and the rotation over it | `RefreshRotation` |
| `KeySetContract` | abstract: each set is a plain list of keys | |
| `KeySet` | slice, index, arrays, parsers | refines `KeySetContract` |
| `KeySet_proofs` | its theorems | `KeySet` |
| `Parse` | the checks as operators over abstract tokens and keys | |
| `Middleware` | requests against changing providers | `Parse` |
| `Middleware_proofs` | its theorems | `Middleware` |
| `JWE` | senders, transport, recipients | `Parse` |
| `JWE_proofs` | its theorems | `JWE` |
| `Discovery` | requests, redirects, Cache-Control | |
| `IDToken` | ID-token checks as operators | |
| `Login` | a relying party | `Discovery`, `IDToken` |
| `Login_proofs` | theorems about requests, Cache-Control and logins | `Login` |
| `RefreshRotation` | the rotator over the store it shares with others | `RevocationStore` |
| `Keys` | encoded private keys, signers, JWKs as operators | `Parse` |
| `CMW` | validation, encoding, decoding of CMWs | |
| `Claims` | claims structs as JSON and back, the access token profile | `CMW` |
| `Signing` | an issuer and a consumer | `Keys`, `Claims` |
| `Signing_proofs` | theorems about keys, options, dates, CMWs and tokens | `Signing` |
| `StandardsWatch` | the watch, its workflow and a maintainer | |
| `StandardsWatch_proofs` | its theorems | `StandardsWatch` |
| `MC*` | constants for TLC | the module of the same name; `MCRevocationStore` extends `RefreshRotation` |

Operators named `X_Something` below a comment "Mutant" are wrong versions of
`X`, used only to show that a property notices them.

### KeyFetcher

One action per critical section: `LookupHit`, `LookupRateLimited`, `LookupFetch`
are the three ways through the first section of `Lookup`, `Joined` is
`waitFlight` returning, `LookupFallback` the section after a failed flight. A
flight is `fetching` (request under way), `responded`, `unlocked` (cache
updated, lock released) and `closed` (done channel closed), so callers run
between each two of these. `ContextEnds` ends a waiting caller and nothing else.
`Collect` recycles finished flights that no caller holds, as the garbage
collector does, so `Flights` bounds the flights alive at once and not the
fetches. A document is its publication number, which makes "older" meaningful.
`outcome` holds what the call that returned in this step reported. The clock is
the monotonic reading that `time.Now` carries; while a flight runs it cannot
pass `lastAttempt + FetchTimeout`, because the client's timeout ends the request.

### RevocationStore

`Revoke` is three actions by its result. Each first removes expired entries
through the heap and may rebuild the heap afterwards, inside the same action.
An entry's generation tells its node from nodes of entries it replaced.
`Slack` is the constant 64 of the rebuild rule.

### KeySet

Keys hold references to `key_ops` arrays and callers may write to the arrays
they hold (`Scribble`): the other material of a `Key` is unexported. Positions
count from 1; 0 means "not in the index". `NewKeySet`, `Clone` and the parsers build
a set one member per step, from seed keys, a snapshot or a document; `MakeKey`, `Forget` and `DropSet` are the application and the collector.

### Parse, Middleware

A token is a record of what the checks look at: syntactic defects, header,
who really signed it and with which scheme, and its claims. An error is the set
of sentinels that `errors.Is` finds in it, because the order of the tests in
`classifyAuthError` matters only for errors that match several. All fourteen
algorithms have their key type and least size; RSA keys have a largest size too. A
provider or a caller's `Verifier` may fail with any error, and a ghost, `cause`,
remembers whose fault it really was. A request is
three steps: up to the provider, the provider's answer and the signature, the
claims; keys and time change in between.

### JWE

Keys are terms: two content keys are equal only when made or derived from the
same inputs, and a body opens only under the key and the protected header it was
sealed with. Transport may deliver a token as sent, with a changed header, with
broken segments, or put together from the segments of two. A recipient stops at
its `Decrypter`, which may be remote. `EncryptJWE` takes any plaintext, also a
token that `EncryptNestedJWT` would refuse.

### Discovery, IDToken, Login

A web maps URLs to answers: a redirect, a discovery document, a JWKS, garbage.
Two issuers that differ by a terminating slash share a well-known URL. A host is
of the kind `defaultURLPolicy` sees. `Login` adds sessions at which ID tokens
come back in any order, repeatedly and at the wrong session, checked as in
`examples/verify_idtoken`; expiry is left to `Middleware`.

### RefreshRotation

The program is sequential and so is the model. It is composed with
`RevocationStore` itself: the application revokes other identifiers in the same
store, which expire, are replaced, trigger rebuilds and fill it up. The example
program's own store is private and unbounded; a bounded, shared one is what
`NewMemoryRevocationStoreWithCapacity` offers, and it may refuse to burn a
family, whose error `rotate` drops. `NoReplay` therefore calls
only those families dead whose burning was accepted.

### Keys, CMW, Claims, Signing

An encoded private key is its format, its two halves and what is wrong with it;
each parser decides what it refuses, recomputes and leaves uncompared. JSON is a
record named for its kind; base64url is a table from bytes to strings in which no
two are the same, so that an encoded value is a string like any other. CMWs nest:
`validate`, `encode` and `parse` are functions of the levels that are left, each
defined by the one below, and `CMWs` and `Documents` are the values that occur,
with all that they contain. A time is in ticks, `Second` to the second; it is
encoded with its sign before the fraction and decoded through float64, which
beyond `Exact` seconds holds only every `Coarse`-th tick, as float64 does with
nanoseconds in this century. `Signing` has one issuer, whose signer changes, and
one consumer, whose key is the one last published. Tokens arrive as any
combination of the segments that were sent. All calls of the consumer read into
one `dst`; a ghost, `accepted`, is the payload of the last token that one of them
accepted. `Scenes` are the inputs of a behaviour, chosen at the start: they keep
the sets of keys, claims, options and CMWs from being multiplied with each other.

### StandardsWatch

An item is an RFC, an erratum, a registry entry, a draft or a page; a source is
what is fetched in one request. A run has one goroutine per source, each with its
attempts, under one deadline. `seen` is a ghost that records what each source
really showed during the run. `KeepFrom` has one rule where the code has five, one
per kind of source; they come to the same for keys that are well formed (a registry
entry's key begins with its registry's). A check starts from what is committed, `-accept`
from the maintainer's working copy, which it truncates and then writes. `Crash`
ends a run anywhere. Runs do not overlap: the workflow has a concurrency group,
and a check and an `-accept` share nothing.

## 3. Runs

All use two workers; the longest takes about two minutes.

| Run | Question | Bounds and why they suffice |
| --- | --- | --- |
| `fetcher_time` | `MonotonicReads`, `RevokedNotPinned`, `AttemptsBounded`, `LastGoodServes`, `FailureNeverMiss` | six ticks exceed the longest window (timeout 1, lifetime 2, stale 1); no directive, capped max-age, no-cache and no-store; two documents give a rotation |
| `fetcher_liveness` | `TypeOK`, `SingleFlight`, `ErrorsFromUpstream`, and `CallsReturn` under fairness | two callers that share, join and cancel; two flights: one running while a caller still holds the one before; one document, no rotation; `MinRefresh` 2 is longer than lifetime and stale window together, so a rate-limited `Lookup` meets a document out of both |
| `fetcher_nostore` | `NotFoundIsTrue`, violated | see section 5 |
| `revocation` | `TypeOK`, `ExpiryIndexed`, `WithinCapacity`, `HeapBounded`, `KeepsContract`, `NoReplay` | one family and two other identifiers over capacity two, so a refusal, a replacement and an expiry meet; five generations, four tokens; `Slack` 0 makes rebuilds frequent |
| `keyset` | `IndexConsistent`, `BuiltFaithfully`, `KeepsContract` | two sets that share callers' arrays, keys with and without kid, every document of up to two members and one over the limit |
| `keyset_strict` | `StrictRejectsUnsupported`, violated | see section 5 |
| `middleware` | `ServedSound`, `OneKeyOneAlgorithm`, `FaultAttributed`, `ServedFresh`, `ProviderShielded` | tokens, keys and allowlists of every family, every combination of absent, past, present and future times and of audiences, each syntactic defect; keys on both sides of the size limits; provider and verifier errors that wrap fetch, context and token sentinels; one request slot that is reused, since requests share only the provider, which changes at any time |
| `jwe` | `DstSound`, `DecrypterShielded`, `RoundTrip` | all five key algorithms; two tokens suffice to mix segments; two ticks to expire while waiting |
| `login` | `EveryHopVetted`, `CacheNeverLonger`, `MeantForThisLogin`, `ChainOfTrust` | `MaxRedirects` 3 in place of 10, with a cycle of two servers; up to two directives; two sessions |
| `signing` | `ReadsAsSigned`, `SameInstant`, `Separate`, `OneSource`, `PolicyHolds`, `SignerUsable` | six scenes: every encoding of a key with every algorithm; every way to publish a key, with custom signers; times around the epoch, far from it and at both ends of the range, each compared at every instant; options in every order of three; two tokens to be mixed; CMWs of depth 0 to 3 with a limit of 2 in place of 16 |
| `cmw_hollow` | `InvalidNeverSigned`, violated | see section 5 |
| `watch` | `ReportTrue`, `NothingPartial`, `RunEnds`, `DriftReported` | an RFC and an erratum of it, which come from two sources and of which one selects the other; two edits make a change that is accepted or taken back during a run; three values of the erratum, so that an item changes again while the issue lists it; one crash; two attempts in place of three |

Constants that stand for sizes in the code are scaled down (`MaxRedirects` 10,
`Slack` 64, `MaxDepth` 16, `MaxKeySetKeys`, the three attempts of the watch, times in ticks); no definition depends on their
value. `fetcher_time` has one caller: that `MonotonicReads` and `LastGoodServes` hold
when several callers interleave rests on the theorems of section 4, as do the rules
of the watch for registries, drafts and pages, whose sources `watch` does not have.
Symmetry is used for callers, flights and identifiers in safety runs only.

**Fairness.** `FairSpec` asks for weak fairness of the steps of a flight and of
the steps of a caller that can go on. The code justifies it: goroutines are
scheduled, and every request ends, because the client has a timeout
(`fetchCtx` is cut off from the caller's context but not from the timeout).
Nothing is asked of the issuer, of callers' contexts or of new calls.

In `StandardsWatch` the steps of a run that has begun are weakly fair, goroutine
by goroutine. For `DriftReported` two more things are asked, both strongly: the
cron starts a check again and again, whatever the maintainer does, and no source
fails in every week. `RunEnds` needs neither.

## 4. Proofs

TLAPS checks every theorem to the last leaf. Each holds for all values of the
constants that satisfy the named assumptions of the modules; these say what the
constructors of the library, or its decoders, leave: intervals are positive,
an Encrypter passed `newEncrypter`, an audience decodes to strings, `max-age` to a
natural number. TLC evaluates them on the instances of section 3. Of the forty
properties that the passing runs check, thirty-seven are theorems here; the other
three are liveness properties.

**KeyFetcher** (any callers, flights, documents, kids, Cache-Control values and
configuration). `KeyFetcher_proofs` shows `TypeOK`, `SingleFlight`,
`MonotonicReads`, `RevokedNotPinned`, `ErrorsFromUpstream`, `AttemptsBounded`,
`LastGoodServes` and `FailureNeverMiss`. None is inductive but the first: an
answer's age says nothing about the cache the next answer comes from. The
invariant `IInv` adds

* `FlightInv`: `inflight` names the one running flight, and callers hold no
  freed flight;
* `TimeInv`: nothing recorded lies in the future, a running flight has a deadline;
* `DocInv`: the cache holds the newest document fetched, no newer one was shown,
  and a response was obtained while the issuer served its document;
* `CallInv`: what a waiting call will be given is not older than what it had
  seen shown, nor gone for longer than one request before it began;
* `BlameInv`: every stored error has a failed request behind it, so that only the
  error that `fallbackLocked` makes itself, for a document out of its windows after a
  good fetch, has none;
* `AttemptInv`: `lastAttempt` carries the history of the traffic bound.

Each conjunct has a lemma with one case per action. The five ways to return are
first reduced to one, `ReturnStep` (from the cache within its windows, from a
flight, or without a key and then honestly), and `Reports` derives what a
returning call says from the state it returns in.

**RevocationStore and RefreshRotation** (any identifiers, expiry times, capacity
and slack). `TypeOK`, `ExpiryIndexed`, `WithinCapacity` and `HeapBounded` are
together inductive, and the store implements `RevocationContract`
(`ContractKept`). The step that matters is `CleanupExact`: what the heap removes
is exactly what has expired, which needs every expiring entry to have its own
node, across replacements and rebuilds. From it a cleanup is invisible to the
contract, and "full" means the same to both. The rotation over a shared store is
a behaviour of the store (`RotationImplementsStore`), so all of this holds under
it, and `NoReplayHolds` adds the rotator: `LineInv` says that a live token
is of one family and was never exchanged or replaced, `DeadInv` that a burnt family
has an entry that never expires, which nobody's cleanup, rebuild or later
revocation of other identifiers removes.

**KeySet** (any sets, kids, arrays, documents of any length). `Inv` holds the
types, the agreement of each index with its slice, that no set refers to an array
a caller holds (`Unshared`), and that the set under construction shows what the
members read so far ask for. The property `BuiltFaithfully` is stated on what is
shown, so it survives any `Scribble` only because of `Unshared`. From `Inv` follow
`IndexConsistent`, `BuiltFaithfully` and the refinement of `KeySetContract`: each
operation maps to the contract's, the last step of a construction to `Create`, and
building and the application's own steps to `Elsewhere`, which touches no set that
has been handed out. The index lemmas rest on one fact, that
removing a position shifts exactly the later ones.

**Parse and Middleware** (any tokens, keys, algorithms, options, providers,
times). Lemmas say for each check what its passing means (`KeyPassed`,
`ClaimsPassed`, …); JWE needs some of them too. `Inv` of `Middleware_proofs` records for every request which checks it
has passed with which key, under a configuration that is fixed while keys and time
change, and for every use of a stored key the algorithm it verified. It gives
`ServedSound`, `ServedFresh`, `OneKeyOneAlgorithm`, `ProviderShielded` and
`FaultAttributed`. The last makes no assumption on what a backend's error wraps; it
names the two cases in which a client is blamed for what is not its fault (section 5).

**JWE** (any encrypters, decrypters, policies, tokens sent and number of calls).
`Inv` says that everything sent was made by `encrypt`, that what a call works on is
put together of parts that were sent, and which checks lie behind each point of a
call. Segments may be mixed in any way; that a body opened under the recipient's
key then fixes the sender, the header and the plaintext is the lemma
`OpenedBySender`, on which `DstSound` rests. `DecrypterShielded` and `RoundTrip` follow as well, the latter
by cases on the five key algorithms.

**Discovery and Login** (any web, issuers, policies, sessions, contexts and
tokens). `HopsInv`, `TrustInv` and `LoginInv` give `EveryHopVetted`, `ChainOfTrust`
and `MeantForThisLogin`. `CacheNeverLonger` needs induction over the directives of
a header, for any number of them. The library's induction theorems cannot be
instantiated, so `SetOfNaturals` derives induction for sets of naturals from
`WFMin`, and two such sets show that the loop of `parseCacheControl` has a result
and that `Summary`, its meaning without a loop, holds of it.

**StandardsWatch** (any items, sources, configurations, edits and crashes). `Inv`
relates what a run has collected to what each source showed in it, at every point
where it can be killed. It
gives `ReportTrue` and `NothingPartial`.

**Signing, Keys, Claims, CMW** (any scenes, so any keys in any format, claims,
JSON values, CMWs and lists of options; any limit of nesting, any number of tokens
and calls). The assumptions say what the Go types hold (`SceneAssumption`,
`ValuesAssumption`), that no two byte strings have one base64url form
(`Base64Assumption`), that the empty string is neither a media type nor a
collection type (`CMWAssumption`), and that the dates of `Claims` have a range
around the epoch with a grid that divides the second (`ClaimsAssumption`). The
invariant `Inv` has a part for each thing that the properties connect:

* `KeyInv`: the signer is what a constructor made of a private key that a parser
  accepted, and the consumer's key is that of a holder, in a JWK that may be
  served unless it is symmetric;
* `SentInv`: a token that was sent has the header and the payload that `Sign` or
  `SignCMW` makes of its source, under a signature over both;
* `DstInv`: `dst` is zero before the first token is accepted, and then the content
  of the last accepted one, which was sent, whatever failed since;
* `ParseInv`, `AccessInv`, `CMWInv`: the last call was given segments of tokens
  that were sent and ended with what the checks say about them, now, with this key.

`Inv` was checked by TLC on the instance of the run `signing` before it was proved.
From it each property follows without further steps of the system. A signature
names what it covers, so segments that pass come from one token (`SentWhole`); that
gives the first part of `Separate` and the second of `OneSource`. `PolicyHolds` and
`SameInstant` need what a list of options amounts to (`ConfiguredSummary`), and
`ReadsAsSigned` and `SameInstant` what decoding makes of an encoded date
(`DateRoundTrip`, from quotient and remainder, for either sign, and from the grid
of float64), audience and CMW. `CMWRoundTrip` goes level by level: what validates
with so many levels left, and holds no record without bytes, is parsed with as
many, and comes out as it went in.
`SignerUsable` goes by cases on format, type and size, at both ends of the sizes that
constructors and verifiers allow.

Options and levels are two inductions over recursive functions. As in
`Login_proofs`, `WFMin` gives induction for sets of naturals (`AllNaturals`); it
shows that each function satisfies its recursion and then what it computes.

Checked by TLC only is liveness under fairness, which is out of the prover's reach:
`CallsReturn`, `RunEnds` and `DriftReported`.

## 5. Where the code and its documentation disagree

* `fetcher_nostore`: after a `no-store` response the fetcher keeps neither a set
  nor an error. Until the next permitted attempt `Lookup` says "not found, no
  error" for a key that every fetched document holds, although
  `keyfetch.go:191` and `keyprovider.go:12` say what not-found means.
* `keyset_strict`: `ParseKeySet` keeps a member of an unsupported type, although
  `keyset.go:169` says that an unsupported member rejects the complete set.
* `cmw_hollow`: `Validate` looks only at a record's media type, so `SignCMW` and
  `MarshalJSON` turn a record without bytes into `["type",""]`, which `ParseCMW`
  refuses, although `cmw.go:113` says that an invalid value never reaches a token.
  `ReadsAsSigned` leaves such a record out.

Differences that are noted and not claimed as findings:

* A stored oct key without bytes makes `verifierForAlg` report an algorithm that
  is not allowed (`key.go:390`), so the client is told 401, where
  `httpauth.go:179` speaks of 500 for a broken stored key. `FaultAttributed`
  leaves this key out of what it calls broken.
* `classifyAuthError` looks for the sentinels about tokens
  anywhere in an error, and the error of a `KeyProvider`'s backend reaches it wrapped.
  If that error wraps such a sentinel (the backend's own credential has expired, say),
  the client is told 400 or 401, although `httpauth.go:179` says 500 for a
  `KeyProvider` backend failure. `FaultAttributed` names the case, and the run
  reaches it.
* A caller's `Verifier` that fails for reasons of its own (it may be remote) is
  reported as `ErrInvalidSignature` (`jwt.go:289`) and answered with 401;
  `FaultAttributed` names the case.
* `fallbackLocked` reports `ErrKeyFetch` for a document out of its stale window though
  no request has failed (`keyfetch.go:263`), which takes a minimum refresh interval
  longer than lifetime and stale window; `ErrorsFromUpstream` names the case.
* While rate-limited, a document past its lifetime (a `no-cache` one at once) is
  served for the stale window though nothing has failed (`keyfetch.go:205`);
  `RevokedNotPinned` holds with that included.
* Encryption has no size limit and decryption has one, so a plaintext close to
  it gives a token that cannot be decrypted. `RoundTrip` exempts it.

* A token whose signature covers `cty` `application/cmw+json` passes
  `ParseSignedCMW` when its Claims Set happens to be a CMW collection, although
  `cmw.go:396` says that a JWT is rejected; `Separate` names the case. Conversely
  `Parse` takes a signed collection for a Claims Set without registered claims
  unless one is required. Requiring `aud` does not help: a record under the label
  "aud" is an array of two strings, which `Audience` reads. `WithRequiredType` is ignored by `ParseSignedCMW`.
* A CMW indicator of `null` is read as 0.
* `NumericDate` is emitted to the nanosecond and read through float64: today's
  times come back to within a quarter of a microsecond. 9999-12-31T23:59:59.5 can
  be signed and not read.
* `ParseEd25519PrivateKeyExpanded` compares the halves of a key,
  `ParseOpenSSHPrivateKey` and `NewEd25519Signer` do not: a key put together from
  two signs tokens that nothing verifies. `SignerUsable` states the case.
* `From…PublicKey` speak of a "sig" JWK and leave `Use` empty.
* `rotate` in the refresh example drops the error of `Revoke` (see section 2).
* Standards watch: `-accept` fetches again, so a change between the report and the
  acceptance enters the baseline unreviewed; "baseline updated" is printed before
  the file is written (`main.go:91`); an RFC that loses an updating RFC, titles,
  erratum types and sections are stored and not compared; fetch failures are part
  of the body that decides whether the issue is commented on; a check without
  changes leaves an open issue as it is; an `-accept` killed while it writes leaves a
  `baseline.json` that does not parse, and that it is not committed is up to the
  maintainer (the guard of `Commit`), so no property speaks of it.

## 6. Not modelled

Ciphers, signatures and hashes (who sealed, signed or hashed what stands for
them); base64url, URL, DER, OpenSSH and XML syntax (defects and kinds stand for
what they accept) and defects of JSON text; challenge text, logging, the layout
of reports; nil arguments (programming errors that return at once); wall-clock
changes (cache times are monotonic, and nothing says what a revocation should do
when the clock is set back); `apu` and `apv`, which no `Encrypter` of the library
writes; caller-defined Encrypters; `KeySet.MarshalJSON`; `thumbprint.go`; `cnf`
and the optional members of the access-token and ID-token structs, which travel
like the others; the parsers of public keys, which the library does not use; a
missing `baseline.json` and the `-snapshot` flag; the test support and the other
examples.

## 7. Plan

Done: every component of section 1 that keeps state or decides something is
modelled and checked, and every safety property of the passing runs is proved.

What would come next:

1. type invariants for `KeySet` and `StandardsWatch` stated on their own;
2. a composition of `Middleware` with `KeyFetcher` as its provider, so that a
   withdrawn key is followed from the issuer to the last request it serves.
