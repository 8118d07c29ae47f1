----------------------------- MODULE KeyFetcher -----------------------------
(***************************************************************************)
(* The remote JWKS cache of keyfetch.go.                                   *)
(*                                                                         *)
(* Goroutines (Callers) call Lookup and Refresh on one shared KeyFetcher.  *)
(* Each section of code under f.mu is one action; between two sections the *)
(* other goroutines run.  A fetch is a goroutine of its own (a flight): it *)
(* obtains the document the issuer publishes, updates the cache under the  *)
(* lock, and closes its done channel after it has released the lock.       *)
(*                                                                         *)
(* A document is the number of its publication: 1, 2, ...  0 is the nil    *)
(* *KeySet.  Answers[d] is the set of lookups document d resolves          *)
(* (KeySet.lookup, see KeySet.tla).  Time is the monotonic reading of      *)
(* time.Now, in ticks, and starts at 1; 0 is the zero time.Time.           *)
(*                                                                         *)
(* Variables marked (ghost) are read by properties only.                   *)
(***************************************************************************)
EXTENDS Integers, FiniteSets

CONSTANTS Callers,      \* goroutines that use the fetcher
          Flights,      \* identities of fetchFlight objects, recycled when unreferenced
          NoFlight,     \* the nil *fetchFlight
          Kids,         \* key identifiers looked up
          NumDocs,      \* bound: number of documents the issuer ever publishes
          Answers,      \* Answers[d]: the kids document d resolves
          Responses,    \* the cacheControl values the issuer may send
          MinRefresh,   \* WithMinRefreshInterval
          MaxCache,     \* WithMaxCacheDuration
          MaxStale,     \* WithMaxStaleDuration
          FetchTimeout, \* client.Timeout, or defaultFetcherTimeout
          MaxTime       \* bound: the clock stops here

NilSet == 0
ZeroTime == 0
Docs == 1..NumDocs
Errors == {"nil", "ErrKeyFetch"}

\* Result of parseCacheControl.
CacheControl == [noStore : BOOLEAN, noCache : BOOLEAN,
                 hasMaxAge : BOOLEAN, maxAge : Nat]

\* What the options and the defaults of NewKeyFetcher leave in the fetcher: an
\* option that would set a non-positive interval (a negative one, for the stale
\* window) is ignored.
ValidConfig ==
  /\ MinRefresh \in Nat \ {0}
  /\ MaxCache \in Nat \ {0}
  /\ MaxStale \in Nat
  /\ FetchTimeout \in Nat \ {0}

ASSUME ConfigAssumption == ValidConfig

ASSUME EnvironmentAssumption ==
  /\ NoFlight \notin Flights
  /\ NumDocs \in Nat \ {0}
  /\ Kids # {}
  /\ MaxTime \in Nat
  /\ Answers \in [Docs -> SUBSET Kids]
  /\ Responses \subseteq CacheControl

VARIABLES
  clock,        \* what f.now() returns
  published,    \* the document the issuer serves now
  retiredAt,    \* (ghost) when each document stopped being served, 0 = not yet
  set, fetchedAt, freshFor, lastAttempt, lastErr, inflight,  \* fields of f
  flights,      \* the fetchFlight objects and how far their goroutine is
  call,         \* per caller: the call in progress
  outcome,      \* (ghost) what the call that returned in this step reported
  newestSeen,   \* (ghost) document of the last fetch that succeeded
  newestShown,  \* (ghost) newest document a finished Lookup answered from
  attempts,     \* (ghost) fetches started by Lookup
  upstreamDown  \* (ghost) some request really failed

cache == <<set, fetchedAt, freshFor, lastErr>>
issuer == <<published, retiredAt>>
ghosts == <<newestSeen, attempts, upstreamDown>>
vars == <<clock, issuer, cache, lastAttempt, inflight, flights, call,
          outcome, newestShown, ghosts>>

NoResponse == [noStore |-> FALSE, noCache |-> FALSE,
               hasMaxAge |-> FALSE, maxAge |-> 0]

\* phase: fetching, responded (fetchJWKS returned), unlocked (cache updated,
\* done still open), closed (done closed), free (no such object).
NewFlight == [phase |-> "fetching", set |-> NilSet, err |-> "nil",
              cc |-> NoResponse]
NilFlight == [NewFlight EXCEPT !.phase = "free"]

\* A finished flight that no caller holds is garbage: nobody can join it any more.
Collect(fls, calls) ==
  [f \in Flights |->
     IF fls[f].phase \in {"unlocked", "closed"} /\ \A c \in Callers : calls[c].fl # f
     THEN NilFlight ELSE fls[f]]

AnyKid == CHOOSE k \in Kids : TRUE

\* floor: (ghost) the newest document shown to anyone when the call began.
Idle == [pc |-> "idle", op |-> "none", kid |-> AnyKid, fl |-> NoFlight,
         start |-> ZeroTime, floor |-> NilSet]

Nothing == [call |-> Idle, kind |-> "none", doc |-> NilSet, cause |-> "nil"]

Init ==
  /\ clock = 1
  /\ published = 1
  /\ retiredAt = [d \in Docs |-> ZeroTime]
  /\ set = NilSet
  /\ fetchedAt = ZeroTime
  /\ freshFor = 0
  /\ lastAttempt = ZeroTime
  /\ lastErr = "nil"
  /\ inflight = NoFlight
  /\ flights = [f \in Flights |-> NilFlight]
  /\ call = [c \in Callers |-> Idle]
  /\ outcome = Nothing
  /\ newestSeen = NilSet
  /\ newestShown = NilSet
  /\ attempts = 0
  /\ upstreamDown = FALSE

-----------------------------------------------------------------------------
(* Helpers of keyfetch.go.                                                 *)

Smaller(a, b) == IF a <= b THEN a ELSE b
Larger(a, b) == IF a >= b THEN a ELSE b

cacheAge(now) == Larger(now - fetchedAt, 0)

staleAt(now) == cacheAge(now) >= freshFor

\* Mutant: a failed attempt does not count against the rate limit.
mayAttemptAt_FailuresFree(now) ==
  \/ lastAttempt = ZeroTime
  \/ lastErr # "nil"
  \/ now - lastAttempt >= MinRefresh

mayAttemptAt(now) == lastAttempt = ZeroTime \/ now - lastAttempt >= MinRefresh

Holds(s, k) == s # NilSet /\ k \in Answers[s]

\* Mutant: nothing is served once the freshness lifetime is over.
fallbackSet_FreshOnly(now) ==
  IF set # NilSet /\ cacheAge(now) < freshFor THEN set ELSE NilSet

\* fallbackLocked: the retained set while its stale window is open.
fallbackSet(now) ==
  IF set # NilSet /\ (\/ cacheAge(now) < freshFor
                      \/ cacheAge(now) - freshFor < MaxStale)
  THEN set ELSE NilSet

\* Mutant: without a retained set the fetch error is dropped.
fallbackErr_Dropped(now, err) ==
  IF set = NilSet THEN "nil"
  ELSE IF fallbackSet(now) = NilSet THEN "ErrKeyFetch" ELSE err

\* ... and the error reported beside it: the fetch error or, when there is none
\* and the window has closed, an ErrKeyFetch made for the purpose.
fallbackErr(now, err) ==
  IF set # NilSet /\ fallbackSet(now) = NilSet /\ err = "nil"
  THEN "ErrKeyFetch" ELSE err

\* lookupOrErr, with the way the key was obtained for the properties.
lookupOrErr(how, s, k, err) ==
  IF Holds(s, k) THEN [kind |-> how, doc |-> s]
  ELSE [kind |-> IF err = "nil" THEN "notfound" ELSE err, doc |-> NilSet]

\* Mutants: max-age is not capped; max-age is read as a point in time.
freshLifetime_Uncapped(cc) ==
  IF cc.noCache THEN 0 ELSE IF cc.hasMaxAge THEN cc.maxAge ELSE MinRefresh
freshLifetime_Absolute(cc) ==
  IF cc.noCache THEN 0
  ELSE IF cc.hasMaxAge THEN Smaller(cc.maxAge, MaxCache) - clock
  ELSE MinRefresh

\* The freshness lifetime a successful, storable response gets.
freshLifetime(cc) ==
  IF cc.noCache THEN 0
  ELSE IF cc.hasMaxAge THEN Smaller(cc.maxAge, MaxCache)
  ELSE MinRefresh

\* Mutant: a flight in progress is not joined.
startFlightLocked_NoJoin(f) ==
  /\ flights[f].phase = "free"
  /\ inflight' = f
  /\ lastAttempt' = clock
  /\ flights' = [flights EXCEPT ![f] = NewFlight]

\* startFlightLocked: join the flight in progress, or start one.
startFlightLocked(f) ==
  \/ /\ inflight # NoFlight
     /\ f = inflight
     /\ UNCHANGED <<inflight, lastAttempt, flights>>
  \/ /\ inflight = NoFlight
     /\ flights[f].phase = "free"
     /\ inflight' = f
     /\ lastAttempt' = clock
     /\ flights' = [flights EXCEPT ![f] = NewFlight]

\* A call begins.
Begin(operation, k) ==
  [Idle EXCEPT !.op = operation, !.kid = k, !.start = clock, !.floor = newestShown]

\* Caller c's call, cl, returns r; cause is the error that made it fall back.
Return(c, cl, r, cause) ==
  /\ call' = [call EXCEPT ![c] = Idle]
  /\ flights' = Collect(flights, call')
  /\ outcome' = [call |-> cl, kind |-> r.kind, doc |-> r.doc, cause |-> cause]
  /\ newestShown' = Larger(newestShown, r.doc)

NoReturn == outcome' = Nothing /\ UNCHANGED newestShown

-----------------------------------------------------------------------------
(* KeyFetcher.Lookup                                                       *)

\* Answered by the cache.
LookupHit(c, k) ==
  /\ call[c].pc = "idle"
  /\ Holds(set, k)
  /\ ~staleAt(clock)
  /\ Return(c, Begin("lookup", k), [kind |-> "cached", doc |-> set], "nil")
  /\ UNCHANGED <<clock, issuer, cache, lastAttempt, inflight, ghosts>>

\* No fresh answer, nothing in flight and too early for another attempt.
LookupRateLimited(c, k) ==
  /\ call[c].pc = "idle"
  /\ ~(Holds(set, k) /\ ~staleAt(clock))
  /\ inflight = NoFlight
  /\ ~mayAttemptAt(clock)
  /\ Return(c, Begin("lookup", k),
            lookupOrErr("fallback", fallbackSet(clock), k,
                        fallbackErr(clock, lastErr)),
            lastErr)
  /\ UNCHANGED <<clock, issuer, cache, lastAttempt, inflight, ghosts>>

\* Join or start a flight, then wait for it outside the lock.
LookupFetch(c, k) ==
  /\ call[c].pc = "idle"
  /\ ~(Holds(set, k) /\ ~staleAt(clock))
  /\ inflight # NoFlight \/ mayAttemptAt(clock)
  /\ \E f \in Flights :
       /\ startFlightLocked(f)
       /\ call' = [call EXCEPT ![c] = [Begin("lookup", k) EXCEPT
                                         !.pc = "waiting", !.fl = f]]
  /\ attempts' = IF inflight = NoFlight THEN attempts + 1 ELSE attempts
  /\ NoReturn
  /\ UNCHANGED <<clock, issuer, cache, newestSeen, upstreamDown>>

\* KeyFetcher.Refresh: the same, whatever the cache and the rate limit say.
Refresh(c) ==
  /\ call[c].pc = "idle"
  /\ \E f \in Flights :
       /\ startFlightLocked(f)
       /\ call' = [call EXCEPT ![c] = [Begin("refresh", AnyKid) EXCEPT
                                         !.pc = "waiting", !.fl = f]]
  /\ NoReturn
  /\ UNCHANGED <<clock, issuer, cache, ghosts>>

\* waitFlight saw done closed.
Joined(c) ==
  LET fl == flights[call[c].fl] IN
  /\ call[c].pc = "waiting"
  /\ fl.phase = "closed"
  /\ \/ /\ call[c].op = "refresh"
        /\ Return(c, call[c],
                  [kind |-> IF fl.err = "nil" THEN "refreshed" ELSE fl.err,
                   doc |-> NilSet], "nil")
     \/ /\ call[c].op = "lookup"
        /\ fl.err = "nil"
        /\ Return(c, call[c],
                  lookupOrErr("fetched", fl.set, call[c].kid, "nil"), "nil")
     \/ /\ call[c].op = "lookup"
        /\ fl.err # "nil"
        /\ call' = [call EXCEPT ![c].pc = "fallback"]
        /\ NoReturn
        /\ UNCHANGED flights
  /\ UNCHANGED <<clock, issuer, cache, lastAttempt, inflight, ghosts>>

\* The flight failed: take the lock again and fall back on what the cache holds
\* now, which a later flight may have replaced.
LookupFallback(c) ==
  LET err == flights[call[c].fl].err IN
  /\ call[c].pc = "fallback"
  /\ Return(c, call[c],
            lookupOrErr("fallback", fallbackSet(clock), call[c].kid,
                        fallbackErr(clock, err)),
            err)
  /\ UNCHANGED <<clock, issuer, cache, lastAttempt, inflight, ghosts>>

\* Mutant: the fetch runs under the context of a caller, and fails with it.
ContextEnds_CancelsFetch(c) ==
  LET fl == call[c].fl IN
  /\ call[c].pc = "waiting"
  /\ flights[fl].phase = "fetching"
  /\ call' = [call EXCEPT ![c] = Idle]
  /\ flights' = [flights EXCEPT ![fl].phase = "responded", ![fl].err = "ErrKeyFetch"]
  /\ outcome' = [Nothing EXCEPT !.call = call[c], !.kind = "ctx"]
  /\ UNCHANGED <<clock, issuer, cache, lastAttempt, inflight, ghosts, newestShown>>

\* waitFlight saw the caller's context end.  When done is closed as well, select
\* picks either.  The flight is detached and goes on.
ContextEnds(c) ==
  /\ call[c].pc = "waiting"
  /\ Return(c, call[c], [kind |-> "ctx", doc |-> NilSet], "nil")
  /\ UNCHANGED <<clock, issuer, cache, lastAttempt, inflight, ghosts>>

-----------------------------------------------------------------------------
(* The flight's goroutine.                                                 *)

\* fetchJWKS returned the document the issuer serves at this moment.
FetchSucceeds(f) ==
  /\ flights[f].phase = "fetching"
  /\ \E cc \in Responses :
       flights' = [flights EXCEPT ![f].phase = "responded",
                                  ![f].set = published, ![f].cc = cc]
  /\ NoReturn
  /\ UNCHANGED <<clock, issuer, cache, lastAttempt, inflight, call, ghosts>>

\* fetchJWKS returned an error: network, timeout, status, size, malformed.
FetchFails(f) ==
  /\ flights[f].phase = "fetching"
  /\ flights' = [flights EXCEPT ![f].phase = "responded", ![f].err = "ErrKeyFetch"]
  /\ upstreamDown' = TRUE
  /\ NoReturn
  /\ UNCHANGED <<clock, issuer, cache, lastAttempt, inflight, call,
                 newestSeen, attempts>>

\* Mutant: a no-store response leaves the retained document in place.
FlightCompletes_NoStoreKeeps(f) ==
  LET fl == flights[f] IN
  /\ fl.phase = "responded"
  /\ \/ /\ fl.err = "nil"
        /\ ~fl.cc.noStore
        /\ set' = fl.set
        /\ fetchedAt' = clock
        /\ freshFor' = freshLifetime(fl.cc)
        /\ newestSeen' = fl.set
     \/ /\ fl.err # "nil" \/ fl.cc.noStore
        /\ newestSeen' = IF fl.err = "nil" THEN fl.set ELSE newestSeen
        /\ UNCHANGED <<set, fetchedAt, freshFor>>
  /\ lastErr' = fl.err
  /\ inflight' = NoFlight
  /\ flights' = Collect([flights EXCEPT ![f].phase = "unlocked", ![f].cc = NoResponse],
                        call)
  /\ NoReturn
  /\ UNCHANGED <<clock, issuer, lastAttempt, call, attempts, upstreamDown>>

\* The goroutine's section under f.mu.
FlightCompletes(f) ==
  LET fl == flights[f] IN
  /\ fl.phase = "responded"
  /\ \/ /\ fl.err = "nil"
        /\ fl.cc.noStore
        /\ set' = NilSet
        /\ fetchedAt' = ZeroTime
        /\ freshFor' = 0
        /\ newestSeen' = fl.set
     \/ /\ fl.err = "nil"
        /\ ~fl.cc.noStore
        /\ set' = fl.set
        /\ fetchedAt' = clock
        /\ freshFor' = freshLifetime(fl.cc)
        /\ newestSeen' = fl.set
     \/ /\ fl.err # "nil"
        /\ UNCHANGED <<set, fetchedAt, freshFor, newestSeen>>
  /\ lastErr' = fl.err
  /\ inflight' = NoFlight
  /\ flights' = Collect([flights EXCEPT ![f].phase = "unlocked", ![f].cc = NoResponse],
                        call)
  /\ NoReturn
  /\ UNCHANGED <<clock, issuer, lastAttempt, call, attempts, upstreamDown>>

\* Mutant: the done channel is closed only when the fetch succeeded.
CloseDone_OnlyOnSuccess(f) ==
  /\ flights[f].phase = "unlocked"
  /\ flights[f].err = "nil"
  /\ flights' = [flights EXCEPT ![f].phase = "closed"]
  /\ NoReturn
  /\ UNCHANGED <<clock, issuer, cache, lastAttempt, inflight, call, ghosts>>

\* close(fl.done), after f.mu.Unlock.
CloseDone(f) ==
  /\ flights[f].phase = "unlocked"
  /\ flights' = [flights EXCEPT ![f].phase = "closed"]
  /\ NoReturn
  /\ UNCHANGED <<clock, issuer, cache, lastAttempt, inflight, call, ghosts>>

-----------------------------------------------------------------------------
(* The environment.                                                        *)

\* The issuer replaces its document (a key is added, rotated or withdrawn).
Publish ==
  /\ published < NumDocs
  /\ published' = published + 1
  /\ retiredAt' = [retiredAt EXCEPT ![published] = clock]
  /\ NoReturn
  /\ UNCHANGED <<clock, cache, lastAttempt, inflight, flights, call, ghosts>>

\* Time passes.  A request does not outlive the timeout it was given, counted
\* from lastAttempt, the time its flight was started.
Tick ==
  /\ clock < MaxTime
  /\ inflight # NoFlight => clock < lastAttempt + FetchTimeout
  /\ clock' = clock + 1
  /\ NoReturn
  /\ UNCHANGED <<issuer, cache, lastAttempt, inflight, flights, call, ghosts>>

FlightStep(f) == FetchSucceeds(f) \/ FetchFails(f) \/ FlightCompletes(f) \/ CloseDone(f)

CallStep(c) ==
  \/ \E k \in Kids : LookupHit(c, k) \/ LookupRateLimited(c, k) \/ LookupFetch(c, k)
  \/ Refresh(c)
  \/ Joined(c)
  \/ LookupFallback(c)
  \/ ContextEnds(c)

Next ==
  \/ \E c \in Callers : CallStep(c)
  \/ \E f \in Flights : FlightStep(f)
  \/ Publish
  \/ Tick

\* Goroutines that can run do run; every request ends, by its timeout at the
\* latest.  Nobody has to call, cancel, publish or let time pass.
Fairness ==
  /\ \A f \in Flights : WF_vars(FlightStep(f))
  /\ \A c \in Callers : WF_vars(Joined(c)) /\ WF_vars(LookupFallback(c))

Spec == Init /\ [][Next]_vars
FairSpec == Spec /\ Fairness

-----------------------------------------------------------------------------
(* Properties                                                              *)

Running(f) == flights[f].phase \in {"fetching", "responded"}
HasKey == outcome.kind \in {"cached", "fetched", "fallback"}

FlightType == [phase : {"fetching", "responded", "unlocked", "closed", "free"},
               set : Docs \cup {NilSet}, err : Errors, cc : CacheControl]

CallType == [pc : {"idle", "waiting", "fallback"},
             op : {"none", "lookup", "refresh"}, kid : Kids,
             fl : Flights \cup {NoFlight}, start : Nat,
             floor : Docs \cup {NilSet}]

OutcomeType == [call : CallType,
                kind : {"none", "cached", "fetched", "fallback", "notfound",
                        "refreshed", "ctx", "ErrKeyFetch"},
                doc : Docs \cup {NilSet}, cause : Errors]

\* Every field of the fetcher, of its flights and of its calls stays in range, a
\* call in progress holds a flight, and only a Lookup falls back on the cache.
TypeOK ==
  /\ clock \in Nat /\ clock >= 1
  /\ published \in Docs
  /\ retiredAt \in [Docs -> Nat]
  /\ set \in Docs \cup {NilSet}
  /\ fetchedAt \in Nat /\ freshFor \in Nat /\ lastAttempt \in Nat
  /\ lastErr \in Errors
  /\ inflight \in Flights \cup {NoFlight}
  /\ flights \in [Flights -> FlightType]
  /\ call \in [Callers -> CallType]
  /\ \A c \in Callers : /\ call[c].pc # "idle" => call[c].fl \in Flights
                        /\ call[c].pc = "fallback" => call[c].op = "lookup"
  /\ outcome \in OutcomeType
  /\ newestSeen \in Docs \cup {NilSet}
  /\ newestShown \in Docs \cup {NilSet}
  /\ attempts \in Nat
  /\ upstreamDown \in BOOLEAN

\* Concurrent callers share one request: a fetch that is running is the one
\* f.inflight names, so there are never two (startFlightLocked, and inflight
\* being cleared only by the goroutine that owns it).
SingleFlight == \A f \in Flights : Running(f) => f = inflight

\* A Lookup never answers from a document older than one another Lookup had
\* already answered from when it began.  Fetches, no-store responses, failures
\* and the late fallback of a failed flight together never bring a replaced
\* document back.
MonotonicReads == HasKey => outcome.doc >= outcome.call.floor

\* One request, plus the longest freshness lifetime, plus the stale window.
PinnedBound == FetchTimeout + Larger(MinRefresh, MaxCache) + MaxStale

\* "a revoked key cannot stay pinned for long": a Lookup that begins PinnedBound
\* after the issuer withdrew a document never answers from it.
RevokedNotPinned ==
  HasKey /\ retiredAt[outcome.doc] # ZeroTime
    => outcome.call.start < retiredAt[outcome.doc] + PinnedBound

\* Traffic is not amplified: however many callers look up unknown kids, cancel,
\* meet failures or call Refresh in between, Lookup has started at most one
\* fetch per MinRefresh of elapsed time, and the first.
AttemptsBounded == attempts > 0 => (attempts - 1) * MinRefresh <= clock - 1

\* The rate limit keeps a Lookup from fetching, the last fetch went well, and what
\* it brought is out of its freshness lifetime and of its stale window.
OutOfWindows ==
  /\ outcome.call.op = "lookup" /\ outcome.cause = "nil"
  /\ set # NilSet
  /\ clock >= fetchedAt + freshFor + MaxStale

\* An impatient caller fails nobody else, and no failure is invented: a call
\* reports ErrKeyFetch only if some request to the issuer failed, with one
\* exception that fallbackLocked makes on purpose: a rate-limited Lookup after a
\* fetch that went well, when the retained document "exceeded the maximum stale
\* duration" (possible only when MinRefresh is longer than the two windows).
ErrorsFromUpstream ==
  outcome.kind = "ErrKeyFetch" => upstreamDown \/ OutOfWindows

\* "a fetch failure is reported as ErrKeyFetch unless the last good document
\* still holds the key": when a Lookup reports ErrKeyFetch, the document of the
\* last good fetch is not retained, lacks the kid, or is out of its windows.
LastGoodServes ==
  outcome.kind = "ErrKeyFetch" /\ outcome.call.op = "lookup"
    => \/ set = NilSet
       \/ outcome.call.kid \notin Answers[newestSeen]
       \/ clock >= fetchedAt + freshFor + MaxStale

\* "A kid absent from a successfully fetched document is reported as not found
\* with a nil error": a clean not-found means some document that was fetched
\* lacks the kid (Lookup's contract, and KeyProvider's: "when no such key exists").
NotFoundIsTrue ==
  outcome.kind = "notfound" =>
    \E d \in 1..newestSeen : outcome.call.kid \notin Answers[d]

\* "a fetch failure is reported as ErrKeyFetch": a Lookup that answers because a
\* fetch failed, its own or the last one while rate-limited, never says that the
\* key does not exist, whatever is left in the cache.
FailureNeverMiss == outcome.kind = "notfound" => outcome.cause = "nil"

\* Every call returns: no caller waits for ever for a flight, whoever else
\* cancels, and whether or not the issuer answers.
CallsReturn ==
  \A c \in Callers : call[c].pc # "idle" ~> call[c].pc = "idle"

=============================================================================
