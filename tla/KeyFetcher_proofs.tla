------------------------- MODULE KeyFetcher_proofs -------------------------
(***************************************************************************)
(* Proofs about KeyFetcher for any number of callers, flights, documents   *)
(* and kids, any intervals, and without end of time.                       *)
(***************************************************************************)
EXTENDS KeyFetcher, TLAPS

USE ConfigAssumption, EnvironmentAssumption DEF ValidConfig

\* Documents are positive numbers, and there is a kid to look up.
LEMMA DocsType == /\ 1 \in Docs /\ Docs \subseteq Nat /\ NilSet \notin Docs
                  /\ AnyKid \in Kids
BY DEF Docs, NilSet, AnyKid

\* Documents, and the nil set, are natural numbers.
LEMMA DocNat == Docs \cup {NilSet} \subseteq Nat
BY DocsType DEF NilSet

\* The initial and the empty records are well typed.
LEMMA ConstantTypes == /\ NewFlight \in FlightType /\ NilFlight \in FlightType
                       /\ NoResponse \in CacheControl
                       /\ Idle \in CallType /\ Nothing \in OutcomeType
BY DocsType DEF NewFlight, NilFlight, NoResponse, FlightType, Errors, CacheControl,
   Idle, CallType, Nothing, OutcomeType, NilSet, ZeroTime

\* Collecting garbage replaces some flights by NilFlight and changes no other.
LEMMA CollectType ==
  ASSUME NEW fls \in [Flights -> FlightType], NEW calls
  PROVE  /\ Collect(fls, calls) \in [Flights -> FlightType]
         /\ \A f \in Flights :
              \/ Collect(fls, calls)[f] = fls[f]
              \/ /\ Collect(fls, calls)[f] = NilFlight
                 /\ fls[f].phase \in {"unlocked", "closed"}
                 /\ \A c \in Callers : calls[c].fl # f
BY ConstantTypes DEF Collect

\* A call that begins is well typed.
LEMMA BeginType ==
  ASSUME TypeOK, NEW k \in Kids, NEW o \in {"lookup", "refresh"}
  PROVE  Begin(o, k) \in CallType
BY ConstantTypes DEF Begin, CallType, TypeOK

\* lookupOrErr answers from the set it is given or reports the error it is given.
LEMMA lookupOrErrType ==
  ASSUME NEW how \in {"fetched", "fallback"}, NEW s \in Docs \cup {NilSet}, NEW k,
         NEW err \in Errors
  PROVE  LET r == lookupOrErr(how, s, k, err)
         IN  /\ r.kind \in {how, "notfound", "ErrKeyFetch"}
             /\ r.doc \in Docs \cup {NilSet}
             /\ r.kind = how => r.doc = s /\ s # NilSet
             /\ r.kind # how => r.doc = NilSet
             /\ r.kind = "ErrKeyFetch" => err = "ErrKeyFetch"
BY DocsType DEF lookupOrErr, Holds, Errors, NilSet

\* fallbackLocked gives the retained set or nothing, and an error of a known kind.
LEMMA fallbackType ==
  ASSUME TypeOK, NEW now, NEW err \in Errors
  PROVE  /\ fallbackSet(now) \in {set, NilSet}
         /\ fallbackErr(now, err) \in Errors
         /\ fallbackErr(now, err) = "ErrKeyFetch" =>
              err = "ErrKeyFetch" \/ (err = "nil" /\ set # NilSet /\ fallbackSet(now) = NilSet)
BY DEF fallbackSet, fallbackErr, Errors, TypeOK

\* What a returning call leaves well typed.
LEMMA ReturnType ==
  ASSUME TypeOK, NEW c \in Callers, NEW cl \in CallType, NEW r,
         r.kind \in {"cached", "fetched", "fallback", "notfound", "refreshed",
                     "ctx", "ErrKeyFetch"},
         r.doc \in Docs \cup {NilSet}, NEW cause \in Errors,
         Return(c, cl, r, cause)
  PROVE  /\ call' \in [Callers -> CallType]
         /\ \A d \in Callers :
              /\ call'[d].pc # "idle" => call'[d].fl \in Flights
              /\ call'[d].pc = "fallback" => call'[d].op = "lookup"
         /\ flights' \in [Flights -> FlightType]
         /\ outcome' \in OutcomeType
         /\ newestShown' \in Docs \cup {NilSet}
<1>1. /\ call' \in [Callers -> CallType]
      /\ \A d \in Callers :
           /\ call'[d].pc # "idle" => call'[d].fl \in Flights
           /\ call'[d].pc = "fallback" => call'[d].op = "lookup"
  BY ConstantTypes DEF Return, TypeOK, Idle
<1>2. flights' \in [Flights -> FlightType]
  BY CollectType DEF Return, TypeOK
<1>3. outcome' \in OutcomeType
  BY DEF Return, OutcomeType
<1>4. newestShown' \in Docs \cup {NilSet}
  BY DocsType DEF Return, TypeOK, Larger
<1> QED BY <1>1, <1>2, <1>3, <1>4

\* A step in which no call returns leaves the ghosts of a return well typed.
LEMMA NoReturnType ==
  ASSUME TypeOK, NoReturn
  PROVE  outcome' \in OutcomeType /\ newestShown' \in Docs \cup {NilSet}
BY ConstantTypes DEF NoReturn, TypeOK

\* startFlightLocked keeps the fields it changes well typed.
LEMMA StartType ==
  ASSUME TypeOK, NEW f \in Flights, startFlightLocked(f)
  PROVE  /\ inflight' \in Flights \cup {NoFlight}
         /\ flights' \in [Flights -> FlightType]
         /\ lastAttempt' \in Nat
BY ConstantTypes DEF startFlightLocked, TypeOK

\* A freshness lifetime never exceeds MinRefresh and MaxCache.
LEMMA freshLifetimeType ==
  ASSUME NEW cc \in CacheControl
  PROVE  freshLifetime(cc) \in Nat /\ freshLifetime(cc) <= Larger(MinRefresh, MaxCache)
BY DEF freshLifetime, CacheControl, Smaller, Larger

\* TypeOK is inductive by itself.
LEMMA TypeInductive == TypeOK /\ [Next]_vars => TypeOK'
<1> SUFFICES ASSUME TypeOK, [Next]_vars PROVE TypeOK'
  OBVIOUS
<1> USE DocsType
<1>1. ASSUME NEW c \in Callers, NEW k \in Kids, LookupHit(c, k) PROVE TypeOK'
  <2>1. Begin("lookup", k) \in CallType
    BY BeginType
  <2>2. set \in Docs
    BY <1>1 DEF LookupHit, Holds, TypeOK
  <2>3. /\ call' \in [Callers -> CallType]
        /\ \A d \in Callers :
             /\ call'[d].pc # "idle" => call'[d].fl \in Flights
             /\ call'[d].pc = "fallback" => call'[d].op = "lookup"
        /\ flights' \in [Flights -> FlightType]
        /\ outcome' \in OutcomeType
        /\ newestShown' \in Docs \cup {NilSet}
    <3> DEFINE r == [kind |-> "cached", doc |-> set]
    <3>1. Return(c, Begin("lookup", k), r, "nil")
      BY <1>1 DEF LookupHit
    <3>2. r.kind = "cached" /\ r.doc \in Docs \cup {NilSet} /\ "nil" \in Errors
      BY <2>2 DEF Errors
    <3> HIDE DEF r
    <3> QED BY <2>1, <3>1, <3>2, ReturnType
  <2> QED BY <1>1, <2>3 DEF LookupHit, issuer, cache, ghosts, TypeOK
<1>2. ASSUME NEW c \in Callers, NEW k \in Kids, LookupRateLimited(c, k) PROVE TypeOK'
  <2> DEFINE err == fallbackErr(clock, lastErr)
             r == lookupOrErr("fallback", fallbackSet(clock), k, err)
  <2>1. lastErr \in Errors /\ set \in Docs \cup {NilSet}
    BY DEF TypeOK
  <2>2. fallbackSet(clock) \in Docs \cup {NilSet} /\ err \in Errors
    BY <2>1, fallbackType
  <2>3. r.kind \in {"fallback", "notfound", "ErrKeyFetch"}
        /\ r.doc \in Docs \cup {NilSet}
    <3> HIDE DEF err
    <3> QED BY <2>2, lookupOrErrType
  <2>4. Return(c, Begin("lookup", k), r, lastErr)
    BY <1>2 DEF LookupRateLimited
  <2> HIDE DEF r
  <2>5. /\ call' \in [Callers -> CallType]
        /\ \A d \in Callers :
             /\ call'[d].pc # "idle" => call'[d].fl \in Flights
             /\ call'[d].pc = "fallback" => call'[d].op = "lookup"
        /\ flights' \in [Flights -> FlightType]
        /\ outcome' \in OutcomeType
        /\ newestShown' \in Docs \cup {NilSet}
    BY <2>1, <2>3, <2>4, BeginType, ReturnType
  <2> QED BY <1>2, <2>5 DEF LookupRateLimited, issuer, cache, ghosts, TypeOK
<1>3. ASSUME NEW c \in Callers, NEW k \in Kids, LookupFetch(c, k) PROVE TypeOK'
  <2>1. PICK f \in Flights :
          /\ startFlightLocked(f)
          /\ call' = [call EXCEPT ![c] = [Begin("lookup", k) EXCEPT
                                            !.pc = "waiting", !.fl = f]]
    BY <1>3 DEF LookupFetch
  <2>2. /\ call' \in [Callers -> CallType]
        /\ \A d \in Callers :
             /\ call'[d].pc # "idle" => call'[d].fl \in Flights
             /\ call'[d].pc = "fallback" => call'[d].op = "lookup"
    <3>1. Begin("lookup", k) \in CallType
      BY BeginType
    <3>2. [Begin("lookup", k) EXCEPT !.pc = "waiting", !.fl = f] \in CallType
      BY <3>1 DEF CallType
    <3>3. [Begin("lookup", k) EXCEPT !.pc = "waiting", !.fl = f].fl = f
      BY <3>1 DEF CallType
    <3> QED BY <2>1, <3>2, <3>3 DEF TypeOK
  <2>3. attempts' \in Nat
    BY <1>3 DEF LookupFetch, TypeOK
  <2> QED BY <1>3, <2>1, <2>2, <2>3, StartType, NoReturnType
          DEF LookupFetch, issuer, cache, TypeOK
<1>4. ASSUME NEW c \in Callers, Refresh(c) PROVE TypeOK'
  <2>1. PICK f \in Flights :
          /\ startFlightLocked(f)
          /\ call' = [call EXCEPT ![c] = [Begin("refresh", AnyKid) EXCEPT
                                            !.pc = "waiting", !.fl = f]]
    BY <1>4 DEF Refresh
  <2>2. /\ call' \in [Callers -> CallType]
        /\ \A d \in Callers :
             /\ call'[d].pc # "idle" => call'[d].fl \in Flights
             /\ call'[d].pc = "fallback" => call'[d].op = "lookup"
    <3>1. Begin("refresh", AnyKid) \in CallType
      BY BeginType
    <3>2. [Begin("refresh", AnyKid) EXCEPT !.pc = "waiting", !.fl = f] \in CallType
      BY <3>1 DEF CallType
    <3>3. [Begin("refresh", AnyKid) EXCEPT !.pc = "waiting", !.fl = f].fl = f
      BY <3>1 DEF CallType
    <3> QED BY <2>1, <3>2, <3>3 DEF TypeOK
  <2> QED BY <1>4, <2>1, <2>2, StartType, NoReturnType
          DEF Refresh, issuer, cache, ghosts, TypeOK
<1>5. ASSUME NEW c \in Callers, Joined(c) PROVE TypeOK'
  <2> DEFINE fl == flights[call[c].fl]
             r1 == [kind |-> IF fl.err = "nil" THEN "refreshed" ELSE fl.err, doc |-> NilSet]
             r2 == lookupOrErr("fetched", fl.set, call[c].kid, "nil")
  <2>1. call[c] \in CallType /\ fl \in FlightType /\ "nil" \in Errors
    BY <1>5 DEF Joined, TypeOK, Errors
  <2>2. /\ call' \in [Callers -> CallType]
        /\ \A d \in Callers :
             /\ call'[d].pc # "idle" => call'[d].fl \in Flights
             /\ call'[d].pc = "fallback" => call'[d].op = "lookup"
        /\ flights' \in [Flights -> FlightType]
        /\ outcome' \in OutcomeType
        /\ newestShown' \in Docs \cup {NilSet}
    <3>1. CASE Return(c, call[c], r1, "nil")
      <4>1. r1.kind \in {"refreshed", "ErrKeyFetch"} /\ r1.doc \in Docs \cup {NilSet}
        BY <2>1 DEF FlightType, Errors
      <4> HIDE DEF r1
      <4> QED BY <2>1, <3>1, <4>1, ReturnType
    <3>2. CASE Return(c, call[c], r2, "nil")
      <4>1. r2.kind \in {"fetched", "notfound", "ErrKeyFetch"}
            /\ r2.doc \in Docs \cup {NilSet}
        BY <2>1, lookupOrErrType DEF FlightType
      <4> HIDE DEF r2
      <4> QED BY <2>1, <3>2, <4>1, ReturnType
    <3>3. CASE /\ call[c].pc = "waiting" /\ call[c].op = "lookup"
               /\ call' = [call EXCEPT ![c].pc = "fallback"]
               /\ NoReturn
               /\ UNCHANGED flights
      BY <3>3, NoReturnType DEF TypeOK, CallType
    <3> QED BY <1>5, <3>1, <3>2, <3>3 DEF Joined
  <2> QED BY <1>5, <2>2 DEF Joined, issuer, cache, ghosts, TypeOK
<1>6. ASSUME NEW c \in Callers, LookupFallback(c) PROVE TypeOK'
  <2> DEFINE e == flights[call[c].fl].err
             err == fallbackErr(clock, e)
             r == lookupOrErr("fallback", fallbackSet(clock), call[c].kid, err)
  <2>1. e \in Errors /\ set \in Docs \cup {NilSet} /\ call[c] \in CallType
    BY <1>6 DEF LookupFallback, TypeOK, FlightType
  <2>2. fallbackSet(clock) \in Docs \cup {NilSet} /\ err \in Errors
    BY <2>1, fallbackType
  <2>3. r.kind \in {"fallback", "notfound", "ErrKeyFetch"}
        /\ r.doc \in Docs \cup {NilSet}
    <3> HIDE DEF err
    <3> QED BY <2>2, lookupOrErrType
  <2>4. Return(c, call[c], r, e)
    BY <1>6 DEF LookupFallback
  <2> HIDE DEF r, e
  <2>5. /\ call' \in [Callers -> CallType]
        /\ \A d \in Callers :
             /\ call'[d].pc # "idle" => call'[d].fl \in Flights
             /\ call'[d].pc = "fallback" => call'[d].op = "lookup"
        /\ flights' \in [Flights -> FlightType]
        /\ outcome' \in OutcomeType
        /\ newestShown' \in Docs \cup {NilSet}
    BY <2>1, <2>3, <2>4, ReturnType
  <2> QED BY <1>6, <2>5 DEF LookupFallback, issuer, cache, ghosts, TypeOK
<1>7. ASSUME NEW c \in Callers, ContextEnds(c) PROVE TypeOK'
  <2> DEFINE r == [kind |-> "ctx", doc |-> NilSet]
  <2>1. /\ Return(c, call[c], r, "nil") /\ call[c] \in CallType /\ "nil" \in Errors
        /\ r.kind = "ctx" /\ r.doc = NilSet
    BY <1>7 DEF ContextEnds, TypeOK, Errors
  <2> HIDE DEF r
  <2>2. /\ call' \in [Callers -> CallType]
        /\ \A d \in Callers :
             /\ call'[d].pc # "idle" => call'[d].fl \in Flights
             /\ call'[d].pc = "fallback" => call'[d].op = "lookup"
        /\ flights' \in [Flights -> FlightType]
        /\ outcome' \in OutcomeType
        /\ newestShown' \in Docs \cup {NilSet}
    BY <2>1, ReturnType
  <2> QED BY <1>7, <2>2 DEF ContextEnds, issuer, cache, ghosts, TypeOK
<1>8. ASSUME NEW f \in Flights, FetchSucceeds(f) PROVE TypeOK'
  <2>1. flights' \in [Flights -> FlightType]
    <3>1. PICK cc \in Responses :
            flights' = [flights EXCEPT ![f].phase = "responded",
                                       ![f].set = published, ![f].cc = cc]
      BY <1>8 DEF FetchSucceeds
    <3>2. cc \in CacheControl /\ flights[f] \in FlightType
      BY DEF TypeOK
    <3>3. [flights[f] EXCEPT !.phase = "responded", !.set = published, !.cc = cc]
            \in FlightType
      BY <3>2 DEF FlightType, TypeOK
    <3> QED BY <3>1, <3>3 DEF TypeOK
  <2> QED BY <1>8, <2>1, NoReturnType DEF FetchSucceeds, issuer, cache, ghosts, TypeOK
<1>9. ASSUME NEW f \in Flights, FetchFails(f) PROVE TypeOK'
  <2>1. flights' \in [Flights -> FlightType]
    <3>1. flights' = [flights EXCEPT ![f].phase = "responded", ![f].err = "ErrKeyFetch"]
      BY <1>9 DEF FetchFails
    <3>2. flights[f] \in FlightType
      BY DEF TypeOK
    <3>3. [flights[f] EXCEPT !.phase = "responded", !.err = "ErrKeyFetch"] \in FlightType
      BY <3>2 DEF FlightType, Errors
    <3> QED BY <3>1, <3>3 DEF TypeOK
  <2> QED BY <1>9, <2>1, NoReturnType DEF FetchFails, issuer, cache, TypeOK
<1>10. ASSUME NEW f \in Flights, FlightCompletes(f) PROVE TypeOK'
  <2>1. flights[f] \in FlightType
    BY DEF TypeOK
  <2>2. [flights EXCEPT ![f].phase = "unlocked", ![f].cc = NoResponse]
          \in [Flights -> FlightType]
    BY ConstantTypes DEF TypeOK, FlightType
  <2>3. flights' \in [Flights -> FlightType]
    BY <1>10, <2>2, CollectType DEF FlightCompletes
  <2>4. /\ set' \in Docs \cup {NilSet} /\ newestSeen' \in Docs \cup {NilSet}
        /\ fetchedAt' \in Nat /\ freshFor' \in Nat /\ lastErr' \in Errors
    BY <1>10, <2>1, freshLifetimeType DEF FlightCompletes, TypeOK, FlightType, ZeroTime
  <2> QED BY <1>10, <2>3, <2>4, NoReturnType DEF FlightCompletes, issuer, TypeOK
<1>11. ASSUME NEW f \in Flights, CloseDone(f) PROVE TypeOK'
  <2>1. flights' \in [Flights -> FlightType]
    BY <1>11 DEF CloseDone, TypeOK, FlightType
  <2> QED BY <1>11, <2>1, NoReturnType DEF CloseDone, issuer, cache, ghosts, TypeOK
<1>12. CASE Publish
  <2>1. published' \in Docs /\ retiredAt' \in [Docs -> Nat]
    BY <1>12 DEF Publish, TypeOK, Docs
  <2> QED BY <1>12, <2>1, NoReturnType DEF Publish, cache, ghosts, TypeOK
<1>13. CASE Tick
  BY <1>13, NoReturnType DEF Tick, issuer, cache, ghosts, TypeOK
<1>14. CASE UNCHANGED vars
  BY <1>14 DEF vars, issuer, cache, ghosts, TypeOK
<1> QED
  BY <1>1, <1>2, <1>3, <1>4, <1>5, <1>6, <1>7, <1>8, <1>9, <1>10, <1>11, <1>12,
     <1>13, <1>14 DEF Next, CallStep, FlightStep

\* A new fetcher is well typed.
LEMMA InitType == Init => TypeOK
<1> SUFFICES ASSUME Init PROVE TypeOK
  OBVIOUS
<1>1. /\ flights \in [Flights -> FlightType] /\ call \in [Callers -> CallType]
      /\ outcome \in OutcomeType
  BY ConstantTypes DEF Init
<1>2. \A c \in Callers : call[c].pc = "idle"
  BY DEF Init, Idle
<1>3. /\ clock \in Nat /\ clock >= 1 /\ published \in Docs /\ retiredAt \in [Docs -> Nat]
      /\ set \in Docs \cup {NilSet}
      /\ fetchedAt \in Nat /\ freshFor \in Nat /\ lastAttempt \in Nat
      /\ lastErr \in Errors /\ inflight \in Flights \cup {NoFlight}
      /\ newestSeen \in Docs \cup {NilSet} /\ newestShown \in Docs \cup {NilSet}
      /\ attempts \in Nat
  BY DocsType DEF Init, ZeroTime, Errors
<1>4. upstreamDown \in BOOLEAN
  BY DEF Init
<1> QED BY <1>1, <1>2, <1>3, <1>4 DEF TypeOK

\* The fields of the fetcher, its flights and its calls stay in range in every
\* behaviour of keyfetch.go, and a waiting call always holds a flight.
THEOREM TypeCorrect == Spec => []TypeOK
BY InitType, TypeInductive, PTL DEF Spec

-----------------------------------------------------------------------------
(***************************************************************************)
(* All the steps in which a call returns look alike: they change no field  *)
(* of the fetcher, and the key they return, if any, comes from the cache   *)
(* within its windows or from the flight that was joined.                  *)
(***************************************************************************)
FromCache(cl, r) ==
  /\ r.kind \in {"cached", "fallback"}
  /\ set # NilSet
  /\ r.doc = set
  /\ clock - fetchedAt < freshFor + MaxStale

FromFlight(cl, r) ==
  /\ r.kind = "fetched"
  /\ cl.fl \in Flights
  /\ flights[cl.fl].phase = "closed"
  /\ flights[cl.fl].err = "nil"
  /\ r.doc = flights[cl.fl].set

Keyless(r) == r.kind \notin {"cached", "fetched", "fallback"} /\ r.doc = NilSet

\* A fetch error is that of the last flight, that of the flight the call waited
\* for, or the one fallbackLocked makes when the stale window has closed.
Blame(cl, r, cause) ==
  r.kind = "ErrKeyFetch" =>
    \/ lastErr = "ErrKeyFetch"
    \/ cl.fl \in Flights /\ flights[cl.fl].err = "ErrKeyFetch"
    \/ cl.op = "lookup" /\ cause = "nil" /\ set # NilSet /\ fallbackSet(clock) = NilSet

\* A clean miss has no failure behind it, and a Lookup reports a fetch error only
\* when what fallbackLocked would serve does not hold the key.
Honest(cl, r, cause) ==
  /\ r.kind = "notfound" => cause = "nil"
  /\ r.kind = "ErrKeyFetch" /\ cl.op = "lookup" => ~Holds(fallbackSet(clock), cl.kid)

ReturnStep(c, cl, r, cause) ==
  /\ Return(c, cl, r, cause)
  /\ \/ call[c].pc = "idle" /\ \E k \in Kids : cl = Begin("lookup", k)
     \/ call[c].pc # "idle" /\ cl = call[c]
  /\ FromCache(cl, r) \/ FromFlight(cl, r) \/ Keyless(r)
  /\ Blame(cl, r, cause)
  /\ Honest(cl, r, cause)
  /\ UNCHANGED <<clock, issuer, cache, lastAttempt, inflight, ghosts>>

ResultType == [kind : {"cached", "fetched", "fallback", "notfound",
                       "refreshed", "ctx", "ErrKeyFetch"},
               doc : Docs \cup {NilSet}]

Returning ==
  \E c \in Callers, cl \in CallType, r \in ResultType, cause \in Errors :
    ReturnStep(c, cl, r, cause)

\* The only call step that neither returns nor starts: a Lookup whose flight
\* failed goes for the lock again.
Retrying(c) ==
  /\ call[c].pc = "waiting"
  /\ call' = [call EXCEPT ![c].pc = "fallback"]
  /\ NoReturn
  /\ UNCHANGED <<clock, issuer, cache, lastAttempt, inflight, flights, ghosts>>

\* A retained set is served only inside its freshness and stale windows.
LEMMA fallbackWindow ==
  ASSUME TypeOK, fallbackSet(clock) # NilSet
  PROVE  /\ fallbackSet(clock) = set /\ set # NilSet
         /\ clock - fetchedAt < freshFor + MaxStale
BY DEF fallbackSet, TypeOK, cacheAge, Larger

\* What the fallback of a failed or refused fetch reports is honest.
LEMMA fallbackHonest ==
  ASSUME NEW k, NEW e \in Errors, NEW cl, cl.kid = k
  PROVE  Honest(cl, lookupOrErr("fallback", fallbackSet(clock), k, fallbackErr(clock, e)), e)
<1> DEFINE s == fallbackSet(clock)
           err == fallbackErr(clock, e)
           r == lookupOrErr("fallback", s, k, err)
<1>1. err = "nil" => e = "nil"
  BY DEF fallbackErr, Errors
<1>2. /\ Holds(s, k) => r.kind = "fallback"
      /\ ~Holds(s, k) => r.kind = IF err = "nil" THEN "notfound" ELSE err
  <2> HIDE DEF s, err
  <2> QED BY DEF lookupOrErr
<1>3. err # "notfound"
  BY DEF fallbackErr, Errors
<1> HIDE DEF r, err
<1>4. Honest(cl, r, e)
  BY <1>1, <1>2, <1>3 DEF Honest
<1> QED BY <1>4 DEF r, err

\* A cache hit is a return from a fresh document.
LEMMA HitReturns ==
  ASSUME TypeOK, NEW c \in Callers, NEW k \in Kids, LookupHit(c, k)
  PROVE  Returning
<1> DEFINE r == [kind |-> "cached", doc |-> set]
           cl == Begin("lookup", k)
<1>1. set \in Docs /\ set # NilSet /\ clock - fetchedAt < freshFor + MaxStale
  BY DEF LookupHit, Holds, TypeOK, staleAt, cacheAge, Larger
<1>2. r \in [kind : {"cached"}, doc : Docs] /\ r.kind = "cached" /\ r.doc = set
  BY <1>1
<1>3. Return(c, cl, r, "nil") /\ "nil" \in Errors /\ cl \in CallType
  BY BeginType DEF LookupHit, Errors
<1>4. ReturnStep(c, cl, r, "nil")
  BY <1>1, <1>2, <1>3 DEF ReturnStep, FromCache, Blame, Honest, LookupHit
<1> HIDE DEF r, cl
<1> QED BY <1>2, <1>3, <1>4 DEF Returning, ResultType

\* A rate-limited Lookup is a return from the cache within its windows.
LEMMA RateLimitedReturns ==
  ASSUME TypeOK, NEW c \in Callers, NEW k \in Kids, LookupRateLimited(c, k)
  PROVE  Returning
<1> DEFINE s == fallbackSet(clock)
           err == fallbackErr(clock, lastErr)
           r == lookupOrErr("fallback", s, k, err)
           cl == Begin("lookup", k)
<1>1. /\ s \in Docs \cup {NilSet} /\ err \in Errors
      /\ err = "ErrKeyFetch" =>
           lastErr = "ErrKeyFetch" \/ (lastErr = "nil" /\ set # NilSet /\ s = NilSet)
      /\ lastErr \in Errors
  BY fallbackType DEF TypeOK
<1>2. /\ r.kind \in {"fallback", "notfound", "ErrKeyFetch"}
      /\ r.doc \in Docs \cup {NilSet}
      /\ r.kind = "fallback" => r.doc = s /\ s # NilSet
      /\ r.kind # "fallback" => r.doc = NilSet
      /\ r.kind = "ErrKeyFetch" => err = "ErrKeyFetch"
  <2> HIDE DEF s, err
  <2> QED BY <1>1, lookupOrErrType
<1>3. r \in [kind : {"fallback", "notfound", "ErrKeyFetch"},
             doc : Docs \cup {NilSet}]
  BY <1>2 DEF lookupOrErr
<1>4. Return(c, cl, r, lastErr) /\ cl \in CallType
  BY BeginType DEF LookupRateLimited
<1>5. FromCache(cl, r) \/ Keyless(r)
  BY <1>2, fallbackWindow DEF FromCache, Keyless
<1>6. Blame(cl, r, lastErr)
  <2>1. cl.op = "lookup"
    BY DEF Begin, Idle
  <2> HIDE DEF cl, r, err
  <2> QED BY <1>1, <1>2, <2>1 DEF Blame
<1>7. Honest(cl, r, lastErr)
  <2>1. cl.kid = k
    BY DEF Begin, Idle
  <2> HIDE DEF cl
  <2> QED BY <1>1, <2>1, fallbackHonest
<1>8. ReturnStep(c, cl, r, lastErr)
  <2> HIDE DEF r
  <2> QED BY <1>4, <1>5, <1>6, <1>7 DEF ReturnStep, LookupRateLimited
<1> HIDE DEF r, cl
<1> QED BY <1>1, <1>3, <1>4, <1>8 DEF Returning, ResultType

\* The fallback of a failed flight is a return from the cache within its windows.
LEMMA FallbackReturns ==
  ASSUME TypeOK, NEW c \in Callers, LookupFallback(c)
  PROVE  Returning
<1> DEFINE s == fallbackSet(clock)
           e == flights[call[c].fl].err
           err == fallbackErr(clock, e)
           r == lookupOrErr("fallback", s, call[c].kid, err)
<1>0. /\ e \in Errors /\ call[c] \in CallType /\ call[c].fl \in Flights
      /\ call[c].pc # "idle"
  BY DEF LookupFallback, TypeOK, FlightType
<1>1. /\ s \in Docs \cup {NilSet} /\ err \in Errors
      /\ err = "ErrKeyFetch" =>
           e = "ErrKeyFetch" \/ (e = "nil" /\ set # NilSet /\ s = NilSet)
  <2> HIDE DEF e
  <2> QED BY <1>0, fallbackType DEF TypeOK
<1>2. /\ r.kind \in {"fallback", "notfound", "ErrKeyFetch"}
      /\ r.doc \in Docs \cup {NilSet}
      /\ r.kind = "fallback" => r.doc = s /\ s # NilSet
      /\ r.kind # "fallback" => r.doc = NilSet
      /\ r.kind = "ErrKeyFetch" => err = "ErrKeyFetch"
  <2> HIDE DEF s, err
  <2> QED BY <1>1, lookupOrErrType
<1>3. r \in [kind : {"fallback", "notfound", "ErrKeyFetch"},
             doc : Docs \cup {NilSet}]
  BY <1>2 DEF lookupOrErr
<1>4. Return(c, call[c], r, e)
  BY DEF LookupFallback
<1>5. FromCache(call[c], r) \/ Keyless(r)
  BY <1>2, fallbackWindow DEF FromCache, Keyless
<1>6. Blame(call[c], r, e)
  <2>1. call[c].op = "lookup"
    BY DEF LookupFallback, TypeOK
  <2>2. flights[call[c].fl].err = e
    OBVIOUS
  <2> HIDE DEF r, err, e
  <2> QED BY <1>0, <1>1, <1>2, <2>1, <2>2 DEF Blame
<1>7. Honest(call[c], r, e)
  <2> HIDE DEF e
  <2> QED BY <1>0, fallbackHonest
<1>8. ReturnStep(c, call[c], r, e)
  <2> HIDE DEF r
  <2> QED BY <1>0, <1>4, <1>5, <1>6, <1>7 DEF ReturnStep, LookupFallback
<1> HIDE DEF r, e
<1> QED BY <1>0, <1>3, <1>8 DEF Returning, ResultType

\* A caller that saw done closed returns what its flight holds, or retries the cache.
LEMMA JoinedReturns ==
  ASSUME TypeOK, NEW c \in Callers, Joined(c)
  PROVE  Returning \/ Retrying(c)
<1> DEFINE fl == flights[call[c].fl]
           r1 == [kind |-> IF fl.err = "nil" THEN "refreshed" ELSE fl.err, doc |-> NilSet]
           r2 == lookupOrErr("fetched", fl.set, call[c].kid, "nil")
<1>1. /\ call[c] \in CallType /\ call[c].fl \in Flights /\ fl \in FlightType
      /\ "nil" \in Errors /\ call[c].pc # "idle" /\ fl.phase = "closed"
  BY DEF Joined, TypeOK, Errors
<1>2. CASE call[c].op = "refresh" /\ Return(c, call[c], r1, "nil")
  <2>1. r1 \in [kind : {"refreshed", "ErrKeyFetch"}, doc : {NilSet}]
        /\ (r1.kind = "ErrKeyFetch" => fl.err = "ErrKeyFetch")
    BY <1>1 DEF FlightType, Errors
  <2> HIDE DEF r1
  <2>2. Keyless(r1) /\ Blame(call[c], r1, "nil") /\ Honest(call[c], r1, "nil")
    BY <1>1, <1>2, <2>1 DEF Keyless, Blame, Honest
  <2>3. ReturnStep(c, call[c], r1, "nil")
    BY <1>1, <1>2, <2>2 DEF ReturnStep, Joined
  <2> QED BY <1>1, <2>1, <2>3 DEF Returning, ResultType
<1>3. CASE Return(c, call[c], r2, "nil") /\ fl.err = "nil"
  <2>1. /\ r2.kind \in {"fetched", "notfound", "ErrKeyFetch"}
        /\ r2.doc \in Docs \cup {NilSet}
        /\ r2.kind = "fetched" => r2.doc = fl.set
        /\ r2.kind # "fetched" => r2.doc = NilSet
        /\ r2.kind # "ErrKeyFetch"
    <3>1. fl.set \in Docs \cup {NilSet}
      BY <1>1 DEF FlightType
    <3> QED BY <1>1, <3>1, DocsType DEF lookupOrErr, Holds, NilSet
  <2>2. r2 \in [kind : {"fetched", "notfound", "ErrKeyFetch"},
                doc : Docs \cup {NilSet}]
    BY <2>1 DEF lookupOrErr
  <2> HIDE DEF r2
  <2>3. /\ FromFlight(call[c], r2) \/ Keyless(r2)
        /\ Blame(call[c], r2, "nil") /\ Honest(call[c], r2, "nil")
    BY <1>1, <1>3, <2>1 DEF Keyless, Blame, Honest, FromFlight
  <2>4. ReturnStep(c, call[c], r2, "nil")
    BY <1>1, <1>3, <2>3 DEF ReturnStep, Joined
  <2> QED BY <1>1, <2>2, <2>4 DEF Returning, ResultType
<1>4. CASE /\ call' = [call EXCEPT ![c].pc = "fallback"]
           /\ NoReturn
           /\ UNCHANGED flights
  BY <1>4 DEF Joined, Retrying
<1> QED BY <1>2, <1>3, <1>4 DEF Joined

\* A cancelled wait is a return without a document.
LEMMA ContextReturns ==
  ASSUME TypeOK, NEW c \in Callers, ContextEnds(c)
  PROVE  Returning
<1> DEFINE r == [kind |-> "ctx", doc |-> NilSet]
<1>1. /\ Return(c, call[c], r, "nil") /\ call[c] \in CallType /\ "nil" \in Errors
      /\ call[c].pc # "idle"
  BY DEF ContextEnds, TypeOK, Errors
<1>2. /\ r \in [kind : {"ctx"}, doc : {NilSet}]
      /\ Keyless(r) /\ Blame(call[c], r, "nil") /\ Honest(call[c], r, "nil")
  BY DEF Keyless, Blame, Honest
<1> HIDE DEF r
<1>3. ReturnStep(c, call[c], r, "nil")
  BY <1>1, <1>2 DEF ReturnStep, ContextEnds
<1> QED BY <1>1, <1>2, <1>3 DEF Returning, ResultType

\* The steps as the invariance proofs look at them.
LEMMA StepCases ==
  ASSUME TypeOK, [Next]_vars
  PROVE  \/ Returning
         \/ \E c \in Callers : Retrying(c) \/ Refresh(c) \/ \E k \in Kids : LookupFetch(c, k)
         \/ \E f \in Flights : FlightStep(f)
         \/ Publish \/ Tick \/ UNCHANGED vars
BY HitReturns, RateLimitedReturns, FallbackReturns, JoinedReturns, ContextReturns
   DEF Next, CallStep

-----------------------------------------------------------------------------
(***************************************************************************)
(* The inductive invariant.                                                *)
(***************************************************************************)
Finished(f) == flights[f].phase \in {"unlocked", "closed"}

\* inflight names the one running flight; nobody holds a freed one.
FlightInv ==
  /\ SingleFlight
  /\ inflight # NoFlight => Running(inflight)
  /\ \A c \in Callers : call[c].pc # "idle" => flights[call[c].fl].phase # "free"

\* Nothing recorded lies in the future, and a running flight has a deadline.
TimeInv ==
  /\ lastAttempt <= clock
  /\ inflight # NoFlight => clock <= lastAttempt + FetchTimeout
  /\ fetchedAt <= clock
  /\ freshFor <= Larger(MinRefresh, MaxCache)
  /\ \A c \in Callers : call[c].start <= clock

\* The cache holds the newest document fetched, which is never older than one
\* that was shown; a response is at least as new, and was obtained while the
\* issuer still served its document.
DocInv ==
  /\ newestShown <= newestSeen
  /\ newestSeen <= published
  /\ set # NilSet => set = newestSeen
  /\ \A d \in Docs : d >= published => retiredAt[d] = ZeroTime
  /\ set # NilSet /\ retiredAt[set] # ZeroTime => fetchedAt <= retiredAt[set] + FetchTimeout
  /\ \A f \in Flights :
       flights[f].phase = "responded" /\ flights[f].err = "nil" =>
         /\ flights[f].set \in Docs
         /\ newestSeen <= flights[f].set
         /\ flights[f].set <= published
         /\ retiredAt[flights[f].set] # ZeroTime => lastAttempt <= retiredAt[flights[f].set]

\* A waiting call never began after its flight's document had gone for longer
\* than a request takes, nor after a newer document had been shown.
CallInv ==
  \A c \in Callers :
    /\ call[c].floor <= newestShown
    /\ LET fl == flights[call[c].fl] IN
       call[c].pc # "idle" /\ Finished(call[c].fl) /\ fl.err = "nil" =>
         /\ fl.set \in Docs
         /\ call[c].floor <= fl.set
         /\ fl.set <= newestSeen
         /\ retiredAt[fl.set] # ZeroTime => call[c].start <= retiredAt[fl.set] + FetchTimeout

BlameInv ==
  /\ lastErr = "ErrKeyFetch" => upstreamDown
  /\ \A f \in Flights : flights[f].err = "ErrKeyFetch" => upstreamDown

\* lastAttempt carries the history the counter bound needs.
AttemptInv ==
  attempts > 0 => /\ lastAttempt >= 1
                  /\ (attempts - 1) * MinRefresh <= lastAttempt - 1

IInv == TypeOK /\ FlightInv /\ TimeInv /\ DocInv /\ CallInv /\ BlameInv /\ AttemptInv

\* A returning call: its record becomes Idle, no other changes, and a flight is
\* dropped only when it is finished and nobody else holds it.
LEMMA ReturnEffect ==
  ASSUME TypeOK, NEW c \in Callers, NEW cl, NEW r, NEW cause, ReturnStep(c, cl, r, cause)
  PROVE  /\ call'[c] = Idle
         /\ \A d \in Callers : call'[d] = call[d] \/ call'[d] = Idle
         /\ \A f \in Flights :
              \/ flights'[f] = flights[f]
              \/ /\ flights'[f] = NilFlight
                 /\ flights[f].phase \in {"unlocked", "closed"}
                 /\ \A d \in Callers : call'[d].fl # f
         /\ newestShown' = Larger(newestShown, r.doc)
         /\ outcome' = [call |-> cl, kind |-> r.kind, doc |-> r.doc, cause |-> cause]
<1>1. /\ call' = [call EXCEPT ![c] = Idle]
      /\ flights' = Collect(flights, call')
      /\ newestShown' = Larger(newestShown, r.doc)
      /\ outcome' = [call |-> cl, kind |-> r.kind, doc |-> r.doc, cause |-> cause]
  BY DEF ReturnStep, Return
<1>2. /\ call'[c] = Idle
      /\ \A d \in Callers : call'[d] = call[d] \/ call'[d] = Idle
  BY <1>1 DEF TypeOK
<1>3. \A f \in Flights :
         \/ flights'[f] = flights[f]
         \/ /\ flights'[f] = NilFlight
            /\ flights[f].phase \in {"unlocked", "closed"}
            /\ \A d \in Callers : call'[d].fl # f
  BY <1>1 DEF Collect
<1> QED BY <1>1, <1>2, <1>3

\* The fields of the empty records.
LEMMA IdleFields == /\ Idle.pc = "idle" /\ Idle.fl = NoFlight
                    /\ Idle.start = 0 /\ Idle.floor = 0
                    /\ NilFlight.phase = "free" /\ NilFlight.err = "nil"
                    /\ NewFlight.phase = "fetching" /\ NewFlight.err = "nil"
                    /\ Nothing.kind = "none"
BY DEF Idle, NilFlight, NewFlight, Nothing, ZeroTime, NilSet

\* Starting or joining: a started flight was free, so nobody held it.
LEMMA StartEffect ==
  ASSUME TypeOK, FlightInv, NEW f \in Flights, startFlightLocked(f)
  PROVE  /\ inflight' = f
         /\ flights'[f].phase \in {"fetching", "responded"}
         /\ \A g \in Flights : g # f => flights'[g] = flights[g]
         /\ \/ /\ inflight = f /\ flights' = flights /\ lastAttempt' = lastAttempt
            \/ /\ inflight = NoFlight /\ flights'[f] = NewFlight /\ lastAttempt' = clock
               /\ \A c \in Callers : call[c].pc # "idle" => call[c].fl # f
BY IdleFields DEF startFlightLocked, TypeOK, FlightInv, Running

\* The two calls that wait for a flight, together.
Starting(c, f) ==
  /\ startFlightLocked(f)
  /\ \E k \in Kids, o \in {"lookup", "refresh"} :
       call' = [call EXCEPT ![c] = [Begin(o, k) EXCEPT !.pc = "waiting", !.fl = f]]
  /\ NoReturn
  /\ UNCHANGED <<clock, issuer, cache, newestSeen, upstreamDown>>

\* Lookup and Refresh start or join a flight in the same way.
LEMMA StartingSteps ==
  ASSUME NEW c \in Callers, NEW k \in Kids, LookupFetch(c, k) \/ Refresh(c)
  PROVE  \E f \in Flights : Starting(c, f)
<1>1. CASE LookupFetch(c, k)
  BY <1>1 DEF LookupFetch, Starting
<1>2. CASE Refresh(c)
  BY <1>2, DocsType DEF Refresh, Starting, ghosts
<1> QED BY <1>1, <1>2

\* A call that starts or joins a flight is well typed.
LEMMA StartingCalls ==
  ASSUME TypeOK, NEW c \in Callers, NEW f \in Flights, Starting(c, f)
  PROVE  /\ call'[c].pc = "waiting" /\ call'[c].fl = f
         /\ call'[c].start = clock /\ call'[c].floor = newestShown
         /\ \A d \in Callers : d # c => call'[d] = call[d]
<1>1. PICK k \in Kids, o \in {"lookup", "refresh"} :
        call' = [call EXCEPT ![c] = [Begin(o, k) EXCEPT !.pc = "waiting", !.fl = f]]
  BY DEF Starting
<1>2. /\ call'[c] = [Begin(o, k) EXCEPT !.pc = "waiting", !.fl = f]
      /\ \A d \in Callers : d # c => call'[d] = call[d]
  BY <1>1 DEF TypeOK
<1>3. Begin(o, k).start = clock /\ Begin(o, k).floor = newestShown
  BY DEF Begin, Idle
<1>4. Begin(o, k) \in CallType
  BY BeginType
<1> QED BY <1>2, <1>3, <1>4 DEF CallType

\* StepCases with the two ways of starting a flight taken together.
LEMMA StepCases2 ==
  ASSUME TypeOK, [Next]_vars
  PROVE  \/ Returning
         \/ \E c \in Callers : Retrying(c)
         \/ \E c \in Callers, f \in Flights : Starting(c, f)
         \/ \E f \in Flights :
              FetchSucceeds(f) \/ FetchFails(f) \/ FlightCompletes(f) \/ CloseDone(f)
         \/ Publish \/ Tick \/ UNCHANGED vars
BY StepCases, StartingSteps, DocsType DEF FlightStep

\* Only the flight f.inflight names is running, and a held flight exists.
LEMMA FlightInductive == TypeOK /\ FlightInv /\ [Next]_vars => FlightInv'
<1> SUFFICES ASSUME TypeOK, FlightInv, [Next]_vars PROVE FlightInv'
  OBVIOUS
<1> USE DEF FlightInv, SingleFlight, Running
<1>1. CASE Returning
  <2>1. PICK c \in Callers, cl \in CallType, r \in ResultType, cause \in Errors :
          ReturnStep(c, cl, r, cause)
    BY <1>1 DEF Returning
  <2>2. inflight' = inflight
    BY <2>1 DEF ReturnStep
  <2> QED BY <2>1, <2>2, ReturnEffect, IdleFields DEF TypeOK
<1>2. ASSUME NEW c \in Callers, Retrying(c) PROVE FlightInv'
  <2>1. /\ \A d \in Callers : call'[d].pc # "idle" => call[d].pc # "idle"
        /\ \A d \in Callers : call'[d].fl = call[d].fl
    BY <1>2 DEF Retrying, TypeOK, CallType
  <2> QED BY <1>2, <2>1 DEF Retrying, TypeOK
<1>3. ASSUME NEW c \in Callers, NEW f \in Flights, Starting(c, f) PROVE FlightInv'
  <2>1. startFlightLocked(f)
    BY <1>3 DEF Starting
  <2> QED BY <1>3, <2>1, StartEffect, StartingCalls DEF TypeOK
<1>4. ASSUME NEW f \in Flights, FetchSucceeds(f) \/ FetchFails(f) PROVE FlightInv'
  <2>1. /\ flights'[f].phase = "responded" /\ flights[f].phase = "fetching"
        /\ \A g \in Flights : g # f => flights'[g] = flights[g]
        /\ inflight' = inflight /\ call' = call
    BY <1>4 DEF FetchSucceeds, FetchFails, TypeOK, FlightType
  <2> QED BY <2>1 DEF TypeOK
<1>5. ASSUME NEW f \in Flights, FlightCompletes(f) PROVE FlightInv'
  <2> DEFINE fls == [flights EXCEPT ![f].phase = "unlocked", ![f].cc = NoResponse]
  <2>1. fls \in [Flights -> FlightType] /\ fls[f].phase = "unlocked"
        /\ \A g \in Flights : g # f => fls[g] = flights[g]
    BY ConstantTypes DEF TypeOK, FlightType
  <2>2. flights' = Collect(fls, call) /\ inflight' = NoFlight /\ call' = call
        /\ flights[f].phase = "responded"
    BY <1>5 DEF FlightCompletes
  <2> HIDE DEF fls
  <2>3. \A g \in Flights :
          \/ flights'[g] = fls[g]
          \/ flights'[g] = NilFlight /\ \A d \in Callers : call[d].fl # g
    BY <2>1, <2>2, CollectType
  <2> QED BY <2>1, <2>2, <2>3, IdleFields DEF TypeOK
<1>6. ASSUME NEW f \in Flights, CloseDone(f) PROVE FlightInv'
  <2>1. /\ flights'[f].phase = "closed" /\ flights[f].phase = "unlocked"
        /\ \A g \in Flights : g # f => flights'[g] = flights[g]
        /\ inflight' = inflight /\ call' = call
    BY <1>6 DEF CloseDone, TypeOK, FlightType
  <2> QED BY <2>1 DEF TypeOK
<1>7. CASE Publish \/ Tick \/ UNCHANGED vars
  BY <1>7 DEF Publish, Tick, vars
<1> QED BY <1>1, <1>2, <1>3, <1>4, <1>5, <1>6, <1>7, StepCases2

\* Times lie in the past, and the freshness lifetime within its cap.
LEMMA TimeInductive == TypeOK /\ FlightInv /\ TimeInv /\ [Next]_vars => TimeInv'
<1> SUFFICES ASSUME TypeOK, FlightInv, TimeInv, [Next]_vars PROVE TimeInv'
  OBVIOUS
<1> USE DEF TimeInv
<1>1. CASE Returning
  <2>1. PICK c \in Callers, cl \in CallType, r \in ResultType, cause \in Errors :
          ReturnStep(c, cl, r, cause)
    BY <1>1 DEF Returning
  <2>2. UNCHANGED <<clock, inflight, lastAttempt, fetchedAt, freshFor>>
    BY <2>1 DEF ReturnStep, cache
  <2> QED BY <2>1, <2>2, ReturnEffect, IdleFields DEF TypeOK
<1>2. ASSUME NEW c \in Callers, Retrying(c) PROVE TimeInv'
  <2>1. \A d \in Callers : call'[d].start = call[d].start
    BY <1>2 DEF Retrying, TypeOK, CallType
  <2> QED BY <1>2, <2>1 DEF Retrying, cache
<1>3. ASSUME NEW c \in Callers, NEW f \in Flights, Starting(c, f) PROVE TimeInv'
  <2>1. startFlightLocked(f) /\ UNCHANGED <<clock, fetchedAt, freshFor>>
    BY <1>3 DEF Starting, cache
  <2>2. \A d \in Callers : call'[d].start <= clock
    BY <1>3, StartingCalls DEF TypeOK
  <2> QED BY <2>1, <2>2, StartEffect DEF TypeOK
<1>4. ASSUME NEW f \in Flights, FetchSucceeds(f) \/ FetchFails(f) \/ CloseDone(f) PROVE TimeInv'
  BY <1>4 DEF FetchSucceeds, FetchFails, CloseDone, cache
<1>5. ASSUME NEW f \in Flights, FlightCompletes(f) PROVE TimeInv'
  <2>1. flights[f].cc \in CacheControl
    BY DEF TypeOK, FlightType
  <2>2. freshFor' <= Larger(MinRefresh, MaxCache)
    BY <1>5, <2>1, freshLifetimeType DEF FlightCompletes, Larger
  <2>3. fetchedAt' <= clock
    BY <1>5 DEF FlightCompletes, ZeroTime, TypeOK
  <2> QED BY <1>5, <2>2, <2>3 DEF FlightCompletes
<1>6. CASE Publish \/ UNCHANGED vars
  BY <1>6 DEF Publish, vars, cache
<1>7. CASE Tick
  <2>1. \A c \in Callers : call[c].start \in Nat
    BY DEF TypeOK, CallType
  <2> QED BY <1>7, <2>1 DEF Tick, cache, TypeOK
<1> QED BY <1>1, <1>2, <1>3, <1>4, <1>5, <1>6, <1>7, StepCases2

\* Fields of the flights and calls the next proofs compute with.
LEMMA FieldTypes ==
  ASSUME TypeOK
  PROVE  /\ \A f \in Flights : /\ flights[f].set \in Docs \cup {NilSet}
                               /\ flights[f].err \in Errors
                               /\ flights[f].cc \in CacheControl
         /\ \A c \in Callers : /\ call[c].floor \in Nat /\ call[c].start \in Nat
                               /\ call[c].pc # "idle" => call[c].fl \in Flights
         /\ \A d \in Docs : d \in Nat /\ retiredAt[d] \in Nat
         /\ set \in Nat /\ newestSeen \in Nat /\ newestShown \in Nat /\ published \in Nat
<1>1. \A f \in Flights : /\ flights[f].set \in Docs \cup {NilSet}
                         /\ flights[f].err \in Errors
                         /\ flights[f].cc \in CacheControl
  BY DEF TypeOK, FlightType
<1>2. Docs \cup {NilSet} \subseteq Nat
  BY DocNat
<1>3. \A c \in Callers : /\ call[c].floor \in Docs \cup {NilSet} /\ call[c].start \in Nat
                         /\ call[c].pc # "idle" => call[c].fl \in Flights
  BY DEF TypeOK, CallType
<1>4. \A d \in Docs : retiredAt[d] \in Nat
  BY DEF TypeOK
<1> QED BY <1>1, <1>2, <1>3, <1>4 DEF TypeOK

\* A document a returning call shows is one that has been fetched.
LEMMA ShownIsSeen ==
  ASSUME TypeOK, DocInv, CallInv, NEW c \in Callers, NEW cl, NEW r, NEW cause,
         ReturnStep(c, cl, r, cause)
  PROVE  r.doc \in Docs \cup {NilSet} /\ r.doc <= newestSeen
<1>1. CASE FromCache(cl, r)
  BY <1>1, FieldTypes DEF FromCache, DocInv, TypeOK
<1>2. CASE Keyless(r)
  BY <1>2, FieldTypes DEF Keyless, NilSet
<1>3. CASE FromFlight(cl, r)
  <2>1. call[c].pc # "idle" /\ cl = call[c]
    BY <1>3 DEF ReturnStep, FromFlight, Begin, Idle
  <2> QED BY <1>3, <2>1, FieldTypes DEF FromFlight, CallInv, Finished
<1> QED BY <1>1, <1>2, <1>3 DEF ReturnStep

\* The retained document, the documents fetched and those shown are in order.
LEMMA DocInductive ==
  TypeOK /\ FlightInv /\ TimeInv /\ DocInv /\ CallInv /\ [Next]_vars => DocInv'
<1> SUFFICES ASSUME TypeOK, FlightInv, TimeInv, DocInv, CallInv, [Next]_vars PROVE DocInv'
  OBVIOUS
<1> USE DocsType, FieldTypes
<1>1. CASE Returning
  <2>1. PICK c \in Callers, cl \in CallType, r \in ResultType, cause \in Errors :
          ReturnStep(c, cl, r, cause)
    BY <1>1 DEF Returning
  <2>2. UNCHANGED <<published, retiredAt, set, fetchedAt, lastAttempt, newestSeen>>
    BY <2>1 DEF ReturnStep, issuer, cache, ghosts
  <2>3. newestShown' <= newestSeen
    BY <2>1, ShownIsSeen, ReturnEffect DEF DocInv, Larger, NilSet
  <2>4. \A f \in Flights : flights'[f] = flights[f] \/ flights'[f].phase = "free"
    BY <2>1, ReturnEffect, IdleFields
  <2> QED BY <2>2, <2>3, <2>4 DEF DocInv
<1>2. ASSUME NEW c \in Callers, Retrying(c) PROVE DocInv'
  BY <1>2 DEF Retrying, NoReturn, issuer, cache, ghosts, DocInv
<1>3. ASSUME NEW c \in Callers, NEW f \in Flights, Starting(c, f) PROVE DocInv'
  <2>1. /\ startFlightLocked(f)
        /\ UNCHANGED <<published, retiredAt, set, fetchedAt, newestSeen, newestShown>>
    BY <1>3 DEF Starting, NoReturn, issuer, cache
  <2>2. \A g \in Flights : flights'[g].phase = "responded" =>
           flights'[g] = flights[g] /\ lastAttempt' = lastAttempt
    BY <2>1, StartEffect, IdleFields DEF FlightInv, SingleFlight, Running
  <2> QED BY <2>1, <2>2 DEF DocInv
<1>4. ASSUME NEW f \in Flights, FetchSucceeds(f) PROVE DocInv'
  <2>1. /\ flights'[f].set = published /\ published \in Docs
        /\ \A g \in Flights : g # f => flights'[g] = flights[g]
    BY <1>4 DEF FetchSucceeds, TypeOK, FlightType
  <2>2. UNCHANGED <<published, retiredAt, set, fetchedAt, lastAttempt, newestSeen, newestShown>>
    BY <1>4 DEF FetchSucceeds, NoReturn, issuer, cache, ghosts
  <2> QED BY <2>1, <2>2 DEF DocInv
<1>5. ASSUME NEW f \in Flights, FetchFails(f) PROVE DocInv'
  <2>1. /\ flights'[f].err = "ErrKeyFetch"
        /\ \A g \in Flights : g # f => flights'[g] = flights[g]
    BY <1>5 DEF FetchFails, TypeOK, FlightType
  <2>2. UNCHANGED <<published, retiredAt, set, fetchedAt, lastAttempt, newestSeen, newestShown>>
    BY <1>5 DEF FetchFails, NoReturn, issuer, cache
  <2> QED BY <2>1, <2>2 DEF DocInv
<1>6. ASSUME NEW f \in Flights, FlightCompletes(f) PROVE DocInv'
  <2> DEFINE fl == flights[f]
             fls == [flights EXCEPT ![f].phase = "unlocked", ![f].cc = NoResponse]
  <2>1. /\ fls \in [Flights -> FlightType] /\ fls[f].phase = "unlocked"
        /\ \A g \in Flights : g # f => fls[g] = flights[g]
    BY ConstantTypes DEF TypeOK, FlightType
  <2>2. /\ flights' = Collect(fls, call) /\ fl.phase = "responded"
        /\ UNCHANGED <<published, retiredAt, lastAttempt, newestShown, clock>>
    BY <1>6 DEF FlightCompletes, NoReturn, issuer
  <2>3. \A g \in Flights : flights'[g].phase # "responded"
    <3> HIDE DEF fls
    <3>1. \A g \in Flights : flights'[g] = fls[g] \/ flights'[g] = NilFlight
      BY <2>1, <2>2, CollectType
    <3>2. \A g \in Flights : g # f => flights[g].phase # "responded"
      BY <2>2 DEF FlightInv, SingleFlight, Running
    <3> QED BY <2>1, <3>1, <3>2, IdleFields
  <2>4. clock <= lastAttempt + FetchTimeout
    BY <2>2 DEF TimeInv, FlightInv, SingleFlight, Running
  <2>5. CASE fl.err = "nil"
    <3>1. /\ fl.set \in Docs /\ newestSeen <= fl.set /\ fl.set <= published
          /\ retiredAt[fl.set] # ZeroTime => lastAttempt <= retiredAt[fl.set]
      BY <2>2, <2>5 DEF DocInv
    <3>2. /\ newestSeen' = fl.set
          /\ \/ set' = NilSet
             \/ set' = fl.set /\ fetchedAt' = clock
      BY <1>6, <2>5 DEF FlightCompletes
    <3>3. retiredAt[fl.set] # ZeroTime => clock <= retiredAt[fl.set] + FetchTimeout
      <4>1. retiredAt[fl.set] \in Nat /\ clock \in Nat /\ lastAttempt \in Nat
        BY <3>1 DEF TypeOK
      <4> HIDE DEF fl
      <4> QED BY <2>4, <3>1, <4>1
    <3> HIDE DEF fl
    <3>4. /\ newestShown' <= newestSeen' /\ newestSeen' <= published'
          /\ set' # NilSet => set' = newestSeen'
      BY <2>2, <3>1, <3>2 DEF DocInv
    <3>5. set' # NilSet /\ retiredAt'[set'] # ZeroTime
            => fetchedAt' <= retiredAt'[set'] + FetchTimeout
      BY <2>2, <3>2, <3>3
    <3>6. \A d \in Docs : d >= published' => retiredAt'[d] = ZeroTime
      BY <2>2 DEF DocInv
    <3> QED BY <2>3, <3>4, <3>5, <3>6 DEF DocInv
  <2>6. CASE fl.err # "nil"
    <3>1. UNCHANGED <<set, fetchedAt, newestSeen>>
      BY <1>6, <2>6 DEF FlightCompletes
    <3> QED BY <2>2, <2>3, <3>1 DEF DocInv
  <2> QED BY <2>5, <2>6
<1>7. ASSUME NEW f \in Flights, CloseDone(f) PROVE DocInv'
  <2>1. /\ flights'[f].phase = "closed"
        /\ \A g \in Flights : g # f => flights'[g] = flights[g]
    BY <1>7 DEF CloseDone, TypeOK, FlightType
  <2>2. UNCHANGED <<published, retiredAt, set, fetchedAt, lastAttempt, newestSeen, newestShown>>
    BY <1>7 DEF CloseDone, NoReturn, issuer, cache, ghosts
  <2> QED BY <2>1, <2>2 DEF DocInv
<1>8. CASE Publish
  <2>1. /\ published' = published + 1
        /\ retiredAt'[published] = clock
        /\ \A d \in Docs : d # published => retiredAt'[d] = retiredAt[d]
        /\ UNCHANGED <<set, fetchedAt, lastAttempt, flights, newestSeen, newestShown>>
    BY <1>8 DEF Publish, NoReturn, cache, ghosts, TypeOK
  <2>2. clock \in Nat /\ lastAttempt \in Nat /\ fetchedAt \in Nat
        /\ lastAttempt <= clock /\ fetchedAt <= clock
    BY DEF TimeInv, TypeOK
  <2>3. /\ newestShown' <= newestSeen' /\ newestSeen' <= published'
        /\ set' # NilSet => set' = newestSeen'
    BY <2>1 DEF DocInv
  <2>4. \A d \in Docs : d >= published' => retiredAt'[d] = ZeroTime
    BY <2>1 DEF DocInv
  <2>5. set' # NilSet /\ retiredAt'[set'] # ZeroTime
          => fetchedAt' <= retiredAt'[set'] + FetchTimeout
    BY <2>1, <2>2 DEF DocInv, TypeOK
  <2>6. ASSUME NEW f \in Flights, flights'[f].phase = "responded", flights'[f].err = "nil"
        PROVE  /\ flights'[f].set \in Docs
               /\ newestSeen' <= flights'[f].set
               /\ flights'[f].set <= published'
               /\ retiredAt'[flights'[f].set] # ZeroTime
                    => lastAttempt' <= retiredAt'[flights'[f].set]
    <3> DEFINE d == flights[f].set
    <3>1. /\ d \in Docs /\ newestSeen <= d /\ d <= published
          /\ retiredAt[d] # ZeroTime => lastAttempt <= retiredAt[d]
      BY <2>1, <2>6 DEF DocInv
    <3>2. d <= published + 1
      <4>1. d \in Nat /\ published \in Nat
        BY <3>1
      <4> HIDE DEF d
      <4> QED BY <3>1, <4>1
    <3>3. retiredAt'[d] # ZeroTime => lastAttempt <= retiredAt'[d]
      <4> HIDE DEF d
      <4>1. CASE d = published
        BY <2>1, <2>2, <4>1
      <4>2. CASE d # published
        BY <2>1, <3>1, <4>2
      <4> QED BY <4>1, <4>2
    <3>4. flights'[f].set = d
      BY <2>1
    <3> HIDE DEF d
    <3> QED BY <2>1, <3>1, <3>2, <3>3, <3>4
  <2> QED BY <2>3, <2>4, <2>5, <2>6 DEF DocInv
<1>9. CASE Tick \/ UNCHANGED vars
  BY <1>9 DEF Tick, vars, NoReturn, issuer, cache, ghosts, DocInv
<1> QED BY <1>1, <1>2, <1>3, <1>4, <1>5, <1>6, <1>7, <1>8, <1>9, StepCases2

\* A waiting call has not seen more than the fetcher, and its flight is recent.
LEMMA CallInductive ==
  TypeOK /\ FlightInv /\ TimeInv /\ DocInv /\ CallInv /\ [Next]_vars => CallInv'
<1> SUFFICES ASSUME TypeOK, FlightInv, TimeInv, DocInv, CallInv, [Next]_vars PROVE CallInv'
  OBVIOUS
<1> USE DocsType, FieldTypes
<1> DEFINE Good(c) ==
      LET fl == flights[call[c].fl] IN
      call[c].pc # "idle" /\ Finished(call[c].fl) /\ fl.err = "nil" =>
        /\ fl.set \in Docs
        /\ call[c].floor <= fl.set
        /\ fl.set <= newestSeen
        /\ retiredAt[fl.set] # ZeroTime => call[c].start <= retiredAt[fl.set] + FetchTimeout
<1>0. SUFFICES ASSUME NEW d \in Callers PROVE call'[d].floor <= newestShown' /\ Good(d)'
  BY DEF CallInv
<1>a. call[d].floor <= newestShown /\ Good(d)
  BY DEF CallInv
<1>b. /\ newestShown \in Nat /\ newestSeen \in Nat /\ published \in Nat
      /\ call[d].floor \in Nat /\ call[d].start \in Nat
      /\ newestShown <= newestSeen
  BY DEF DocInv
<1>1. CASE Returning
  <2>1. PICK c \in Callers, cl \in CallType, r \in ResultType, cause \in Errors :
          ReturnStep(c, cl, r, cause)
    BY <1>1 DEF Returning
  <2>2. UNCHANGED <<retiredAt, newestSeen>>
    BY <2>1 DEF ReturnStep, issuer, ghosts
  <2>6. newestShown' \in Nat /\ r.doc \in Nat
    <3>1. r.doc \in Docs \cup {NilSet}
      BY <2>1, ShownIsSeen
    <3>2. r.doc \in Nat
      BY <3>1, DocNat, Zenon
    <3>3. newestShown' = Larger(newestShown, r.doc)
      BY <2>1, ReturnEffect
    <3> QED BY <1>b, <3>2, <3>3 DEF Larger
  <2>3. newestShown <= newestShown'
    <3>2. newestShown' = Larger(newestShown, r.doc)
      BY <2>1, ReturnEffect
    <3> QED BY <1>b, <2>6, <3>2 DEF Larger
  <2>4. CASE call'[d] = Idle
    BY <2>4, <2>6, IdleFields
  <2>5. CASE call'[d] = call[d]
    <3>1. call'[d].pc # "idle" => flights'[call[d].fl] = flights[call[d].fl]
      BY <2>1, <2>5, ReturnEffect
    <3>3. call'[d].floor <= newestShown'
      BY <1>a, <1>b, <2>3, <2>5, <2>6
    <3>4. Good(d)'
      BY <1>a, <2>2, <2>5, <3>1 DEF Finished
    <3> QED BY <3>3, <3>4
  <2> QED BY <2>1, <2>4, <2>5, ReturnEffect
<1>2. ASSUME NEW c \in Callers, Retrying(c) PROVE call'[d].floor <= newestShown' /\ Good(d)'
  <2>1. /\ call'[d].floor = call[d].floor /\ call'[d].start = call[d].start
        /\ call'[d].fl = call[d].fl /\ (call'[d].pc # "idle" => call[d].pc # "idle")
    BY <1>2 DEF Retrying, TypeOK, CallType
  <2>2. UNCHANGED <<flights, retiredAt, newestSeen, newestShown>>
    BY <1>2 DEF Retrying, NoReturn, issuer, ghosts
  <2> QED BY <1>a, <2>1, <2>2 DEF Finished
<1>3. ASSUME NEW c \in Callers, NEW f \in Flights, Starting(c, f)
      PROVE  call'[d].floor <= newestShown' /\ Good(d)'
  <2>1. startFlightLocked(f) /\ UNCHANGED <<retiredAt, newestSeen, newestShown>>
    BY <1>3 DEF Starting, NoReturn, issuer
  <2>2. CASE d = c
    <3>1. call'[d].floor = newestShown /\ call'[d].fl = f
      BY <1>3, <2>2, StartingCalls
    <3>2. ~Finished(f)'
      BY <2>1, StartEffect DEF Finished
    <3> QED BY <2>1, <3>1, <3>2
  <2>3. CASE d # c
    <3>1. call'[d] = call[d]
      BY <1>3, <2>3, StartingCalls
    <3>2. Finished(call[d].fl)' /\ call[d].pc # "idle"
            => flights'[call[d].fl] = flights[call[d].fl]
      BY <2>1, StartEffect, IdleFields DEF Finished
    <3> QED BY <1>a, <2>1, <3>1, <3>2 DEF Finished
  <2> QED BY <2>2, <2>3
<1>4. ASSUME NEW f \in Flights, FetchSucceeds(f) \/ FetchFails(f)
      PROVE  call'[d].floor <= newestShown' /\ Good(d)'
  <2>1. /\ flights'[f].phase = "responded"
        /\ \A g \in Flights : g # f => flights'[g] = flights[g]
    BY <1>4 DEF FetchSucceeds, FetchFails, TypeOK, FlightType
  <2>2. UNCHANGED <<call, retiredAt, newestSeen, newestShown>>
    BY <1>4 DEF FetchSucceeds, FetchFails, NoReturn, issuer, ghosts
  <2> QED BY <1>a, <2>1, <2>2 DEF Finished
<1>5. ASSUME NEW f \in Flights, FlightCompletes(f)
      PROVE  call'[d].floor <= newestShown' /\ Good(d)'
  <2> DEFINE fl == flights[f]
             fls == [flights EXCEPT ![f].phase = "unlocked", ![f].cc = NoResponse]
  <2>1. /\ fls \in [Flights -> FlightType]
        /\ fls[f].set = fl.set /\ fls[f].err = fl.err
        /\ \A g \in Flights : g # f => fls[g] = flights[g]
    BY ConstantTypes DEF TypeOK, FlightType
  <2>2. /\ flights' = Collect(fls, call) /\ fl.phase = "responded"
        /\ UNCHANGED <<call, retiredAt, newestShown>>
    BY <1>5 DEF FlightCompletes, NoReturn, issuer
  <2>3. call[d].pc # "idle" => flights'[call[d].fl] = fls[call[d].fl]
    <3> HIDE DEF fls
    <3> QED BY <2>1, <2>2, CollectType
  <2>4. newestSeen <= newestSeen'
    BY <1>5, <2>2 DEF FlightCompletes, DocInv
  <2>5. CASE call[d].pc # "idle" /\ call[d].fl = f /\ fl.err = "nil"
    <3>1. /\ fl.set \in Docs /\ newestSeen <= fl.set /\ newestSeen' = fl.set
          /\ retiredAt[fl.set] # ZeroTime => lastAttempt <= retiredAt[fl.set]
      BY <1>5, <2>2, <2>5 DEF DocInv, FlightCompletes
    <3>2. call[d].floor <= fl.set
      <4>1. fl.set \in Nat
        BY <3>1
      <4> HIDE DEF fl
      <4> QED BY <1>a, <1>b, <3>1, <4>1
    <3>3. call[d].start <= lastAttempt + FetchTimeout
      <4>1. clock <= lastAttempt + FetchTimeout
        BY <2>2 DEF TimeInv, FlightInv, SingleFlight, Running
      <4>2. call[d].start <= clock
        BY DEF TimeInv
      <4> QED BY <4>1, <4>2 DEF TypeOK
    <3>4. retiredAt[fl.set] # ZeroTime => call[d].start <= retiredAt[fl.set] + FetchTimeout
      <4>1. retiredAt[fl.set] \in Nat /\ lastAttempt \in Nat
        BY <3>1 DEF TypeOK
      <4> HIDE DEF fl
      <4> QED BY <3>1, <3>3, <4>1
    <3>5. flights'[call'[d].fl].set = fl.set
      BY <2>1, <2>2, <2>3, <2>5
    <3> HIDE DEF fl, fls
    <3>6. fl.set <= newestSeen'
      <4>1. fl.set \in Nat
        BY <3>1
      <4> QED BY <3>1, <4>1
    <3> QED BY <1>a, <2>2, <3>1, <3>2, <3>4, <3>5, <3>6
  <2>6. CASE call[d].pc # "idle" /\ call[d].fl = f /\ fl.err # "nil"
    BY <1>a, <2>1, <2>2, <2>3, <2>6
  <2>7. CASE call[d].pc = "idle" \/ call[d].fl # f
    <3>1. CASE call[d].pc = "idle"
      BY <1>a, <2>2, <3>1
    <3>2. CASE call[d].pc # "idle" /\ call[d].fl # f
      <4> DEFINE x == flights[call[d].fl].set
      <4>1. flights'[call'[d].fl] = flights[call[d].fl]
        BY <2>1, <2>2, <2>3, <3>2
      <4>2. newestSeen' \in Nat
        BY <1>5, <2>2 DEF FlightCompletes, DocInv
      <4>3. x \in Docs /\ x <= newestSeen => x <= newestSeen'
        <5>1. x \in Docs => x \in Nat
          OBVIOUS
        <5> HIDE DEF x
        <5> QED BY <1>b, <2>4, <4>2, <5>1
      <4> QED BY <1>a, <2>2, <4>1, <4>3 DEF Finished
    <3> QED BY <2>7, <3>1, <3>2
  <2> QED BY <2>5, <2>6, <2>7
<1>6. ASSUME NEW f \in Flights, CloseDone(f) PROVE call'[d].floor <= newestShown' /\ Good(d)'
  <2>1. /\ flights'[f].set = flights[f].set /\ flights'[f].err = flights[f].err
        /\ flights[f].phase = "unlocked"
        /\ \A g \in Flights : g # f => flights'[g] = flights[g]
    BY <1>6 DEF CloseDone, TypeOK, FlightType
  <2>2. UNCHANGED <<call, retiredAt, newestSeen, newestShown>>
    BY <1>6 DEF CloseDone, NoReturn, issuer, ghosts
  <2> QED BY <1>a, <2>1, <2>2 DEF Finished
<1>7. CASE Publish
  <2>1. /\ retiredAt'[published] = clock
        /\ \A e \in Docs : e # published => retiredAt'[e] = retiredAt[e]
        /\ UNCHANGED <<call, flights, newestSeen, newestShown>>
    BY <1>7 DEF Publish, NoReturn, ghosts, TypeOK
  <2>2. call[d].start <= clock /\ clock \in Nat
    BY DEF TimeInv, TypeOK
  <2>3. CASE flights[call[d].fl].set = published
    BY <1>a, <2>1, <2>2, <2>3 DEF Finished
  <2>4. CASE flights[call[d].fl].set # published
    BY <1>a, <2>1, <2>4 DEF Finished
  <2> QED BY <2>3, <2>4
<1>8. CASE Tick \/ UNCHANGED vars
  BY <1>8, <1>a DEF Tick, vars, NoReturn, issuer, ghosts, Finished
<1> QED BY <1>1, <1>2, <1>3, <1>4, <1>5, <1>6, <1>7, <1>8, StepCases2

\* An error in the fetcher or in a flight comes from a request that failed.
LEMMA BlameInductive == TypeOK /\ FlightInv /\ BlameInv /\ [Next]_vars => BlameInv'
<1> SUFFICES ASSUME TypeOK, FlightInv, BlameInv, [Next]_vars PROVE BlameInv'
  OBVIOUS
<1> USE DEF BlameInv
<1>1. CASE Returning
  <2>1. PICK c \in Callers, cl \in CallType, r \in ResultType, cause \in Errors :
          ReturnStep(c, cl, r, cause)
    BY <1>1 DEF Returning
  <2>2. UNCHANGED <<lastErr, upstreamDown>>
    BY <2>1 DEF ReturnStep, cache, ghosts
  <2>3. \A f \in Flights : flights'[f] = flights[f] \/ flights'[f].err = "nil"
    BY <2>1, ReturnEffect, IdleFields
  <2> QED BY <2>2, <2>3
<1>2. ASSUME NEW c \in Callers, Retrying(c) PROVE BlameInv'
  BY <1>2 DEF Retrying, cache, ghosts
<1>3. ASSUME NEW c \in Callers, NEW f \in Flights, Starting(c, f) PROVE BlameInv'
  <2>1. startFlightLocked(f) /\ UNCHANGED <<lastErr, upstreamDown>>
    BY <1>3 DEF Starting, cache
  <2>2. \A g \in Flights : flights'[g] = flights[g] \/ flights'[g].err = "nil"
    BY <2>1, StartEffect, IdleFields
  <2> QED BY <2>1, <2>2
<1>4. ASSUME NEW f \in Flights, FetchSucceeds(f) \/ CloseDone(f) PROVE BlameInv'
  <2>1. \A g \in Flights : flights'[g].err = flights[g].err
    BY <1>4 DEF FetchSucceeds, CloseDone, TypeOK, FlightType
  <2> QED BY <1>4, <2>1 DEF FetchSucceeds, CloseDone, cache, ghosts
<1>5. ASSUME NEW f \in Flights, FetchFails(f) PROVE BlameInv'
  BY <1>5 DEF FetchFails
<1>6. ASSUME NEW f \in Flights, FlightCompletes(f) PROVE BlameInv'
  <2> DEFINE fls == [flights EXCEPT ![f].phase = "unlocked", ![f].cc = NoResponse]
  <2>1. /\ fls \in [Flights -> FlightType]
        /\ \A g \in Flights : fls[g].err = flights[g].err
    BY ConstantTypes DEF TypeOK, FlightType
  <2>2. /\ flights' = Collect(fls, call)
        /\ lastErr' = flights[f].err /\ upstreamDown' = upstreamDown
    BY <1>6 DEF FlightCompletes
  <2> HIDE DEF fls
  <2>3. \A g \in Flights : flights'[g] = fls[g] \/ flights'[g].err = "nil"
    BY <2>1, <2>2, CollectType, IdleFields
  <2> QED BY <2>1, <2>2, <2>3
<1>7. CASE Publish \/ Tick \/ UNCHANGED vars
  BY <1>7 DEF Publish, Tick, vars, cache, ghosts
<1> QED BY <1>1, <1>2, <1>3, <1>4, <1>5, <1>6, <1>7, StepCases2

\* Only LookupFetch counts an attempt; Refresh can only move lastAttempt later.
LEMMA AttemptInductive == TypeOK /\ TimeInv /\ AttemptInv /\ [Next]_vars => AttemptInv'
<1> SUFFICES ASSUME TypeOK, TimeInv, AttemptInv, [Next]_vars PROVE AttemptInv'
  OBVIOUS
<1> USE DEF AttemptInv
<1>0. /\ clock \in Nat /\ clock >= 1 /\ lastAttempt \in Nat /\ attempts \in Nat
      /\ lastAttempt <= clock
  BY DEF TypeOK, TimeInv
<1>1. CASE Returning \/ \E c \in Callers : Retrying(c)
  <2>1. UNCHANGED <<attempts, lastAttempt>>
    BY <1>1 DEF Returning, ReturnStep, Retrying, ghosts
  <2> QED BY <2>1
<1>2. ASSUME NEW c \in Callers, Refresh(c) PROVE AttemptInv'
  <2>1. attempts' = attempts /\ (lastAttempt' = lastAttempt \/ lastAttempt' = clock)
    BY <1>2 DEF Refresh, ghosts, startFlightLocked
  <2>2. (attempts - 1) * MinRefresh \in Int
    BY <1>0
  <2> QED BY <1>0, <2>1, <2>2
<1>3. ASSUME NEW c \in Callers, NEW k \in Kids, LookupFetch(c, k) PROVE AttemptInv'
  <2>1. CASE inflight # NoFlight
    BY <1>3, <2>1 DEF LookupFetch, startFlightLocked
  <2>2. CASE inflight = NoFlight
    <3>1. attempts' = attempts + 1 /\ lastAttempt' = clock /\ mayAttemptAt(clock)
      BY <1>3, <2>2 DEF LookupFetch, startFlightLocked
    <3>2. CASE attempts = 0
      BY <1>0, <3>1, <3>2
    <3>3. CASE attempts > 0
      <4> DEFINE p == (attempts - 1) * MinRefresh
      <4>1. p \in Int /\ p <= lastAttempt - 1
        BY <1>0, <3>3
      <4>2. (attempts' - 1) * MinRefresh = p + MinRefresh
        BY <1>0, <3>1
      <4>3. clock - lastAttempt >= MinRefresh
        BY <1>0, <3>1, <3>3 DEF mayAttemptAt, ZeroTime
      <4> HIDE DEF p
      <4> QED BY <1>0, <3>1, <4>1, <4>2, <4>3
    <3> QED BY <1>0, <3>2, <3>3
  <2> QED BY <2>1, <2>2
<1>4. ASSUME NEW f \in Flights, FlightStep(f) PROVE AttemptInv'
  <2>1. UNCHANGED <<attempts, lastAttempt>>
    BY <1>4 DEF FlightStep, FetchSucceeds, FetchFails, FlightCompletes, CloseDone, ghosts
  <2> QED BY <2>1
<1>5. CASE Publish \/ Tick \/ UNCHANGED vars
  <2>1. UNCHANGED <<attempts, lastAttempt>>
    BY <1>5 DEF Publish, Tick, vars, ghosts
  <2> QED BY <2>1
<1> QED BY <1>1, <1>2, <1>3, <1>4, <1>5, StepCases

\* A new fetcher satisfies the inductive invariant.
LEMMA InitIInv == Init => IInv
<1> SUFFICES ASSUME Init PROVE IInv
  OBVIOUS
<1>1. TypeOK
  BY InitType
<1>2. FlightInv
  BY IdleFields DEF Init, FlightInv, SingleFlight, Running
<1>3. TimeInv
  BY IdleFields DEF Init, TimeInv, ZeroTime, Larger
<1>4. DocInv
  BY IdleFields, DocsType DEF Init, DocInv, ZeroTime, NilSet
<1>5. CallInv
  BY IdleFields DEF Init, CallInv, NilSet
<1>6. BlameInv /\ AttemptInv
  BY IdleFields DEF Init, BlameInv, AttemptInv
<1> QED BY <1>1, <1>2, <1>3, <1>4, <1>5, <1>6 DEF IInv

\* IInv, which ties the cache, the flights and the calls of keyfetch.go to one
\* another, is an inductive invariant: every theorem below rests on it.
THEOREM Inductive == Spec => []IInv
<1>1. IInv /\ [Next]_vars => IInv'
  BY TypeInductive, FlightInductive, TimeInductive, DocInductive, CallInductive,
     BlameInductive, AttemptInductive DEF IInv
<1> QED BY <1>1, InitIInv, PTL DEF Spec

-----------------------------------------------------------------------------
(* What the calls report.                                                  *)

Reports == /\ MonotonicReads /\ RevokedNotPinned /\ ErrorsFromUpstream
           /\ LastGoodServes /\ FailureNeverMiss

\* The facts about the call record of a returning step.
LEMMA ReturningCall ==
  ASSUME IInv, NEW c \in Callers, NEW cl, NEW r, NEW cause, ReturnStep(c, cl, r, cause)
  PROVE  cl.floor \in Nat /\ cl.floor <= newestShown /\ cl.start \in Nat /\ cl.start <= clock
<1> USE DEF IInv
<1>1. CASE call[c].pc # "idle" /\ cl = call[c]
  BY <1>1, FieldTypes DEF CallInv, TimeInv
<1>2. ASSUME NEW k \in Kids, cl = Begin("lookup", k)
      PROVE  cl.floor \in Nat /\ cl.floor <= newestShown /\ cl.start \in Nat /\ cl.start <= clock
  <2>1. cl.floor = newestShown /\ cl.start = clock
    BY <1>2 DEF Begin, Idle
  <2> QED BY <2>1, FieldTypes DEF TypeOK
<1> QED BY <1>1, <1>2 DEF ReturnStep

\* A retained set that is not served any more is out of both its windows.
LEMMA fallbackClosed ==
  ASSUME IInv, set # NilSet, fallbackSet(clock) = NilSet
  PROVE  clock >= fetchedAt + freshFor + MaxStale
<1>1. /\ clock \in Nat /\ fetchedAt \in Nat /\ freshFor \in Nat /\ fetchedAt <= clock
      /\ MaxStale \in Nat
  BY ConfigAssumption DEF IInv, TypeOK, TimeInv, ValidConfig
<1> QED BY <1>1 DEF fallbackSet, cacheAge, Larger

\* What a returning call reports satisfies the claims about answers.
LEMMA ReportsOnReturn ==
  ASSUME IInv, NEW c \in Callers, NEW cl, NEW r, NEW cause, ReturnStep(c, cl, r, cause)
  PROVE  (MonotonicReads /\ RevokedNotPinned /\ ErrorsFromUpstream)'
<1> USE DEF IInv
<1>1. /\ outcome'.kind = r.kind /\ outcome'.doc = r.doc /\ outcome'.call = cl
      /\ outcome'.cause = cause
      /\ UNCHANGED <<retiredAt, upstreamDown, clock, set, fetchedAt, freshFor>>
  BY ReturnEffect DEF ReturnStep, issuer, ghosts, cache
<1>2. /\ cl.floor \in Nat /\ cl.floor <= newestShown /\ cl.start \in Nat /\ cl.start <= clock
  BY ReturningCall
<1>3. /\ clock \in Nat /\ fetchedAt \in Nat /\ freshFor \in Nat
      /\ freshFor <= Larger(MinRefresh, MaxCache) /\ Larger(MinRefresh, MaxCache) \in Nat
      /\ Larger(MinRefresh, MaxCache) >= 1
      /\ newestShown \in Nat /\ newestSeen \in Nat /\ newestShown <= newestSeen
  BY FieldTypes DEF TimeInv, TypeOK, Larger, DocInv
<1>4. CASE FromCache(cl, r)
  <2>1. set \in Docs /\ set \in Nat /\ set = newestSeen /\ retiredAt[set] \in Nat
    BY <1>4, FieldTypes DEF FromCache, DocInv, TypeOK
  <2>2. retiredAt[set] # ZeroTime => fetchedAt <= retiredAt[set] + FetchTimeout
    BY <1>4 DEF FromCache, DocInv
  <2>3. clock - fetchedAt < freshFor + MaxStale /\ r.doc = set
        /\ r.kind \in {"cached", "fallback"}
    BY <1>4 DEF FromCache
  <2>4. r.doc >= cl.floor
    BY <1>2, <1>3, <2>1, <2>3
  <2>5. retiredAt[set] # ZeroTime => cl.start < retiredAt[set] + PinnedBound
    BY <1>2, <1>3, <2>1, <2>2, <2>3 DEF PinnedBound
  <2> QED BY <1>1, <2>3, <2>4, <2>5
          DEF MonotonicReads, RevokedNotPinned, ErrorsFromUpstream, HasKey, PinnedBound
<1>5. CASE FromFlight(cl, r)
  <2>1. call[c].pc # "idle" /\ cl = call[c]
    BY <1>5 DEF ReturnStep, FromFlight, Begin, Idle
  <2> DEFINE x == flights[cl.fl].set
  <2>2. /\ x \in Docs /\ cl.floor <= x
        /\ retiredAt[x] # ZeroTime => cl.start <= retiredAt[x] + FetchTimeout
    BY <1>5, <2>1 DEF FromFlight, CallInv, Finished
  <2>3. x \in Nat /\ retiredAt[x] \in Nat
    BY <2>2, FieldTypes
  <2>4. r.doc = x /\ r.kind = "fetched"
    BY <1>5 DEF FromFlight
  <2> HIDE DEF x
  <2>5. r.doc >= cl.floor
    BY <1>2, <2>2, <2>3, <2>4
  <2>6. retiredAt[x] # ZeroTime => cl.start < retiredAt[x] + PinnedBound
    BY <1>2, <1>3, <2>2, <2>3 DEF PinnedBound
  <2> QED BY <1>1, <2>4, <2>5, <2>6
          DEF MonotonicReads, RevokedNotPinned, ErrorsFromUpstream, HasKey, PinnedBound
<1>6. CASE Keyless(r)
  <2>1. ASSUME set # NilSet, fallbackSet(clock) = NilSet
        PROVE  clock >= fetchedAt + freshFor + MaxStale
    BY <2>1, fallbackClosed
  <2>2. r.kind = "ErrKeyFetch" =>
          \/ upstreamDown
          \/ /\ cl.op = "lookup" /\ cause = "nil" /\ set # NilSet
             /\ clock >= fetchedAt + freshFor + MaxStale
    BY <2>1 DEF ReturnStep, Blame, BlameInv
  <2>3. ErrorsFromUpstream'
    BY <1>1, <2>2 DEF ErrorsFromUpstream, OutOfWindows
  <2> QED BY <1>1, <1>6, <2>3
          DEF Keyless, MonotonicReads, RevokedNotPinned, HasKey
<1> QED BY <1>4, <1>5, <1>6 DEF ReturnStep

\* A returning call blames a failure only where the last good document does not
\* serve, and never hides one behind a miss.
LEMMA HonestOnReturn ==
  ASSUME IInv, NEW c \in Callers, NEW cl, NEW r, NEW cause, ReturnStep(c, cl, r, cause)
  PROVE  LastGoodServes' /\ FailureNeverMiss'
<1> USE DEF IInv
<1>1. /\ outcome'.kind = r.kind /\ outcome'.call = cl /\ outcome'.cause = cause
      /\ UNCHANGED <<clock, set, fetchedAt, freshFor, newestSeen>>
  BY ReturnEffect DEF ReturnStep, cache, ghosts
<1>2. Honest(cl, r, cause)
  BY DEF ReturnStep
<1>3. FailureNeverMiss'
  BY <1>1, <1>2 DEF Honest, FailureNeverMiss
<1>4. ASSUME ~Holds(fallbackSet(clock), cl.kid)
      PROVE  \/ set = NilSet \/ cl.kid \notin Answers[newestSeen]
             \/ clock >= fetchedAt + freshFor + MaxStale
  <2>1. CASE fallbackSet(clock) = NilSet
    BY <2>1, fallbackClosed
  <2>2. CASE fallbackSet(clock) # NilSet
    BY <1>4, <2>2, fallbackWindow DEF Holds, DocInv
  <2> QED BY <2>1, <2>2
<1>5. LastGoodServes'
  BY <1>1, <1>2, <1>4 DEF Honest, LastGoodServes
<1> QED BY <1>3, <1>5

\* Every step keeps the claims about answers, given IInv.
LEMMA ReportsInductive == IInv /\ Reports /\ [Next]_vars => Reports'
<1> SUFFICES ASSUME IInv, Reports, [Next]_vars PROVE Reports'
  OBVIOUS
<1>1. CASE Returning
  BY <1>1, ReportsOnReturn, HonestOnReturn DEF Returning, Reports
<1>2. CASE NoReturn
  BY <1>2, IdleFields
     DEF NoReturn, Reports, MonotonicReads, RevokedNotPinned, ErrorsFromUpstream,
         OutOfWindows, HasKey, LastGoodServes, FailureNeverMiss
<1>3. CASE UNCHANGED vars
  BY <1>3 DEF vars, issuer, ghosts, cache, Reports, MonotonicReads, RevokedNotPinned,
              ErrorsFromUpstream, OutOfWindows, HasKey, LastGoodServes, FailureNeverMiss
<1>4. Returning \/ NoReturn \/ UNCHANGED vars
  BY StepCases2 DEF IInv, Retrying, Starting, FetchSucceeds, FetchFails, FlightCompletes,
                    CloseDone, Publish, Tick
<1> QED BY <1>1, <1>2, <1>3, <1>4

\* The claims about answers hold in every behaviour.
LEMMA ReportsHold == Spec => []Reports
<1>1. Init => Reports
  BY IdleFields DEF Init, Reports, MonotonicReads, RevokedNotPinned, ErrorsFromUpstream,
                    OutOfWindows, HasKey, LastGoodServes, FailureNeverMiss
<1> QED BY <1>1, Inductive, ReportsInductive, PTL DEF Spec

\* Concurrent lookups and refreshes never have two requests running: the flight
\* that runs is the one f.inflight names.
THEOREM SingleFlightHolds == Spec => []SingleFlight
<1>1. IInv => SingleFlight
  BY DEF IInv, FlightInv
<1> QED BY <1>1, Inductive, PTL

\* Lookup never goes back to a document older than one already answered from.
THEOREM MonotonicReadsHold == Spec => []MonotonicReads
<1>1. Reports => MonotonicReads
  BY DEF Reports
<1> QED BY <1>1, ReportsHold, PTL

\* A withdrawn document stops answering within one request, one freshness
\* lifetime and one stale window.
THEOREM RevocationTakesEffect == Spec => []RevokedNotPinned
<1>1. Reports => RevokedNotPinned
  BY DEF Reports
<1> QED BY <1>1, ReportsHold, PTL

\* A fetch error reported to any caller stems from a request that failed, or from
\* a retained document that is out of its stale window while the rate limit keeps
\* the Lookup from fetching.
THEOREM NoInventedFailure == Spec => []ErrorsFromUpstream
<1>1. Reports => ErrorsFromUpstream
  BY DEF Reports
<1> QED BY <1>1, ReportsHold, PTL

\* A Lookup reports ErrKeyFetch only when the document of the last good fetch is
\* not retained, lacks the kid, or is out of its windows.
THEOREM LastGoodDocumentServes == Spec => []LastGoodServes
<1>1. Reports => LastGoodServes
  BY DEF Reports
<1> QED BY <1>1, ReportsHold, PTL

\* A fetch failure, the call's own or the last one, is never reported as a miss.
THEOREM FailureIsNeverAMiss == Spec => []FailureNeverMiss
<1>1. Reports => FailureNeverMiss
  BY DEF Reports
<1> QED BY <1>1, ReportsHold, PTL

\* Lookup starts at most one request per MinRefresh, and the first.
THEOREM TrafficBounded == Spec => []AttemptsBounded
<1>1. IInv => AttemptsBounded
  <2> SUFFICES ASSUME IInv, attempts > 0 PROVE (attempts - 1) * MinRefresh <= clock - 1
    BY DEF AttemptsBounded
  <2>1. /\ (attempts - 1) * MinRefresh <= lastAttempt - 1 /\ lastAttempt <= clock
        /\ attempts \in Nat /\ lastAttempt \in Nat /\ clock \in Nat
    BY DEF IInv, AttemptInv, TimeInv, TypeOK
  <2>2. (attempts - 1) * MinRefresh \in Int
    BY <2>1
  <2> QED BY <2>1, <2>2
<1> QED BY <1>1, Inductive, PTL
=============================================================================
