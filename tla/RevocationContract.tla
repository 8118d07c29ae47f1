------------------------- MODULE RevocationContract -------------------------
(***************************************************************************)
(* What RevocationStore (revoke.go) promises, without saying how: Revoke   *)
(* marks an identifier as revoked until expiresAt, a bounded store refuses *)
(* rather than forgets, and IsRevoked tells what is revoked now.           *)
(* Time is the wall clock, which does not go back here.                    *)
(***************************************************************************)
EXTENDS Integers, FiniteSets

CONSTANTS Ids,       \* identifiers: a jti, a key thumbprint, a token family
          Times,     \* the expiresAt values callers pass, 0 = never expires
          Capacity,  \* 0 = unbounded
          MaxTime    \* bound: the clock stops here

NotRevoked == -1

VARIABLES clock, until, reply

vars == <<clock, until, reply>>

\* A zero expiry never passes; any other must lie after now.
LiveAt(expiresAt, now) == expiresAt = 0 \/ expiresAt > now

Revoked == {id \in Ids : until[id] # NotRevoked}

Full == Capacity > 0 /\ Cardinality(Revoked) >= Capacity

Init ==
  /\ clock = 1
  /\ until = [id \in Ids |-> NotRevoked]
  /\ reply = "none"

\* The last word on an identifier counts, even when it is an earlier expiry.
Revoke(id, expiresAt) ==
  /\ \/ /\ ~LiveAt(expiresAt, clock)
        /\ until' = [until EXCEPT ![id] = NotRevoked]
        /\ reply' = "ok"
     \/ /\ LiveAt(expiresAt, clock)
        /\ id \in Revoked \/ ~Full
        /\ until' = [until EXCEPT ![id] = expiresAt]
        /\ reply' = "ok"
     \/ /\ LiveAt(expiresAt, clock)
        /\ id \notin Revoked /\ Full
        /\ until' = until
        /\ reply' = "ErrRevocationStoreFull"
  /\ UNCHANGED clock

IsRevoked(id) ==
  /\ reply' = IF id \in Revoked THEN "revoked" ELSE "not revoked"
  /\ UNCHANGED <<clock, until>>

\* An empty identifier is refused by both operations.
RefuseEmptyId ==
  /\ reply' = "ErrInvalidRevocationID"
  /\ UNCHANGED <<clock, until>>

\* A revocation ends when its time comes, and only then.
Tick ==
  /\ clock < MaxTime
  /\ clock' = clock + 1
  /\ until' = [id \in Ids |-> IF LiveAt(until[id], clock') THEN until[id] ELSE NotRevoked]
  /\ reply' = "none"

Next ==
  \/ \E id \in Ids : IsRevoked(id) \/ \E t \in Times : Revoke(id, t)
  \/ RefuseEmptyId
  \/ Tick

Spec == Init /\ [][Next]_vars
=============================================================================
