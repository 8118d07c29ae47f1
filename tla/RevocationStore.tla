--------------------------- MODULE RevocationStore ---------------------------
(***************************************************************************)
(* memoryRevocationStore of revoke.go: a map of revocations and a min-heap *)
(* of expiry nodes that is allowed to lag behind it.  Each operation runs  *)
(* under s.mu and is one action.                                           *)
(*                                                                         *)
(* The heap is the set of its nodes (generations make them distinct):      *)
(* container/heap is only asked for nodes in order of expiry.  An entry    *)
(* with generation 0 stands for an absent map key.                         *)
(***************************************************************************)
EXTENDS Integers, FiniteSets

CONSTANTS Ids, Times, Capacity, MaxTime,
          Slack,     \* the 64 stale nodes compactExpirationsLocked tolerates
          MaxGen     \* bound: number of accepted Revoke calls

ASSUME StoreAssumption ==
  /\ Times \subseteq Nat
  /\ Capacity \in Nat
  /\ MaxTime \in Nat
  /\ Slack \in Nat
  /\ MaxGen \in Nat

VARIABLES clock,        \* s.now()
          items,        \* the map: identifier -> revocationEntry
          expirations,  \* the heap of revocationExpiry nodes
          generation,
          reply,        \* what the last call returned
          peak          \* (ghost) the most entries the map ever held

vars == <<clock, items, expirations, generation, reply, peak>>

Absent == [expiresAt |-> 0, generation |-> 0]
Present(its) == {id \in Ids : its[id].generation # 0}
Node(id, e) == [id |-> id, expiresAt |-> e.expiresAt, generation |-> e.generation]

\* revocationEntry.live
LiveAt(expiresAt, now) == expiresAt = 0 \/ expiresAt > now

Init ==
  /\ clock = 1
  /\ items = [id \in Ids |-> Absent]
  /\ expirations = {}
  /\ generation = 0
  /\ reply = "none"
  /\ peak = 0

\* removeExpiredLocked: pop every node whose time has come; a popped node takes
\* its entry along if it is that entry's own node and the entry is over.
Popped == {n \in expirations : n.expiresAt <= clock}

Remaining ==
  [id \in Ids |->
     IF /\ \E n \in Popped : n.id = id /\ n.generation = items[id].generation
        /\ ~LiveAt(items[id].expiresAt, clock)
     THEN Absent ELSE items[id]]

\* Mutants: the heap is never rebuilt; a rebuild keeps only the newest node.
compactExpirations_Never(its, nodes) == nodes
compactExpirations_Latest(its, nodes) ==
  IF Cardinality(nodes) <= 2 * Cardinality(Present(its)) + Slack THEN nodes
  ELSE {n \in nodes : n.generation = generation + 1}

\* compactExpirationsLocked: rebuild the heap from the map when stale nodes
\* outnumber it.
compactExpirations(its, nodes) ==
  IF Cardinality(nodes) <= 2 * Cardinality(Present(its)) + Slack THEN nodes
  ELSE {Node(id, its[id]) : id \in {i \in Present(its) : its[i].expiresAt # 0}}

\* Mutant: the capacity is compared before the expired entries are removed.
HasRoom_BeforeCleanup(id) ==
  Capacity = 0 \/ items[id].generation # 0 \/ Cardinality(Present(items)) < Capacity

\* Mutant: off by one.
HasRoom_OffByOne(id) ==
  \/ Capacity = 0 \/ Remaining[id].generation # 0
  \/ Cardinality(Present(Remaining)) <= Capacity

\* The entry exists already, or there is room for another.
HasRoom(id) ==
  \/ Capacity = 0
  \/ Remaining[id].generation # 0
  \/ Cardinality(Present(Remaining)) < Capacity

Larger(a, b) == IF a >= b THEN a ELSE b

\* Mutant: an inert revocation gives its generation back.
RevokeInert_Ungenerate(id, expiresAt) ==
  /\ ~LiveAt(expiresAt, clock)
  /\ items' = [Remaining EXCEPT ![id] = Absent]
  /\ expirations' = expirations \ Popped
  /\ generation' = generation - 1
  /\ reply' = "ok"
  /\ UNCHANGED <<clock, peak>>

\* An expiry that has passed: drop the entry, leave its node behind.
RevokeInert(id, expiresAt) ==
  /\ ~LiveAt(expiresAt, clock)
  /\ items' = [Remaining EXCEPT ![id] = Absent]
  /\ expirations' = expirations \ Popped
  /\ reply' = "ok"
  /\ UNCHANGED <<clock, generation, peak>>

RevokeRefused(id, expiresAt) ==
  /\ LiveAt(expiresAt, clock)
  /\ ~HasRoom(id)
  /\ items' = Remaining
  /\ expirations' = expirations \ Popped
  /\ reply' = "ErrRevocationStoreFull"
  /\ UNCHANGED <<clock, generation, peak>>

RevokeAccepted(id, expiresAt) ==
  LET entry == [expiresAt |-> expiresAt, generation |-> generation + 1]
      nodes == (expirations \ Popped)
                 \cup (IF expiresAt # 0 THEN {Node(id, entry)} ELSE {})
  IN
  /\ LiveAt(expiresAt, clock)
  /\ HasRoom(id)
  /\ generation < MaxGen
  /\ generation' = generation + 1
  /\ items' = [Remaining EXCEPT ![id] = entry]
  /\ expirations' = compactExpirations(items', nodes)
  /\ reply' = "ok"
  /\ peak' = Larger(peak, Cardinality(Present(items')))
  /\ UNCHANGED clock

Revoke(id, expiresAt) ==
  \/ RevokeInert(id, expiresAt)
  \/ RevokeRefused(id, expiresAt)
  \/ RevokeAccepted(id, expiresAt)

IsRevoked(id) ==
  /\ items' = Remaining
  /\ expirations' = expirations \ Popped
  /\ reply' = IF items'[id].generation # 0 THEN "revoked" ELSE "not revoked"
  /\ UNCHANGED <<clock, generation, peak>>

\* Revoke and IsRevoked with an empty identifier.
RefuseEmptyId ==
  /\ reply' = "ErrInvalidRevocationID"
  /\ UNCHANGED <<clock, items, expirations, generation, peak>>

Tick ==
  /\ clock < MaxTime
  /\ clock' = clock + 1
  /\ reply' = "none"
  /\ UNCHANGED <<items, expirations, generation, peak>>

Next ==
  \/ \E id \in Ids : IsRevoked(id) \/ \E t \in Times : Revoke(id, t)
  \/ RefuseEmptyId
  \/ Tick

Spec == Init /\ [][Next]_vars

-----------------------------------------------------------------------------
(* Properties                                                              *)

Replies == {"none", "ok", "ErrRevocationStoreFull", "ErrInvalidRevocationID",
            "revoked", "not revoked"}
EntryType == [expiresAt : Nat, generation : Nat]
NodeType == [id : Ids, expiresAt : Nat, generation : Nat]

\* Map, heap, counters and replies stay in range, and map and heap are finite.
TypeOK ==
  /\ clock \in Nat /\ clock >= 1
  /\ items \in [Ids -> EntryType]
  /\ IsFiniteSet(Present(items))
  /\ expirations \subseteq NodeType
  /\ IsFiniteSet(expirations)
  /\ generation \in Nat
  /\ reply \in Replies
  /\ peak \in Nat

\* Every entry that expires has its own node in the heap, through any sequence
\* of replacements, inert revocations, cleanups and rebuilds: without it the
\* entry would stay revoked, and occupy the store, for ever.
ExpiryIndexed ==
  \A id \in Present(items) : items[id].expiresAt # 0 => Node(id, items[id]) \in expirations

\* The store never holds more than its capacity.
WithinCapacity == Capacity > 0 => Cardinality(Present(items)) <= Capacity

\* Replacing the same identifiers again and again cannot grow the heap beyond
\* twice the largest map plus the slack.
HeapBounded == Cardinality(expirations) <= 2 * peak + Slack

\* The store keeps the contract of RevocationStore: an identifier is revoked
\* exactly from an accepted Revoke until its expiry or its replacement, nothing
\* live is evicted, and Revoke is refused exactly when the live revocations
\* fill the store.
Contract == INSTANCE RevocationContract WITH
  until <- [id \in Ids |->
              IF items[id].generation # 0 /\ LiveAt(items[id].expiresAt, clock)
              THEN items[id].expiresAt ELSE -1]
KeepsContract == Contract!Spec
=============================================================================
