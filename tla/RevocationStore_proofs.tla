----------------------- MODULE RevocationStore_proofs -----------------------
(***************************************************************************)
(* Proofs about RevocationStore for any identifiers, expiry times,         *)
(* capacity, slack and number of calls, and about RefreshRotation, which   *)
(* uses it, for any families and number of tokens.                         *)
(*                                                                         *)
(* The argument: ExpiryIndexed makes a cleanup remove exactly the entries  *)
(* that are over (CleanupExact), so after a cleanup the map is what the    *)
(* contract calls the revoked identifiers.  The rotator uses the store     *)
(* only through its operations, so all of that holds under it; its live    *)
(* tokens are pairwise different and were never exchanged (LineInv), and a *)
(* burnt family has an entry without expiry, which no cleanup removes      *)
(* (DeadInv).                                                              *)
(***************************************************************************)
EXTENDS RefreshRotation, FiniteSetTheorems, TLAPS

USE StoreAssumption

-----------------------------------------------------------------------------
(* Helpers                                                                 *)

\* The absent entry is well typed.
LEMMA AbsentType == Absent \in EntryType /\ Absent.generation = 0
BY DEF Absent, EntryType

\* A cleanup keeps an entry as it is or removes it.
LEMMA RemainingType ==
  ASSUME TypeOK
  PROVE  /\ Remaining \in [Ids -> EntryType]
         /\ \A id \in Ids : Remaining[id] = items[id] \/ Remaining[id] = Absent
         /\ Present(Remaining) \subseteq Present(items)
<1>1. \A id \in Ids : items[id] \in EntryType
  BY DEF TypeOK
<1>2. Remaining \in [Ids -> EntryType]
  BY <1>1, AbsentType DEF Remaining
<1>3. \A id \in Ids : Remaining[id] = items[id] \/ Remaining[id] = Absent
  BY DEF Remaining
<1>4. Present(Remaining) \subseteq Present(items)
  BY <1>3, AbsentType DEF Present
<1> QED BY <1>2, <1>3, <1>4

\* A cleanup leaves finitely many entries, no more than there were.
LEMMA RemainingFinite ==
  ASSUME TypeOK
  PROVE  /\ IsFiniteSet(Present(Remaining))
         /\ Cardinality(Present(Remaining)) \in Nat
         /\ Cardinality(Present(items)) \in Nat
         /\ Cardinality(Present(Remaining)) <= Cardinality(Present(items))
<1>1. IsFiniteSet(Present(items))
  BY DEF TypeOK
<1>2. Present(Remaining) \in SUBSET Present(items)
  BY RemainingType
<1> HIDE DEF Present
<1>3. /\ IsFiniteSet(Present(Remaining))
      /\ Cardinality(Present(Remaining)) <= Cardinality(Present(items))
  BY <1>1, <1>2, FS_Subset
<1> QED BY <1>1, <1>3, FS_CardinalityType

\* Removing an entry leaves finitely many, no more than before.
LEMMA RemoveFinite ==
  ASSUME NEW its \in [Ids -> EntryType], NEW id \in Ids, IsFiniteSet(Present(its))
  PROVE  LET new == [its EXCEPT ![id] = Absent] IN
         /\ new \in [Ids -> EntryType]
         /\ IsFiniteSet(Present(new))
         /\ Present(new) = Present(its) \ {id}
         /\ Cardinality(Present(new)) \in Nat
         /\ Cardinality(Present(new)) <= Cardinality(Present(its))
<1> DEFINE new == [its EXCEPT ![id] = Absent]
<1>1. new \in [Ids -> EntryType]
  BY AbsentType
<1>2. Present(new) = Present(its) \ {id}
  BY AbsentType DEF Present
<1>3. Present(new) \in SUBSET Present(its)
  BY <1>2
<1> HIDE DEF new
<1>4. IsFiniteSet(Present(new)) /\ Cardinality(Present(new)) <= Cardinality(Present(its))
  BY <1>3, FS_Subset
<1>5. Cardinality(Present(new)) \in Nat
  BY <1>4, FS_CardinalityType
<1> QED BY <1>1, <1>2, <1>4, <1>5 DEF new

\* Setting an entry leaves finitely many, at most one more.
LEMMA AddFinite ==
  ASSUME NEW its \in [Ids -> EntryType], NEW id \in Ids, NEW e \in EntryType,
         e.generation # 0, IsFiniteSet(Present(its))
  PROVE  LET new == [its EXCEPT ![id] = e] IN
         /\ new \in [Ids -> EntryType]
         /\ IsFiniteSet(Present(new))
         /\ Present(new) = Present(its) \cup {id}
         /\ Cardinality(Present(new)) \in Nat
         /\ Cardinality(Present(new)) =
              IF id \in Present(its) THEN Cardinality(Present(its))
              ELSE Cardinality(Present(its)) + 1
<1> DEFINE new == [its EXCEPT ![id] = e]
<1>1. new \in [Ids -> EntryType]
  OBVIOUS
<1>2. Present(new) = Present(its) \cup {id}
  BY DEF Present
<1> HIDE DEF new
<1>3. /\ IsFiniteSet(Present(its) \cup {id})
      /\ Cardinality(Present(its) \cup {id}) =
           IF id \in Present(its) THEN Cardinality(Present(its))
           ELSE Cardinality(Present(its)) + 1
  BY FS_AddElement
<1>4. Cardinality(Present(new)) \in Nat
  BY <1>2, <1>3, FS_CardinalityType
<1> QED BY <1>1, <1>2, <1>3, <1>4 DEF new

\* The heap without its due nodes.
LEMMA PoppedType ==
  ASSUME TypeOK
  PROVE  /\ expirations \ Popped \subseteq NodeType
         /\ IsFiniteSet(expirations \ Popped)
         /\ Cardinality(expirations \ Popped) \in Nat
         /\ Cardinality(expirations) \in Nat
         /\ Cardinality(expirations \ Popped) <= Cardinality(expirations)
<1>1. IsFiniteSet(expirations) /\ expirations \subseteq NodeType
  BY DEF TypeOK
<1>2. (expirations \ Popped) \in SUBSET expirations
  OBVIOUS
<1>3. IsFiniteSet(expirations \ Popped)
      /\ Cardinality(expirations \ Popped) <= Cardinality(expirations)
  BY <1>1, <1>2, FS_Subset
<1> QED BY <1>1, <1>3, FS_CardinalityType

\* compactExpirationsLocked keeps the node of every entry that expires, and its
\* result is no larger than the threshold.
LEMMA CompactEffect ==
  ASSUME NEW its \in [Ids -> EntryType], NEW nodes \in SUBSET NodeType,
         IsFiniteSet(Present(its)), IsFiniteSet(nodes)
  PROVE  /\ compactExpirations(its, nodes) \subseteq NodeType
         /\ IsFiniteSet(compactExpirations(its, nodes))
         /\ Cardinality(compactExpirations(its, nodes)) \in Nat
         /\ Cardinality(compactExpirations(its, nodes))
              <= 2 * Cardinality(Present(its)) + Slack
         /\ \A id \in Present(its) : its[id].expiresAt # 0 /\ Node(id, its[id]) \in nodes
              => Node(id, its[id]) \in compactExpirations(its, nodes)
<1> DEFINE S == {i \in Present(its) : its[i].expiresAt # 0}
           T == {Node(id, its[id]) : id \in S}
           f == [id \in S |-> Node(id, its[id])]
<1>1. T \subseteq NodeType
  BY DEF Present, Node, NodeType, EntryType
<1>2. f \in Surjection(S, T)
  BY DEF Surjection
<1>3. IsFiniteSet(S) /\ Cardinality(S) <= Cardinality(Present(its))
  <2>1. S \in SUBSET Present(its)
    OBVIOUS
  <2> HIDE DEF S
  <2> QED BY <2>1, FS_Subset
<1>4. IsFiniteSet(T) /\ Cardinality(T) <= Cardinality(S)
  <2> HIDE DEF S, T, f
  <2> QED BY <1>2, <1>3, FS_Surjection
<1>5. /\ Cardinality(Present(its)) \in Nat
      /\ Cardinality(S) \in Nat /\ Cardinality(T) \in Nat /\ Cardinality(nodes) \in Nat
  <2> HIDE DEF S, T, Present
  <2> QED BY <1>3, <1>4, FS_CardinalityType
<1>6. Cardinality(T) <= 2 * Cardinality(Present(its)) + Slack
  <2> HIDE DEF S, T, Present
  <2> QED BY <1>3, <1>4, <1>5
<1>7. \A id \in Present(its) : its[id].expiresAt # 0 => Node(id, its[id]) \in T
  OBVIOUS
<1>8. compactExpirations(its, nodes) =
        IF Cardinality(nodes) <= 2 * Cardinality(Present(its)) + Slack THEN nodes ELSE T
  BY DEF compactExpirations
<1> HIDE DEF S, T, Present
<1> QED BY <1>1, <1>4, <1>5, <1>6, <1>7, <1>8

-----------------------------------------------------------------------------
(* The inductive invariant                                                 *)

IInv == TypeOK /\ ExpiryIndexed /\ WithinCapacity /\ HeapBounded

\* What a cleanup leaves is exactly what is revoked now, unchanged: every entry
\* that is over has a due node of its own, and no other entry is removed.
LEMMA CleanupExact ==
  ASSUME TypeOK, ExpiryIndexed, NEW id \in Ids
  PROVE  /\ id \in Present(Remaining) <=>
              items[id].generation # 0 /\ LiveAt(items[id].expiresAt, clock)
         /\ id \in Present(Remaining) => Remaining[id] = items[id]
<1>1. items[id].expiresAt \in Nat /\ items[id].generation \in Nat /\ clock \in Nat
  BY DEF TypeOK, EntryType
<1>2. Remaining[id] = IF /\ \E n \in Popped : n.id = id /\ n.generation = items[id].generation
                         /\ ~LiveAt(items[id].expiresAt, clock)
                      THEN Absent ELSE items[id]
  BY DEF Remaining
<1>3. id \in Present(Remaining) <=> Remaining[id].generation # 0
  BY DEF Present
<1>4. CASE LiveAt(items[id].expiresAt, clock)
  BY <1>2, <1>3, <1>4
<1>5. CASE items[id].generation # 0 /\ ~LiveAt(items[id].expiresAt, clock)
  <2> DEFINE n == Node(id, items[id])
  <2>1. n \in expirations
    BY <1>5 DEF ExpiryIndexed, Present, LiveAt
  <2>2. n.expiresAt <= clock
    BY <1>1, <1>5 DEF LiveAt, Node
  <2>3. n \in Popped /\ n.id = id /\ n.generation = items[id].generation
    BY <2>1, <2>2 DEF Popped, Node
  <2> HIDE DEF n
  <2>4. Remaining[id] = Absent
    BY <1>2, <1>5, <2>3
  <2> QED BY <1>3, <1>5, <2>4, AbsentType
<1>6. CASE items[id].generation = 0
  BY <1>2, <1>3, <1>6, AbsentType
<1> QED BY <1>4, <1>5, <1>6

\* The node of an entry that survives the cleanup is not due.
LEMMA SurvivorIndexed ==
  ASSUME TypeOK, ExpiryIndexed, NEW id \in Present(Remaining),
         Remaining[id].expiresAt # 0
  PROVE  Node(id, Remaining[id]) \in expirations \ Popped
<1>1. id \in Ids
  BY DEF Present
<1>2. /\ Remaining[id] = items[id] /\ items[id].generation # 0
      /\ LiveAt(items[id].expiresAt, clock)
  BY <1>1, CleanupExact
<1>3. Node(id, items[id]) \in expirations
  BY <1>1, <1>2 DEF ExpiryIndexed, Present
<1>4. items[id].expiresAt \in Nat /\ clock \in Nat
  BY <1>1 DEF TypeOK, EntryType
<1>5. ~(Node(id, items[id]).expiresAt <= clock)
  BY <1>2, <1>4 DEF LiveAt, Node
<1> QED BY <1>2, <1>3, <1>5 DEF Popped

\* A cleanup alone keeps the invariant.
LEMMA CleanupPreserves ==
  ASSUME IInv, items' = Remaining, expirations' = expirations \ Popped,
         UNCHANGED <<clock, generation, peak>>, reply' \in Replies
  PROVE  IInv'
<1> USE DEF IInv
<1>1. TypeOK'
  BY RemainingType, RemainingFinite, PoppedType DEF TypeOK, Present
<1>2. ExpiryIndexed'
  BY SurvivorIndexed DEF ExpiryIndexed, Present
<1>3. WithinCapacity'
  <2>1. Present(items)' = Present(Remaining)
    BY DEF Present
  <2> QED BY <2>1, RemainingFinite DEF WithinCapacity
<1>4. HeapBounded'
  BY PoppedType DEF HeapBounded, TypeOK
<1> QED BY <1>1, <1>2, <1>3, <1>4

\* An inert revocation keeps the invariant.
LEMMA InertPreserves ==
  ASSUME IInv, NEW id \in Ids, NEW t \in Times, RevokeInert(id, t)
  PROVE  IInv'
<1> USE DEF IInv
<1>1. /\ items' = [Remaining EXCEPT ![id] = Absent]
      /\ expirations' = expirations \ Popped
      /\ UNCHANGED <<clock, generation, peak>> /\ reply' = "ok"
  BY DEF RevokeInert
<1>2. Remaining \in [Ids -> EntryType] /\ IsFiniteSet(Present(Remaining))
  BY RemainingType, RemainingFinite
<1>3. /\ items' \in [Ids -> EntryType] /\ IsFiniteSet(Present(items'))
      /\ Present(items') = Present(Remaining) \ {id}
      /\ Cardinality(Present(items')) \in Nat
      /\ Cardinality(Present(items')) <= Cardinality(Present(Remaining))
  BY <1>1, <1>2, RemoveFinite
<1>4. Present(items)' = Present(items')
  BY DEF Present
<1>5. TypeOK'
  BY <1>1, <1>3, <1>4, PoppedType DEF TypeOK, Replies
<1>6. ExpiryIndexed'
  <2> SUFFICES ASSUME NEW j \in Present(items)', items'[j].expiresAt # 0
               PROVE  Node(j, items'[j]) \in expirations'
    BY DEF ExpiryIndexed, Node
  <2>1. j \in Present(Remaining) /\ j # id /\ j \in Ids
    BY <1>3, <1>4 DEF Present
  <2>2. items'[j] = Remaining[j]
    BY <1>1, <1>2, <2>1
  <2> QED BY <1>1, <2>1, <2>2, SurvivorIndexed
<1>7. WithinCapacity'
  BY <1>3, <1>4, RemainingFinite DEF WithinCapacity
<1>8. HeapBounded'
  BY <1>1, PoppedType DEF HeapBounded, TypeOK
<1> QED BY <1>5, <1>6, <1>7, <1>8

\* An accepted revocation, with its rebuild of the heap, keeps the invariant.
LEMMA AcceptedPreserves ==
  ASSUME IInv, NEW id \in Ids, NEW t \in Times, RevokeAccepted(id, t)
  PROVE  IInv'
<1> USE DEF IInv
<1> DEFINE entry == [expiresAt |-> t, generation |-> generation + 1]
           own == IF t # 0 THEN {Node(id, entry)} ELSE {}
           nodes == (expirations \ Popped) \cup own
<1>1. /\ generation' = generation + 1 /\ clock' = clock /\ reply' = "ok"
      /\ items' = [Remaining EXCEPT ![id] = entry]
      /\ expirations' = compactExpirations(items', nodes)
      /\ peak' = Larger(peak, Cardinality(Present(items')))
      /\ HasRoom(id)
  BY DEF RevokeAccepted
<1>2. entry \in EntryType /\ entry.generation # 0 /\ entry.expiresAt = t
  BY DEF TypeOK, EntryType
<1>3. own \subseteq NodeType /\ IsFiniteSet(own)
      /\ (entry.expiresAt # 0 => Node(id, entry) \in own)
  <2>1. Node(id, entry) \in NodeType
    <3> HIDE DEF entry
    <3> QED BY <1>2 DEF Node, NodeType, EntryType
  <2> QED BY <1>2, <2>1, FS_Singleton, FS_EmptySet
<1> HIDE DEF entry, own
<1>4. nodes \in SUBSET NodeType /\ IsFiniteSet(nodes)
  <2>1. CASE t = 0
    <3>1. nodes = expirations \ Popped
      BY <2>1 DEF own
    <3> QED BY <3>1, PoppedType
  <2>2. CASE t # 0
    <3>1. nodes = (expirations \ Popped) \cup {Node(id, entry)}
      BY <2>2 DEF own
    <3>2. IsFiniteSet((expirations \ Popped) \cup {Node(id, entry)})
      BY PoppedType, FS_AddElement
    <3> QED BY <1>3, <3>1, <3>2, PoppedType
  <2> QED BY <2>1, <2>2
<1>5. Remaining \in [Ids -> EntryType] /\ IsFiniteSet(Present(Remaining))
  BY RemainingType, RemainingFinite
<1>6. /\ items' \in [Ids -> EntryType] /\ IsFiniteSet(Present(items'))
      /\ Present(items') = Present(Remaining) \cup {id}
      /\ Cardinality(Present(items')) \in Nat
      /\ Cardinality(Present(items')) =
           IF id \in Present(Remaining) THEN Cardinality(Present(Remaining))
           ELSE Cardinality(Present(Remaining)) + 1
  BY <1>1, <1>2, <1>5, AddFinite
<1>7. Present(items)' = Present(items')
  BY DEF Present
<1> HIDE DEF nodes
<1>8. /\ expirations' \subseteq NodeType /\ IsFiniteSet(expirations')
      /\ Cardinality(expirations') \in Nat
      /\ Cardinality(expirations') <= 2 * Cardinality(Present(items')) + Slack
      /\ \A j \in Present(items') : items'[j].expiresAt # 0 /\ Node(j, items'[j]) \in nodes
           => Node(j, items'[j]) \in expirations'
  <2> DEFINE its == items'
  <2>1. its \in [Ids -> EntryType] /\ IsFiniteSet(Present(its))
    BY <1>6
  <2>2. expirations' = compactExpirations(its, nodes)
    BY <1>1
  <2> HIDE DEF its
  <2>3. /\ compactExpirations(its, nodes) \subseteq NodeType
        /\ IsFiniteSet(compactExpirations(its, nodes))
        /\ Cardinality(compactExpirations(its, nodes)) \in Nat
        /\ Cardinality(compactExpirations(its, nodes))
             <= 2 * Cardinality(Present(its)) + Slack
        /\ \A j \in Present(its) : its[j].expiresAt # 0 /\ Node(j, its[j]) \in nodes
             => Node(j, its[j]) \in compactExpirations(its, nodes)
    BY <1>4, <2>1, CompactEffect
  <2> QED BY <2>2, <2>3 DEF its
<1>9. peak' \in Nat /\ Cardinality(Present(items')) <= peak'
  BY <1>1, <1>6 DEF Larger, TypeOK
<1>10. TypeOK'
  <2>1. generation' \in Nat /\ clock' \in Nat /\ clock' >= 1 /\ reply' \in Replies
    <3>1. generation \in Nat /\ clock \in Nat /\ clock >= 1
      BY DEF TypeOK
    <3>2. generation' = generation + 1 /\ clock' = clock
      BY <1>1
    <3>3. reply' \in Replies
      BY <1>1 DEF Replies
    <3> QED BY <3>1, <3>2, <3>3
  <2>2. items' \in [Ids -> EntryType] /\ IsFiniteSet(Present(items)')
        /\ expirations' \subseteq NodeType /\ IsFiniteSet(expirations')
    BY <1>6, <1>7, <1>8
  <2> QED BY <1>9, <2>1, <2>2 DEF TypeOK
<1>11. ExpiryIndexed'
  <2> SUFFICES ASSUME NEW j \in Present(items'), items'[j].expiresAt # 0
               PROVE  Node(j, items'[j]) \in nodes
    BY <1>7, <1>8 DEF ExpiryIndexed, Node
  <2>1. CASE j = id
    <3>1. items'[j] = entry
      BY <1>1, <1>5, <2>1
    <3> QED BY <1>3, <2>1, <3>1 DEF nodes
  <2>2. CASE j # id
    <3>1. j \in Present(Remaining) /\ j \in Ids
      BY <1>6, <2>2 DEF Present
    <3>2. items'[j] = Remaining[j]
      BY <1>1, <1>5, <2>2, <3>1
    <3> QED BY <3>1, <3>2, SurvivorIndexed DEF nodes
  <2> QED BY <2>1, <2>2
<1>12. WithinCapacity'
  <2>1. Capacity > 0 => id \in Present(Remaining)
                          \/ Cardinality(Present(Remaining)) < Capacity
    BY <1>1 DEF HasRoom, Present
  <2> QED BY <1>6, <1>7, <2>1, RemainingFinite DEF WithinCapacity
<1>13. HeapBounded'
  BY <1>6, <1>8, <1>9 DEF HeapBounded
<1> QED BY <1>10, <1>11, <1>12, <1>13

\* IInv is an inductive invariant.
THEOREM Inductive == Spec => []IInv
<1>1. Init => IInv
  <2> SUFFICES ASSUME Init PROVE IInv
    OBVIOUS
  <2>1. Present(items) = {}
    BY AbsentType DEF Init, Present
  <2>2. IsFiniteSet(Present(items)) /\ Cardinality(Present(items)) = 0
        /\ IsFiniteSet(expirations) /\ Cardinality(expirations) = 0
    BY <2>1, FS_EmptySet DEF Init
  <2>3. TypeOK
    BY <2>2, AbsentType DEF Init, TypeOK, Replies
  <2>4. ExpiryIndexed
    BY <2>1 DEF ExpiryIndexed
  <2>5. WithinCapacity /\ HeapBounded
    BY <2>2 DEF WithinCapacity, HeapBounded, Init
  <2> QED BY <2>3, <2>4, <2>5 DEF IInv
<1>2. IInv /\ [Next]_vars => IInv'
  <2> SUFFICES ASSUME IInv, [Next]_vars PROVE IInv'
    OBVIOUS
  <2>1. ASSUME NEW id \in Ids, NEW t \in Times, RevokeInert(id, t) PROVE IInv'
    BY <2>1, InertPreserves
  <2>2. ASSUME NEW id \in Ids, NEW t \in Times, RevokeRefused(id, t) PROVE IInv'
    BY <2>2, CleanupPreserves DEF RevokeRefused, Replies
  <2>3. ASSUME NEW id \in Ids, NEW t \in Times, RevokeAccepted(id, t) PROVE IInv'
    BY <2>3, AcceptedPreserves
  <2>4. ASSUME NEW id \in Ids, IsRevoked(id) PROVE IInv'
    BY <2>4, CleanupPreserves DEF IsRevoked, Replies
  <2>5. CASE RefuseEmptyId \/ Tick \/ UNCHANGED vars
    <3>1. UNCHANGED <<items, expirations, generation, peak>>
      BY <2>5 DEF RefuseEmptyId, Tick, vars
    <3>2. clock' \in Nat /\ clock' >= 1
      <4>1. clock \in Nat /\ clock >= 1
        BY DEF IInv, TypeOK
      <4>2. clock' = clock \/ clock' = clock + 1
        BY <2>5 DEF RefuseEmptyId, Tick, vars
      <4> QED BY <4>1, <4>2
    <3>3. reply' \in Replies
      BY <2>5 DEF RefuseEmptyId, Tick, vars, IInv, TypeOK, Replies
    <3> QED BY <3>1, <3>2, <3>3 DEF IInv, TypeOK, ExpiryIndexed, WithinCapacity, HeapBounded,
                              Present, Node
  <2> QED BY <2>1, <2>2, <2>3, <2>4, <2>5 DEF Next, Revoke
<1> QED BY <1>1, <1>2, PTL DEF Spec

\* TypeOK: the map and the heap of memoryRevocationStore stay finite and well typed.
THEOREM TypeCorrect == Spec => []TypeOK
<1>1. IInv => TypeOK
  BY DEF IInv
<1> QED BY <1>1, Inductive, PTL

\* No replacement, inert revocation, cleanup or rebuild loses the heap node of
\* an entry that expires (revoke.go Revoke, compactExpirationsLocked).
THEOREM ExpiryIndexedHolds == Spec => []ExpiryIndexed
<1>1. IInv => ExpiryIndexed
  BY DEF IInv
<1> QED BY <1>1, Inductive, PTL

\* A bounded store never holds more entries than its capacity.
THEOREM WithinCapacityHolds == Spec => []WithinCapacity
<1>1. IInv => WithinCapacity
  BY DEF IInv
<1> QED BY <1>1, Inductive, PTL

\* The heap stays within twice the largest map plus the slack, however often
\* the same identifiers are revoked again.
THEOREM HeapBoundedHolds == Spec => []HeapBounded
<1>1. IInv => HeapBounded
  BY DEF IInv
<1> QED BY <1>1, Inductive, PTL

-----------------------------------------------------------------------------
(* The contract                                                            *)

until == [id \in Ids |->
            IF items[id].generation # 0 /\ LiveAt(items[id].expiresAt, clock)
            THEN items[id].expiresAt ELSE -1]

\* The identifiers the contract calls revoked are those a cleanup leaves.
LEMMA RevokedIsPresent ==
  ASSUME TypeOK, ExpiryIndexed
  PROVE  Contract!Revoked = Present(Remaining)
<1>1. ASSUME NEW id \in Ids PROVE until[id] # -1 <=> id \in Present(Remaining)
  <2>1. items[id].expiresAt \in Nat
    BY DEF TypeOK, EntryType
  <2> QED BY <2>1, CleanupExact DEF until
<1>2. Contract!Revoked = {id \in Ids : until[id] # -1}
  BY DEF Contract!Revoked, Contract!NotRevoked, until
<1> HIDE DEF until
<1> QED BY <1>1, <1>2 DEF Present

\* The contract calls the store full exactly when what a cleanup leaves fills it.
LEMMA FullIsCapacity ==
  ASSUME TypeOK, ExpiryIndexed
  PROVE  Contract!Full <=> Capacity > 0 /\ Cardinality(Present(Remaining)) >= Capacity
<1>1. Contract!Full <=> Capacity > 0 /\ Cardinality(Contract!Revoked) >= Capacity
  BY Zenon DEF Contract!Full, Contract!Cardinality, Cardinality, Contract!IsFiniteSet, IsFiniteSet
<1> QED BY <1>1, RevokedIsPresent

\* A cleanup alone changes nothing the contract sees; setting one entry changes
\* that identifier only.
LEMMA CleanupInvisible ==
  ASSUME TypeOK, ExpiryIndexed, clock' = clock, NEW j \in Ids, items'[j] = Remaining[j]
  PROVE  until'[j] = until[j]
<1>1. until[j] = IF items[j].generation # 0 /\ LiveAt(items[j].expiresAt, clock)
                 THEN items[j].expiresAt ELSE -1
  BY DEF until
<1>2. until'[j] = IF Remaining[j].generation # 0 /\ LiveAt(Remaining[j].expiresAt, clock)
                  THEN Remaining[j].expiresAt ELSE -1
  BY DEF until, LiveAt
<1>3. j \in Present(Remaining) <=> Remaining[j].generation # 0
  BY DEF Present
<1> HIDE DEF until
<1> QED BY <1>1, <1>2, <1>3, CleanupExact

\* memoryRevocationStore implements RevocationStore: a cleanup that lags behind
\* the clock and a heap full of stale nodes never show in an answer.
THEOREM ContractKept == Spec => KeepsContract
<1> USE DEF Contract!NotRevoked
<1>1. Init => Contract!Init
  BY DEF Init, Contract!Init, Absent, AbsentType
<1>2. IInv /\ [Next]_vars => [Contract!Next]_(Contract!vars)
  <2> SUFFICES ASSUME IInv, [Next]_vars PROVE Contract!Next \/ UNCHANGED <<clock, until, reply>>
    BY DEF Contract!vars, until
  <2>0. TypeOK /\ ExpiryIndexed
    BY DEF IInv
  <2>1. ASSUME NEW id \in Ids, NEW t \in Times, RevokeInert(id, t) PROVE Contract!Revoke(id, t)
    <3>1. clock' = clock /\ items' = [Remaining EXCEPT ![id] = Absent] /\ reply' = "ok"
          /\ ~LiveAt(t, clock)
      BY <2>1 DEF RevokeInert
    <3>2. \A j \in Ids : items'[j] = IF j = id THEN Absent ELSE Remaining[j]
      BY <2>0, <3>1, RemainingType
    <3>3. \A j \in Ids : j # id => until'[j] = until[j]
      BY <2>0, <3>1, <3>2, CleanupInvisible
    <3>4. until'[id] = -1
      BY <3>2, AbsentType DEF until
    <3>5. until' = [until EXCEPT ![id] = -1]
      BY <3>3, <3>4 DEF until
    <3> QED BY <3>1, <3>5 DEF Contract!Revoke, Contract!LiveAt, LiveAt, until
  <2>2. ASSUME NEW id \in Ids, NEW t \in Times, RevokeRefused(id, t) PROVE Contract!Revoke(id, t)
    <3>1. clock' = clock /\ items' = Remaining /\ reply' = "ErrRevocationStoreFull"
          /\ LiveAt(t, clock) /\ ~HasRoom(id)
      BY <2>2 DEF RevokeRefused
    <3>2. until' = until
      <4>1. \A j \in Ids : until'[j] = until[j]
        BY <2>0, <3>1, CleanupInvisible
      <4> QED BY <4>1 DEF until
    <3>3. id \notin Contract!Revoked /\ Contract!Full
      <4>1. Contract!Revoked = Present(Remaining)
        BY <2>0, RevokedIsPresent
      <4>2. id \notin Present(Remaining)
        BY <3>1 DEF HasRoom, Present
      <4>3. Capacity > 0 /\ Cardinality(Present(Remaining)) >= Capacity
        BY <2>0, <3>1, RemainingFinite DEF HasRoom
      <4> QED BY <2>0, <4>1, <4>2, <4>3, FullIsCapacity
    <3> QED BY <3>1, <3>2, <3>3 DEF Contract!Revoke, Contract!LiveAt, LiveAt, until
  <2>3. ASSUME NEW id \in Ids, NEW t \in Times, RevokeAccepted(id, t) PROVE Contract!Revoke(id, t)
    <3> DEFINE entry == [expiresAt |-> t, generation |-> generation + 1]
    <3>1. clock' = clock /\ items' = [Remaining EXCEPT ![id] = entry] /\ reply' = "ok"
          /\ LiveAt(t, clock) /\ HasRoom(id)
      BY <2>3 DEF RevokeAccepted
    <3>2. entry.generation # 0 /\ entry.expiresAt = t
      BY <2>0 DEF TypeOK
    <3> HIDE DEF entry
    <3>3. \A j \in Ids : items'[j] = IF j = id THEN entry ELSE Remaining[j]
      BY <2>0, <3>1, RemainingType
    <3>4. \A j \in Ids : j # id => until'[j] = until[j]
      BY <2>0, <3>1, <3>3, CleanupInvisible
    <3>5. until'[id] = t
      BY <3>1, <3>2, <3>3 DEF until, LiveAt
    <3>6. until' = [until EXCEPT ![id] = t]
      BY <3>4, <3>5 DEF until
    <3>7. id \in Contract!Revoked \/ ~Contract!Full
      <4>1. Contract!Revoked = Present(Remaining)
        BY <2>0, RevokedIsPresent
      <4>2. Remaining[id].generation # 0 => id \in Present(Remaining)
        BY DEF Present
      <4> QED BY <2>0, <3>1, <4>1, <4>2, RemainingFinite, FullIsCapacity DEF HasRoom
    <3> QED BY <3>1, <3>6, <3>7 DEF Contract!Revoke, Contract!LiveAt, LiveAt, until
  <2>4. ASSUME NEW id \in Ids, IsRevoked(id) PROVE Contract!IsRevoked(id)
    <3>1. clock' = clock /\ items' = Remaining
          /\ reply' = IF Remaining[id].generation # 0 THEN "revoked" ELSE "not revoked"
      BY <2>4 DEF IsRevoked
    <3>2. until' = until
      <4>1. \A j \in Ids : until'[j] = until[j]
        BY <2>0, <3>1, CleanupInvisible
      <4> QED BY <4>1 DEF until
    <3>3. id \in Contract!Revoked <=> Remaining[id].generation # 0
      BY <2>0, RevokedIsPresent DEF Present
    <3> QED BY <3>1, <3>2, <3>3 DEF Contract!IsRevoked, until
  <2>5. ASSUME RefuseEmptyId PROVE Contract!RefuseEmptyId
    BY <2>5 DEF RefuseEmptyId, Contract!RefuseEmptyId, LiveAt
  <2>6. ASSUME Tick PROVE Contract!Tick
    <3>1. clock < MaxTime /\ clock' = clock + 1 /\ reply' = "none" /\ items' = items
      BY <2>6 DEF Tick
    <3>2. ASSUME NEW j \in Ids
          PROVE  until'[j] = IF Contract!LiveAt(until[j], clock') THEN until[j] ELSE -1
      <4>1. items[j].expiresAt \in Nat /\ clock \in Nat
        BY <2>0 DEF TypeOK, EntryType
      <4> QED BY <3>1, <4>1 DEF until, LiveAt, Contract!LiveAt
    <3>3. until' = [j \in Ids |-> IF Contract!LiveAt(until[j], clock') THEN until[j] ELSE -1]
      BY <3>2 DEF until
    <3> QED BY <3>1, <3>3 DEF Contract!Tick, until
  <2>7. CASE UNCHANGED vars
    BY <2>7 DEF vars, until, LiveAt
  <2> QED BY <2>1, <2>2, <2>3, <2>4, <2>5, <2>6, <2>7 DEF Next, Revoke, Contract!Next
<1> QED BY <1>1, <1>2, Inductive, PTL DEF Spec, Contract!Spec, KeepsContract

-----------------------------------------------------------------------------
(* The store under the rotator                                             *)

\* A step of the rotator or of the application is a step of the store or leaves it alone.
LEMMA StoreStep == ASSUME [RotationNext]_rotationVars PROVE [Next]_vars
<1>1. CASE UNCHANGED rotationVars
  BY <1>1 DEF rotationVars
<1>2. ASSUME NEW f \in Families, issue(f) PROVE [Next]_vars
  BY <1>2 DEF issue
<1>3. ASSUME NEW f \in Families, NEW t, rotate(f, t) PROVE [Next]_vars
  <2>1. f \in Ids /\ BurnUntil \in Times
    BY RotationAssumption DEF BurnUntil
  <2>2. IsRevoked(f) \/ Revoke(f, BurnUntil)
    BY <1>3 DEF rotate, rotateRevoked, rotateReuse, rotateNext
  <2> QED BY <2>1, <2>2 DEF Next
<1>4. CASE Application
  BY <1>4 DEF Application, Next
<1> QED BY <1>1, <1>2, <1>3, <1>4 DEF RotationNext

\* Rotation uses the store as any caller does: what is proved of the store holds under it
\* (rotate and issue of examples/refresh_rotation/main.go only call Revoke and IsRevoked).
THEOREM RotationImplementsStore == RotationSpec => Spec
<1>1. RotationInit => Init
  BY DEF RotationInit
<1> QED BY <1>1, StoreStep, PTL DEF RotationSpec, Spec

\* The store keeps the contract of RevocationStore while tokens are rotated.
THEOREM RotationKeepsContract == RotationSpec => KeepsContract
BY RotationImplementsStore, ContractKept, PTL

-----------------------------------------------------------------------------
(* The rotator's own invariant                                             *)

\* The live tokens are pairwise different, and none of them was exchanged or replaced.
LineInv ==
  /\ drawn \in Nat
  /\ live \in [Families -> 0..drawn]
  /\ retired \subseteq 1..drawn
  /\ \A f \in Families : live[f] # NoToken => live[f] \notin retired
  /\ \A f, g \in Families : live[f] = live[g] /\ live[f] # NoToken => f = g

\* A burnt family is revoked for ever.
DeadInv ==
  /\ dead \subseteq Families
  /\ \A f \in dead : items[f].generation # 0 /\ items[f].expiresAt = 0

RotationInv == IInv /\ LineInv /\ DeadInv

\* A cleanup leaves a burnt family alone.
LEMMA DeadRemains ==
  ASSUME TypeOK, DeadInv, NEW f \in dead
  PROVE  Remaining[f] = items[f]
<1>1. f \in Ids
  BY RotationAssumption DEF DeadInv
<1> QED BY <1>1 DEF Remaining, LiveAt, DeadInv

\* Drawing a token for a family extends its line.
LEMMA DrawLine == ASSUME LineInv, NEW f \in Families, Draw(f) PROVE LineInv'
<1>1. drawn \in Nat /\ drawn' = drawn + 1 /\ live' = [live EXCEPT ![f] = drawn + 1]
  BY DEF LineInv, Draw
<1>2. retired' \subseteq retired \cup {live[f]} /\ NoToken \notin retired'
  BY DEF LineInv, Draw, NoToken
<1>3. live' \in [Families -> 0..drawn']
  BY <1>1 DEF LineInv
<1>4. retired' \subseteq 1..drawn
  BY <1>1, <1>2 DEF LineInv, NoToken
<1>5. ASSUME NEW g \in Families, live'[g] # NoToken PROVE live'[g] \notin retired'
  <2>1. CASE g = f
    BY <1>1, <1>4, <2>1 DEF LineInv
  <2>2. CASE g # f
    <3>1. live'[g] = live[g]
      BY <1>1, <2>2 DEF LineInv
    <3> QED BY <1>2, <1>5, <2>2, <3>1 DEF LineInv
  <2> QED BY <2>1, <2>2
<1>6. ASSUME NEW g \in Families, NEW h \in Families, live'[g] = live'[h], live'[g] # NoToken
      PROVE  g = h
  <2>1. \A k \in Families : k # f => live'[k] = live[k] /\ live[k] # drawn + 1
    BY <1>1 DEF LineInv
  <2>2. live'[f] = drawn + 1
    BY <1>1 DEF LineInv
  <2> QED BY <1>6, <2>1, <2>2 DEF LineInv
<1>7. drawn' \in Nat /\ retired' \subseteq 1..drawn'
  BY <1>1, <1>4
<1> QED BY <1>3, <1>5, <1>6, <1>7 DEF LineInv

\* The entries of burnt families survive a cleanup.
LEMMA DeadKept ==
  ASSUME TypeOK, DeadInv, dead' = dead, \A f \in Families : items'[f] = Remaining[f]
  PROVE  DeadInv'
BY DeadRemains DEF DeadInv

\* Every step of rotator and application keeps the invariant.
LEMMA RotationStep ==
  ASSUME RotationInv, IInv', [RotationNext]_rotationVars PROVE RotationInv'
<1> USE DEF RotationInv
<1>0. TypeOK
  BY DEF IInv
<1>1. CASE UNCHANGED rotationVars
  BY <1>1 DEF rotationVars, rotator, vars, LineInv, DeadInv
<1>2. ASSUME NEW f \in Families, issue(f) PROVE RotationInv'
  <2>1. DeadInv'
    BY <1>2 DEF issue, vars, DeadInv
  <2> QED BY <1>2, <2>1, DrawLine DEF issue
<1>3. ASSUME NEW f \in Families, NEW t, rotateRevoked(f, t) PROVE RotationInv'
  <2>1. DeadInv'
    BY <1>0, <1>3, DeadKept DEF rotateRevoked, IsRevoked
  <2> QED BY <1>3, <2>1 DEF rotateRevoked, LineInv
<1>4. ASSUME NEW f \in Families, NEW t, rotateReuse(f, t) PROVE RotationInv'
  <2>1. f \in Ids /\ LiveAt(BurnUntil, clock)
    BY RotationAssumption DEF BurnUntil, LiveAt
  <2>2. \A g \in dead : g # f /\ Remaining[g] = items[g]
    BY <1>0, <1>4, DeadRemains DEF rotateReuse, SaysRevoked, DeadInv
  <2>3. RevokeRefused(f, BurnUntil) \/ RevokeAccepted(f, BurnUntil)
    BY <1>4, <2>1 DEF rotateReuse, Revoke, RevokeInert
  <2>4. CASE RevokeRefused(f, BurnUntil)
    <3>1. items' = Remaining /\ dead' = dead
      BY <1>4, <2>4 DEF RevokeRefused, rotateReuse
    <3>2. DeadInv'
      BY <1>0, <3>1, DeadKept
    <3> QED BY <1>4, <3>2 DEF rotateReuse, LineInv
  <2>5. CASE RevokeAccepted(f, BurnUntil)
    <3>1. items' = [Remaining EXCEPT ![f] = [expiresAt |-> 0, generation |-> generation + 1]]
      BY <2>5 DEF RevokeAccepted, BurnUntil
    <3>2. DOMAIN Remaining = Ids /\ generation \in Nat
      BY <1>0 DEF Remaining, TypeOK
    <3>3. items'[f].generation # 0 /\ items'[f].expiresAt = 0
      BY <2>1, <3>1, <3>2
    <3>4. \A g \in dead : items'[g] = items[g]
      BY <2>2, <3>1, <3>2
    <3>5. dead' \subseteq dead \cup {f}
      BY <1>4 DEF rotateReuse
    <3>6. DeadInv'
      BY <3>3, <3>4, <3>5 DEF DeadInv
    <3> QED BY <1>4, <3>6 DEF rotateReuse, LineInv
  <2> QED BY <2>3, <2>4, <2>5
<1>5. ASSUME NEW f \in Families, NEW t, rotateNext(f, t) PROVE RotationInv'
  <2>1. DeadInv'
    BY <1>0, <1>5, DeadKept DEF rotateNext, IsRevoked
  <2> QED BY <1>5, <2>1, DrawLine DEF rotateNext
<1>6. CASE Application
  <2>1. LineInv'
    BY <1>6 DEF Application, rotator, LineInv
  <2>2. dead' = dead
    BY <1>6 DEF Application, rotator
  <2>3. ASSUME NEW id \in Ids \ Families, IsRevoked(id) PROVE DeadInv'
    BY <1>0, <2>2, <2>3, DeadKept DEF IsRevoked
  <2>4. ASSUME NEW id \in Ids \ Families, NEW t \in Times, Revoke(id, t) PROVE DeadInv'
    <3>1. DOMAIN Remaining = Ids /\ Families \subseteq Ids
      BY RotationAssumption DEF Remaining
    <3>2. \E e : items' = [Remaining EXCEPT ![id] = e] \/ items' = Remaining
      BY <2>4 DEF Revoke, RevokeInert, RevokeRefused, RevokeAccepted
    <3>3. \A f \in Families : items'[f] = Remaining[f]
      BY <3>1, <3>2
    <3> QED BY <1>0, <2>2, <3>3, DeadKept
  <2>5. CASE RefuseEmptyId \/ Tick
    <3>1. items' = items
      BY <2>5 DEF RefuseEmptyId, Tick
    <3> QED BY <2>1, <2>2, <3>1 DEF DeadInv
  <2> QED BY <1>6, <2>1, <2>3, <2>4, <2>5 DEF Application
<1> QED BY <1>1, <1>2, <1>3, <1>4, <1>5, <1>6 DEF RotationNext, rotate

\* The invariant of store and rotator holds in every reachable state.
THEOREM RotationInductive == RotationSpec => []RotationInv
<1>1. RotationInit => LineInv /\ DeadInv
  BY DEF RotationInit, LineInv, DeadInv, NoToken
<1>2. RotationSpec => []IInv
  BY RotationImplementsStore, Inductive, PTL
<1> QED BY <1>1, <1>2, RotationStep, PTL DEF RotationSpec, RotationInv

-----------------------------------------------------------------------------
(* What follows from it                                                    *)

\* No refresh token is exchanged twice, and a burnt family is never exchanged again, for any
\* families and other users of the store, any capacity and any time (rotate of
\* examples/refresh_rotation/main.go over memoryRevocationStore of revoke.go).
THEOREM NoReplayHolds == RotationSpec => NoReplay
<1>1. RotationInv /\ [RotationNext]_rotationVars =>
        [result'.what = "next" => result'.token \notin retired /\ result'.fam \notin dead]_rotationVars
  <2> SUFFICES ASSUME RotationInv, RotationNext, result'.what = "next"
               PROVE  result'.token \notin retired /\ result'.fam \notin dead
    OBVIOUS
  <2>1. NoResult.what # "next"
    BY DEF NoResult
  <2>2. \A f, t : /\ Result(f, t, "reuse").what # "next"
                  /\ Result(f, t, "next").token = t /\ Result(f, t, "next").fam = f
    BY DEF Result
  <2>3. PICK f \in Families, t \in 0..drawn : rotateNext(f, t)
    BY <2>1, <2>2 DEF RotationNext, issue, Application, rotate, rotateRevoked, rotateReuse
  <2>4. result'.token = t /\ result'.fam = f
    BY <2>2, <2>3 DEF rotateNext
  <2>5. t \notin retired
    BY <2>3 DEF rotateNext, VerifyOpaqueTokenHash, RotationInv, LineInv
  <2>6. f \notin dead
    BY <2>3, DeadRemains DEF rotateNext, SaysRevoked, RotationInv, IInv, DeadInv
  <2> QED BY <2>4, <2>5, <2>6
<1> QED BY <1>1, RotationInductive, PTL DEF RotationSpec, NoReplay
=============================================================================
