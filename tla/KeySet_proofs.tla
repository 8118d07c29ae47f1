---------------------------- MODULE KeySet_proofs ----------------------------
(***************************************************************************)
(* Proofs about KeySet for any sets, kids, documents and key_ops, and any  *)
(* number of keys and arrays.                                              *)
(*                                                                         *)
(* The argument: the index and the slice agree after every operation, and  *)
(* no array of a set is one that a caller holds (Unshared).  Only arrays   *)
(* that callers hold, and fresh ones, are ever written to, so what a set   *)
(* shows changes by its own Add and Remove alone.                          *)
(***************************************************************************)
EXTENDS KeySet, FiniteSetTheorems, TLAPS

Entry == [kid : AnyKid, ref : Refs]
RefsOf(ks) == {ks[i].ref : i \in DOMAIN ks}

\* What a slice shows when the arrays hold m.
Shown(ks, m) == [i \in DOMAIN ks |-> [kid |-> ks[i].kid, ops |-> m[ks[i].ref]]]

Key(kid, ref) == [kid |-> kid, ref |-> ref]
Item(kid, ops) == [kid |-> kid, ops |-> ops]
Write(m, c, o) == [m EXCEPT ![c] = o]

\* The slice shows e in the place of the key with its kid, or at the end if there is none.
Adds(ks, m, kid, e, after) ==
  \/ /\ kid # NoKid
     /\ \E x \in DOMAIN ks : ks[x].kid = kid /\ after = [Shown(ks, m) EXCEPT ![x] = e]
  \/ /\ kid # NoKid => \A i \in DOMAIN ks : ks[i].kid # kid
     /\ after = Append(Shown(ks, m), e)

\* The index ix is the one of the slice ks.
IndexOf(ks, ix) ==
  /\ ks \in Seq(Entry) /\ ix \in [Kids -> Nat]
  /\ \A kid \in Kids :
       /\ ix[kid] \in 0..Len(ks)
       /\ \A i \in 1..Len(ks) : ix[kid] = i <=> ks[i].kid = kid

-----------------------------------------------------------------------------
(* The slice and its index                                                 *)

\* Add puts the key at a place of its own, or in that of the key with its kid.
LEMMA AddPlaces ==
  ASSUME NEW ks, NEW ix, IndexOf(ks, ix), NEW k \in Entry
  PROVE  LET new == AddKeys(ks, ix, k) IN
         /\ new \in Seq(Entry)
         /\ \/ /\ k.kid # NoKid /\ ix[k.kid] \in 1..Len(ks) /\ Len(new) = Len(ks)
               /\ ks[ix[k.kid]].kid = k.kid /\ AddIndex(ks, ix, k) = ix
               /\ new = [ks EXCEPT ![ix[k.kid]] = k]
               /\ \A i \in 1..Len(ks) : new[i] = IF i = ix[k.kid] THEN k ELSE ks[i]
            \/ /\ \A i \in 1..Len(ks) : k.kid # NoKid => ks[i].kid # k.kid
               /\ Len(new) = Len(ks) + 1 /\ new = Append(ks, k)
               /\ new[Len(ks) + 1] = k
               /\ \A i \in 1..Len(ks) : new[i] = ks[i]
               /\ AddIndex(ks, ix, k) = IF k.kid = NoKid THEN ix
                                        ELSE [ix EXCEPT ![k.kid] = Len(ks) + 1]
<1>0. ks \in Seq(Entry) /\ ix \in [Kids -> Nat] /\ k.kid \in Kids \cup {NoKid}
  BY DEF IndexOf, Entry, AnyKid
<1>1. CASE k.kid # NoKid /\ ix[k.kid] # 0
  <2>1. k.kid \in Kids /\ ix[k.kid] \in 1..Len(ks)
    BY <1>0, <1>1 DEF IndexOf
  <2>2. ks[ix[k.kid]].kid = k.kid
    BY <2>1 DEF IndexOf
  <2>3. AddKeys(ks, ix, k) = [ks EXCEPT ![ix[k.kid]] = k] /\ AddIndex(ks, ix, k) = ix
    BY <1>1 DEF AddKeys, AddIndex
  <2> QED BY <1>0, <1>1, <2>1, <2>2, <2>3
<1>2. CASE ~(k.kid # NoKid /\ ix[k.kid] # 0)
  <2>1. \A i \in 1..Len(ks) : k.kid # NoKid => ks[i].kid # k.kid
    BY <1>0, <1>2 DEF IndexOf
  <2>2. AddKeys(ks, ix, k) = Append(ks, k)
    BY <1>2 DEF AddKeys
  <2>3. AddIndex(ks, ix, k) = IF k.kid = NoKid THEN ix ELSE [ix EXCEPT ![k.kid] = Len(ks) + 1]
    BY <1>2 DEF AddIndex
  <2> QED BY <1>0, <2>1, <2>2, <2>3
<1> QED BY <1>1, <1>2

\* Add keeps the index the one of the slice.
LEMMA AddIndexed ==
  ASSUME NEW ks, NEW ix, IndexOf(ks, ix), NEW k \in Entry
  PROVE  IndexOf(AddKeys(ks, ix, k), AddIndex(ks, ix, k))
<1> DEFINE new == AddKeys(ks, ix, k)
           index == AddIndex(ks, ix, k)
<1>0. new \in Seq(Entry) /\ ks \in Seq(Entry) /\ ix \in [Kids -> Nat] /\ NoKid \notin Kids
  BY AddPlaces, KeySetAssumption DEF IndexOf
<1>1. \A kid \in Kids : /\ ix[kid] \in 0..Len(ks)
                        /\ \A i \in 1..Len(ks) : ix[kid] = i <=> ks[i].kid = kid
  BY DEF IndexOf
<1>2. CASE /\ k.kid # NoKid /\ ix[k.kid] \in 1..Len(ks) /\ Len(new) = Len(ks)
           /\ ks[ix[k.kid]].kid = k.kid /\ index = ix
           /\ \A i \in 1..Len(ks) : new[i] = IF i = ix[k.kid] THEN k ELSE ks[i]
  <2> HIDE DEF new, index
  <2>1. \A i \in 1..Len(ks) : new[i].kid = ks[i].kid
    BY <1>2
  <2> QED BY <1>0, <1>1, <1>2, <2>1 DEF IndexOf, new, index
<1>3. CASE /\ \A i \in 1..Len(ks) : k.kid # NoKid => ks[i].kid # k.kid
           /\ Len(new) = Len(ks) + 1
           /\ new[Len(ks) + 1] = k
           /\ \A i \in 1..Len(ks) : new[i] = ks[i]
           /\ index = IF k.kid = NoKid THEN ix ELSE [ix EXCEPT ![k.kid] = Len(ks) + 1]
  <2> HIDE DEF new, index
  <2>1. index \in [Kids -> Nat]
    <3>1. Len(ks) + 1 \in Nat
      BY <1>0
    <3>2. index = ix \/ index = [ix EXCEPT ![k.kid] = Len(ks) + 1]
      BY <1>3
    <3> QED BY <1>0, <3>1, <3>2
  <2>2. ASSUME NEW kid \in Kids
        PROVE  /\ index[kid] \in 0..Len(new)
               /\ \A i \in 1..Len(new) : index[kid] = i <=> new[i].kid = kid
    <3>1. CASE kid = k.kid
      BY <1>0, <1>3, <3>1
    <3>2. CASE kid # k.kid
      BY <1>0, <1>1, <1>3, <3>2
    <3> QED BY <3>1, <3>2
  <2>3. IndexOf(new, index)
    BY <1>0, <2>1, <2>2 DEF IndexOf
  <2> QED BY <2>3 DEF new, index
<1> QED BY <1>2, <1>3, AddPlaces

\* Positions are finitely many, and their enumeration is one to one.
LEMMA EnumerationFacts ==
  ASSUME NEW n \in Nat, NEW P \in SUBSET (1..n), NEW f \in Enumerations(P)
  PROVE  /\ IsFiniteSet(P) /\ Cardinality(P) \in Nat
         /\ f \in Seq(P) /\ f \in [1..Cardinality(P) -> P] /\ Len(f) = Cardinality(P)
         /\ \A i, j \in DOMAIN f : f[i] = f[j] => i = j
<1>1. IsFiniteSet(P) /\ Cardinality(P) \in Nat
  <2>1. IsFiniteSet(1..n)
    BY FS_Interval
  <2> QED BY <2>1, FS_Subset, FS_CardinalityType
<1>2. f \in [1..Cardinality(P) -> P] /\ \A i, j \in DOMAIN f : i < j => f[i] < f[j]
  BY DEF Enumerations
<1>3. \A i, j \in DOMAIN f : f[i] = f[j] => i = j
  <2> SUFFICES ASSUME NEW i \in DOMAIN f, NEW j \in DOMAIN f, f[i] = f[j] PROVE i = j
    OBVIOUS
  <2>0. DOMAIN f = 1..Cardinality(P) /\ f[i] \in P /\ f[j] \in P
    BY <1>2
  <2>1. i \in Int /\ j \in Int
    BY <1>1, <2>0
  <2>2. \A p \in P : p \in Int
    OBVIOUS
  <2>3. f[i] \in Int
    BY <2>0, <2>2
  <2> QED BY <1>2, <2>1, <2>3
<1> QED BY <1>1, <1>2, <1>3

\* Remove rebuilds the index of what is left.
LEMMA RemoveIndexed ==
  ASSUME NEW ks, NEW ix, IndexOf(ks, ix), NEW s, NEW kid,
         NEW f \in Enumerations({i \in DOMAIN ks : ks[i].kid # kid}),
         NEW out, out = [i \in DOMAIN f |-> ks[f[i]]]
  PROVE  IndexOf(out, rebuildIndex(s, kid, out)) /\ RefsOf(out) \subseteq RefsOf(ks)
<1> DEFINE P == {i \in DOMAIN ks : ks[i].kid # kid}
           index == rebuildIndex(s, kid, out)
<1>0. ks \in Seq(Entry) /\ ix \in [Kids -> Nat] /\ Len(ks) \in Nat /\ DOMAIN ks = 1..Len(ks)
  BY DEF IndexOf
<1>1. P \in SUBSET (1..Len(ks))
  BY <1>0
<1>2. /\ Cardinality(P) \in Nat /\ f \in [1..Cardinality(P) -> P]
      /\ \A i, j \in DOMAIN f : f[i] = f[j] => i = j
  BY <1>0, <1>1, EnumerationFacts
<1>3. \A i \in DOMAIN f : f[i] \in 1..Len(ks) /\ ks[f[i]] \in Entry
  BY <1>0, <1>1, <1>2
<1> HIDE DEF P
<1>4. out \in [1..Cardinality(P) -> Entry]
  BY <1>2, <1>3
<1>5. out \in Seq(Entry) /\ Len(out) = Cardinality(P) /\ DOMAIN out = DOMAIN f
  BY <1>2, <1>4
<1>6. RefsOf(out) \subseteq RefsOf(ks)
  BY <1>0, <1>3, <1>5 DEF RefsOf
<1>7. \A i, j \in DOMAIN out : out[i].kid \in Kids /\ out[i].kid = out[j].kid => i = j
  <2> SUFFICES ASSUME NEW i \in DOMAIN out, NEW j \in DOMAIN out,
                      out[i].kid \in Kids, out[i].kid = out[j].kid
               PROVE  i = j
    OBVIOUS
  <2>1. out[i] = ks[f[i]] /\ out[j] = ks[f[j]]
    BY <1>5
  <2>2. f[i] \in 1..Len(ks) /\ f[j] \in 1..Len(ks)
    BY <1>3, <1>5
  <2>3. ix[out[i].kid] = f[i] /\ ix[out[i].kid] = f[j]
    BY <2>1, <2>2 DEF IndexOf
  <2> QED BY <1>2, <1>5, <2>3
<1>8. ASSUME NEW k \in Kids
      PROVE  /\ index[k] \in 0..Len(out)
             /\ \A i \in 1..Len(out) : index[k] = i <=> out[i].kid = k
  <2> DEFINE Q == {i \in DOMAIN out : out[i].kid = k}
  <2>0. DOMAIN out = 1..Len(out) /\ Len(out) \in Nat
    BY <1>5
  <2>1. index[k] = IF Q = {} THEN 0 ELSE CHOOSE i \in Q : \A j \in Q : j <= i
    BY DEF rebuildIndex
  <2>2. CASE Q = {}
    <3>1. \A i \in 1..Len(out) : out[i].kid # k
      BY <2>0, <2>2
    <3> HIDE DEF index, Q
    <3>2. index[k] = 0
      BY <2>1, <2>2
    <3> QED BY <2>0, <3>1, <3>2
  <2>3. CASE Q # {}
    <3>1. PICK q \in Q : TRUE
      BY <2>3
    <3>2. \A j \in Q : j = q
      BY <1>7
    <3>3. q <= q
      BY <2>0
    <3> HIDE DEF Q
    <3>4. index[k] = q
      BY <2>1, <2>3, <3>1, <3>2, <3>3
    <3> QED BY <2>0, <3>1, <3>2, <3>4 DEF Q
  <2> QED BY <2>2, <2>3
<1>9. index \in [Kids -> Nat]
  <2>1. \A k \in Kids : index[k] \in Nat
    BY <1>5, <1>8
  <2>2. index = [k \in Kids |-> index[k]]
    BY DEF rebuildIndex
  <2> HIDE DEF index
  <2> QED BY <2>1, <2>2
<1> QED BY <1>5, <1>6, <1>8, <1>9 DEF IndexOf

-----------------------------------------------------------------------------
(* What the members of a document should become                            *)

Good(ms, n, p) == {i \in 1..n : p => ms[i].form = "key"}
Same(ms, n, p, i) == IF ms[i].kid = NoKid THEN {i}
                     ELSE {j \in Good(ms, n, p) : ms[j].kid = ms[i].kid}
First(ms, n, p) == {i \in Good(ms, n, p) : \A j \in Same(ms, n, p, i) : i <= j}
Last(ms, n, p, i) == CHOOSE j \in Same(ms, n, p, i) : \A l \in Same(ms, n, p, i) : l <= j
Selected(ms, n, p, f) ==
  [i \in DOMAIN f |-> [kid |-> ms[f[i]].kid, ops |-> ms[Last(ms, n, p, f[i])].ops]]

\* The enumeration f of the places to fill has one for every kid.
Covers(ms, n, p, f) ==
  \A j \in Good(ms, n, p) :
    ms[j].kid # NoKid => \E i \in DOMAIN f : ms[f[i]].kid = ms[j].kid

\* What a source asks for, as the enumerations of the first positions of each kid.
LEMMA ExpectedIs ==
  ASSUME NEW ms, NEW n, NEW p
  PROVE  Expected(ms, n, p) = {Selected(ms, n, p, f) : f \in Enumerations(First(ms, n, p))}
BY DEF Expected, Selected, First, Last, Same, Good

\* Append to a sequence that is given as a function.
LEMMA AppendIs ==
  ASSUME NEW m \in Nat, NEW S, NEW f \in [1..m -> S], NEW e
  PROVE  /\ DOMAIN Append(f, e) = 1..(m + 1) /\ Append(f, e)[m + 1] = e
         /\ \A i \in 1..m : Append(f, e)[i] = f[i]
         /\ Append(f, e) \in [1..(m + 1) -> S \cup {e}]
<1>1. f \in [1..m -> S \cup {e}]
  OBVIOUS
<1>2. f \in Seq(S \cup {e}) /\ Len(f) = m
  BY <1>1
<1> DEFINE T == S \cup {e}
           g == Append(f, e)
<1> HIDE DEF T
<1>3. f \in Seq(T) /\ e \in T
  BY <1>2 DEF T
<1>4. g \in Seq(T) /\ Len(g) = m + 1 /\ g[m + 1] = e /\ \A i \in 1..m : g[i] = f[i]
  BY <1>2, <1>3
<1> HIDE DEF g
<1>5. g \in [1..(m + 1) -> T]
  BY <1>4
<1> QED BY <1>4, <1>5 DEF g, T

\* A place more at the end.
LEMMA EnumerationGrows ==
  ASSUME NEW n \in Nat, NEW P \in SUBSET (1..n), NEW f \in Enumerations(P)
  PROVE  Append(f, n + 1) \in Enumerations(P \cup {n + 1})
<1> DEFINE Q == P \cup {n + 1}
           g == Append(f, n + 1)
           m == Cardinality(P)
<1>1. IsFiniteSet(P) /\ m \in Nat /\ f \in Seq(P) /\ f \in [1..m -> P] /\ Len(f) = m
  BY EnumerationFacts
<1>2. n + 1 \notin P
  OBVIOUS
<1>3. Cardinality(Q) = m + 1
  BY <1>1, <1>2, FS_AddElement
<1>4. \A x \in P : x \in Int /\ x < n + 1
  OBVIOUS
<1>5. \A i, j \in DOMAIN f : i < j => f[i] < f[j]
  BY DEF Enumerations
<1> HIDE DEF m
<1>6. /\ g \in Seq(Q) /\ Len(g) = m + 1 /\ g[m + 1] = n + 1
      /\ \A i \in 1..m : g[i] = f[i]
  <2>1. f \in Seq(Q)
    BY <1>1
  <2> HIDE DEF Q
  <2> QED BY <1>1, <2>1 DEF Q
<1> HIDE DEF g, Q
<1>7. g \in [1..(m + 1) -> Q]
  BY <1>6
<1>8. ASSUME NEW i \in 1..(m + 1), NEW j \in 1..(m + 1), i < j PROVE g[i] < g[j]
  <2>1. i \in 1..m /\ g[i] = f[i] /\ f[i] \in P
    BY <1>1, <1>6, <1>8
  <2>2. CASE j = m + 1
    BY <1>4, <1>6, <2>1, <2>2
  <2>3. CASE j # m + 1
    <3>1. j \in 1..m /\ g[j] = f[j]
      BY <1>1, <1>6, <2>3
    <3> QED BY <1>1, <1>5, <1>8, <2>1, <3>1
  <2> QED BY <2>2, <2>3
<1>9. g \in Enumerations(Q)
  <2>1. DOMAIN g = 1..(m + 1)
    BY <1>7
  <2> QED BY <1>3, <1>7, <1>8, <2>1 DEF Enumerations
<1> QED BY <1>9 DEF g, Q

\* The next member has a kid that none before it has: it gets a place of its own.
LEMMA NextIsFirst ==
  ASSUME NEW ms, NEW n \in Nat, NEW p, p => ms[n + 1].form = "key",
         NEW f \in Enumerations(First(ms, n, p)), Covers(ms, n, p, f),
         ms[n + 1].kid # NoKid => \A i \in DOMAIN f : ms[f[i]].kid # ms[n + 1].kid
  PROVE  LET g == Append(f, n + 1) IN
         /\ g \in Enumerations(First(ms, n + 1, p)) /\ Covers(ms, n + 1, p, g)
         /\ Selected(ms, n + 1, p, g) =
              Append(Selected(ms, n, p, f), [kid |-> ms[n + 1].kid, ops |-> ms[n + 1].ops])
<1> DEFINE g == Append(f, n + 1)
           G == Good(ms, n, p)
           P == First(ms, n, p)
           m == Cardinality(P)
<1>0. P \in SUBSET (1..n) /\ P \subseteq G /\ G \subseteq 1..n
  BY DEF First, Good
<1>1. m \in Nat /\ f \in Seq(P) /\ f \in [1..m -> P] /\ Len(f) = m
  BY <1>0, EnumerationFacts
<1>2. Good(ms, n + 1, p) = G \cup {n + 1}
  BY DEF Good
<1>3. \A j \in G : ms[n + 1].kid # NoKid => ms[j].kid # ms[n + 1].kid
  BY DEF Covers
<1>4. \A i \in G : Same(ms, n + 1, p, i) = Same(ms, n, p, i)
  <2> SUFFICES ASSUME NEW i \in G PROVE Same(ms, n + 1, p, i) = Same(ms, n, p, i)
    OBVIOUS
  <2> HIDE DEF G
  <2>1. CASE ms[i].kid = NoKid
    BY <2>1 DEF Same
  <2>2. CASE ms[i].kid # NoKid
    <3>1. {j \in G \cup {n + 1} : ms[j].kid = ms[i].kid} = {j \in G : ms[j].kid = ms[i].kid}
      BY <1>3, <2>2
    <3> QED BY <1>2, <2>2, <3>1 DEF Same, G
  <2> QED BY <2>1, <2>2
<1>5. Same(ms, n + 1, p, n + 1) = {n + 1}
  <2> HIDE DEF G
  <2> QED BY <1>2, <1>3 DEF Same
<1>6. First(ms, n + 1, p) = P \cup {n + 1}
  <2>1. n + 1 \in First(ms, n + 1, p)
    BY <1>2, <1>5 DEF First
  <2>2. ASSUME NEW i \in G PROVE i \in First(ms, n + 1, p) <=> i \in P
    BY <1>2, <1>4 DEF First
  <2>3. First(ms, n + 1, p) \subseteq G \cup {n + 1}
    BY <1>2 DEF First
  <2> HIDE DEF G, P
  <2> QED BY <1>0, <2>1, <2>2, <2>3
<1>7. g \in Enumerations(First(ms, n + 1, p))
  BY <1>0, <1>6, EnumerationGrows
<1>8. \A i \in G : Last(ms, n + 1, p, i) = Last(ms, n, p, i)
  BY <1>4 DEF Last
<1>9. Last(ms, n + 1, p, n + 1) = n + 1
  BY <1>5 DEF Last
<1> HIDE DEF m, P, G
<1>10. /\ DOMAIN g = 1..(m + 1) /\ g[m + 1] = n + 1
       /\ \A i \in 1..m : g[i] = f[i] /\ f[i] \in G
       /\ DOMAIN f = 1..m
  <2>1. m \in Nat /\ f \in [1..m -> P]
    BY <1>1
  <2>2. \A i \in 1..m : f[i] \in G
    BY <1>0, <2>1
  <2>3. DOMAIN g = 1..(m + 1) /\ g[m + 1] = n + 1 /\ \A i \in 1..m : g[i] = f[i]
    BY <2>1, AppendIs
  <2> QED BY <2>1, <2>2, <2>3
<1> HIDE DEF g
<1>11. Covers(ms, n + 1, p, g)
  <2> SUFFICES ASSUME NEW j \in G \cup {n + 1}, ms[j].kid # NoKid
               PROVE  \E i \in DOMAIN g : ms[g[i]].kid = ms[j].kid
    BY <1>2 DEF Covers
  <2>1. CASE j = n + 1
    BY <1>1, <1>10, <2>1
  <2>2. CASE j # n + 1
    <3>1. PICK i \in DOMAIN f : ms[f[i]].kid = ms[j].kid
      BY <2>2 DEF Covers, G
    <3>2. i \in 1..m /\ i \in DOMAIN g /\ g[i] = f[i]
      BY <1>1, <1>10
    <3> QED BY <3>1, <3>2
  <2> QED BY <2>1, <2>2
<1>12. Selected(ms, n + 1, p, g) =
         Append(Selected(ms, n, p, f), [kid |-> ms[n + 1].kid, ops |-> ms[n + 1].ops])
  <2> DEFINE e == [kid |-> ms[n + 1].kid, ops |-> ms[n + 1].ops]
             old == Selected(ms, n, p, f)
             new == Selected(ms, n + 1, p, g)
  <2>1. /\ DOMAIN old = 1..m /\ DOMAIN new = 1..(m + 1)
        /\ old = [i \in 1..m |-> old[i]] /\ new = [i \in 1..(m + 1) |-> new[i]]
    BY <1>10 DEF Selected
  <2>2. new[m + 1] = e
    BY <1>1, <1>9, <1>10 DEF Selected
  <2>3. \A i \in 1..m : new[i] = old[i]
    BY <1>1, <1>8, <1>10 DEF Selected
  <2> HIDE DEF old, new, e
  <2>4. PICK S : old \in [1..m -> S]
    <3>1. old \in [1..m -> {old[i] : i \in 1..m}]
      BY <2>1
    <3> QED BY <3>1
  <2>5. m \in Nat
    BY <1>1
  <2>6. /\ DOMAIN Append(old, e) = 1..(m + 1) /\ Append(old, e)[m + 1] = e
        /\ \A i \in 1..m : Append(old, e)[i] = old[i]
        /\ Append(old, e) \in [1..(m + 1) -> S \cup {e}]
    BY <2>4, <2>5, AppendIs
  <2>7. \A i \in 1..(m + 1) : i = m + 1 \/ i \in 1..m
    BY <1>1
  <2>8. \A i \in 1..(m + 1) : new[i] = Append(old, e)[i]
    BY <2>2, <2>3, <2>6, <2>7
  <2>9. new = Append(old, e)
    BY <2>1, <2>6, <2>8
  <2> QED BY <2>9 DEF new, old, e
<1> QED BY <1>7, <1>11, <1>12 DEF g

\* The next member has the kid of one before it: it is the last to fill that place.
LEMMA NextReplaces ==
  ASSUME NEW ms, NEW n \in Nat, NEW p, p => ms[n + 1].form = "key",
         NEW f \in Enumerations(First(ms, n, p)), Covers(ms, n, p, f),
         NEW x \in DOMAIN f, ms[f[x]].kid = ms[n + 1].kid, ms[n + 1].kid # NoKid
  PROVE  /\ f \in Enumerations(First(ms, n + 1, p)) /\ Covers(ms, n + 1, p, f)
         /\ DOMAIN Selected(ms, n + 1, p, f) = DOMAIN f /\ DOMAIN Selected(ms, n, p, f) = DOMAIN f
         /\ \A i \in DOMAIN f :
              Selected(ms, n + 1, p, f)[i] =
                IF i = x THEN [kid |-> ms[n + 1].kid, ops |-> ms[n + 1].ops]
                ELSE Selected(ms, n, p, f)[i]
<1> DEFINE G == Good(ms, n, p)
           P == First(ms, n, p)
<1>0. P \in SUBSET (1..n) /\ P \subseteq G /\ G \subseteq 1..n
  BY DEF First, Good
<1>1. \A i \in DOMAIN f : f[i] \in P
  <2>1. f \in [1..Cardinality(P) -> P]
    BY <1>0, EnumerationFacts
  <2> QED BY <2>1
<1>2. \A i, j \in DOMAIN f : f[i] = f[j] => i = j
  BY <1>0, EnumerationFacts
<1>3. Good(ms, n + 1, p) = G \cup {n + 1}
  BY DEF Good
<1>4. ASSUME NEW i \in G
      PROVE  Same(ms, n + 1, p, i) = IF ms[i].kid = ms[n + 1].kid
                                     THEN Same(ms, n, p, i) \cup {n + 1} ELSE Same(ms, n, p, i)
  <2> HIDE DEF G
  <2>1. CASE ms[i].kid = NoKid
    BY <2>1 DEF Same
  <2>2. CASE ms[i].kid # NoKid
    <3>1. {j \in G \cup {n + 1} : ms[j].kid = ms[i].kid} =
            IF ms[i].kid = ms[n + 1].kid THEN {j \in G : ms[j].kid = ms[i].kid} \cup {n + 1}
            ELSE {j \in G : ms[j].kid = ms[i].kid}
      OBVIOUS
    <3> QED BY <1>3, <2>2, <3>1 DEF Same, G
  <2> QED BY <2>1, <2>2
<1>5. f[x] \in G /\ f[x] \in Same(ms, n + 1, p, n + 1) /\ f[x] < n + 1
  BY <1>0, <1>1, <1>3 DEF Same
<1>6. First(ms, n + 1, p) = P
  <2>1. n + 1 \notin First(ms, n + 1, p)
    <3>1. f[x] \in Int /\ ~(n + 1 <= f[x])
      BY <1>0, <1>5
    <3> QED BY <1>5, <3>1 DEF First
  <2>2. ASSUME NEW i \in G PROVE i \in First(ms, n + 1, p) <=> i \in P
    <3>1. i <= n + 1
      BY <1>0
    <3>2. (\A j \in Same(ms, n + 1, p, i) : i <= j) <=> (\A j \in Same(ms, n, p, i) : i <= j)
      BY <1>4, <3>1
    <3> QED BY <1>3, <3>2 DEF First
  <2>3. First(ms, n + 1, p) \subseteq G \cup {n + 1}
    BY <1>3 DEF First
  <2> HIDE DEF G, P
  <2> QED BY <1>0, <2>1, <2>2, <2>3
<1>7. Covers(ms, n + 1, p, f)
  BY <1>3 DEF Covers
<1>8. ASSUME NEW i \in DOMAIN f
      PROVE  Last(ms, n + 1, p, f[i]) = IF i = x THEN n + 1 ELSE Last(ms, n, p, f[i])
  <2>0. f[i] \in P /\ f[i] \in G
    BY <1>0, <1>1
  <2>1. CASE i = x
    <3> DEFINE S == Same(ms, n + 1, p, f[x])
    <3>1. n + 1 \in S /\ S \subseteq G \cup {n + 1}
      BY <1>3, <1>4, <2>0, <2>1 DEF Same
    <3>2. \A l \in S : l <= n + 1 /\ l \in Int
      BY <1>0, <3>1
    <3> HIDE DEF S
    <3>3. (CHOOSE j \in S : \A l \in S : l <= j) = n + 1
      BY <3>1, <3>2
    <3> QED BY <2>1, <3>3 DEF Last, S
  <2>2. CASE i # x
    <3>1. ms[f[i]].kid # ms[n + 1].kid
      <4> SUFFICES ASSUME ms[f[i]].kid = ms[n + 1].kid PROVE FALSE
        OBVIOUS
      <4>1. f[i] \in Same(ms, n, p, f[x]) /\ f[x] \in Same(ms, n, p, f[i])
        BY <1>5, <2>0 DEF Same
      <4>2. f[x] <= f[i] /\ f[i] <= f[x]
        BY <1>1, <2>0, <4>1 DEF First
      <4>3. f[x] \in Int /\ f[i] \in Int
        BY <1>0, <1>5, <2>0
      <4> QED BY <1>2, <2>2, <4>2, <4>3
    <3>2. Same(ms, n + 1, p, f[i]) = Same(ms, n, p, f[i])
      BY <1>4, <2>0, <3>1
    <3> QED BY <2>2, <3>2 DEF Last
  <2> QED BY <2>1, <2>2
<1> QED BY <1>6, <1>7, <1>8 DEF Selected

\* A member that is left out changes nothing.
LEMMA NextSkipped ==
  ASSUME NEW ms, NEW n \in Nat, NEW p, p, ms[n + 1].form # "key"
  PROVE  /\ Good(ms, n + 1, p) = Good(ms, n, p)
         /\ First(ms, n + 1, p) = First(ms, n, p)
         /\ \A f : /\ Selected(ms, n + 1, p, f) = Selected(ms, n, p, f)
                   /\ Covers(ms, n + 1, p, f) <=> Covers(ms, n, p, f)
<1>1. Good(ms, n + 1, p) = Good(ms, n, p)
  BY DEF Good
<1>2. \A i : Same(ms, n + 1, p, i) = Same(ms, n, p, i)
  BY <1>1 DEF Same
<1>3. First(ms, n + 1, p) = First(ms, n, p)
  BY <1>1, <1>2 DEF First
<1>4. \A i : Last(ms, n + 1, p, i) = Last(ms, n, p, i)
  BY <1>2 DEF Last
<1> QED BY <1>1, <1>3, <1>4 DEF Selected, Covers

\* A set shows what the first n members should become.
Built(ms, n, p, shown) ==
  \E f \in Enumerations(First(ms, n, p)) :
    shown = Selected(ms, n, p, f) /\ Covers(ms, n, p, f)

\* What was built member by member is what the source asks for.
LEMMA BuiltIsExpected ==
  ASSUME NEW ms, NEW n, NEW p, NEW shown, Built(ms, n, p, shown)
  PROVE  shown \in Expected(ms, n, p)
BY ExpectedIs DEF Built

-----------------------------------------------------------------------------
(* What a set shows                                                        *)

\* Writing to an array that a set does not use does not show in it.
LEMMA WriteElsewhere ==
  ASSUME NEW ks \in Seq(Entry), NEW m \in [Refs -> Ops], NEW c, c \notin RefsOf(ks), NEW o
  PROVE  Shown(ks, Write(m, c, o)) = Shown(ks, m)
<1>1. \A i \in DOMAIN ks : ks[i].ref \in Refs /\ ks[i].ref # c
  <2>1. \A i \in DOMAIN ks : ks[i] \in Entry
    OBVIOUS
  <2> QED BY <2>1 DEF RefsOf, Entry
<1> QED BY <1>1 DEF Shown, Write

\* What a set shows after Add of a key in an array of its own.
LEMMA AddShown ==
  ASSUME NEW ks, NEW ix, IndexOf(ks, ix), NEW kid \in AnyKid, NEW c \in Refs, c \notin RefsOf(ks),
         NEW m \in [Refs -> Ops], NEW o
  PROVE  LET new == AddKeys(ks, ix, Key(kid, c)) IN
         /\ RefsOf(new) \subseteq RefsOf(ks) \cup {c}
         /\ Adds(ks, m, kid, Item(kid, o), Shown(new, Write(m, c, o)))
<1> DEFINE k == Key(kid, c)
           e == Item(kid, o)
           new == AddKeys(ks, ix, k)
           m2 == Write(m, c, o)
           n == Len(ks)
           old == Shown(ks, m)
           after == Shown(new, m2)
<1>0. ks \in Seq(Entry) /\ n \in Nat /\ DOMAIN ks = 1..n
  BY DEF IndexOf
<1>1. k \in Entry /\ k.kid = kid /\ k.ref = c
  BY DEF Entry, Key
<1>2. m2[c] = o /\ \A i \in DOMAIN ks : m2[ks[i].ref] = m[ks[i].ref]
  <2>1. \A i \in DOMAIN ks : ks[i].ref \in Refs /\ ks[i].ref # c
    <3>1. \A i \in DOMAIN ks : ks[i] \in Entry
      BY <1>0
    <3> QED BY <3>1 DEF RefsOf, Entry
  <2> QED BY <2>1 DEF Write
<1>3. /\ DOMAIN old = 1..n
      /\ \A i \in 1..n : old[i] = [kid |-> ks[i].kid, ops |-> m[ks[i].ref]]
  BY <1>0 DEF Shown
<1> HIDE DEF k, m2, n
<1>4. ASSUME NEW x \in 1..n, ks[x].kid = kid, kid # NoKid, new = [ks EXCEPT ![x] = k]
      PROVE  /\ RefsOf(new) \subseteq RefsOf(ks) \cup {c}
             /\ kid # NoKid /\ ks[x].kid = kid /\ after = [old EXCEPT ![x] = e]
  <2>1. DOMAIN new = 1..n /\ \A i \in 1..n : new[i] = IF i = x THEN k ELSE ks[i]
    BY <1>0, <1>4
  <2> HIDE DEF new
  <2>2. RefsOf(new) \subseteq RefsOf(ks) \cup {c}
    BY <1>0, <1>1, <2>1 DEF RefsOf
  <2>3. \A i \in 1..n : [kid |-> new[i].kid, ops |-> m2[new[i].ref]] = IF i = x THEN e ELSE old[i]
    BY <1>0, <1>1, <1>2, <1>3, <2>1 DEF Item
  <2>4. after = [i \in 1..n |-> IF i = x THEN e ELSE old[i]]
    BY <2>1, <2>3 DEF Shown
  <2> HIDE DEF old, e, after
  <2>5. after = [old EXCEPT ![x] = e]
    BY <1>3, <2>4
  <2> QED BY <1>4, <2>2, <2>5
<1>5. ASSUME new = Append(ks, k)
      PROVE  RefsOf(new) \subseteq RefsOf(ks) \cup {c} /\ after = Append(old, e)
  <2>1. ks \in [1..n -> Entry]
    BY <1>0 DEF n
  <2>2. DOMAIN new = 1..(n + 1) /\ new[n + 1] = k /\ \A i \in 1..n : new[i] = ks[i]
    BY <1>0, <1>5, <2>1, AppendIs
  <2>3. \A i \in 1..(n + 1) : i \in 1..n \/ i = n + 1
    BY <1>0
  <2> HIDE DEF new
  <2>4. RefsOf(new) \subseteq RefsOf(ks) \cup {c}
    BY <1>0, <1>1, <2>2, <2>3 DEF RefsOf
  <2>5. \A i \in 1..n : [kid |-> new[i].kid, ops |-> m2[new[i].ref]] = old[i]
    BY <1>0, <1>2, <1>3, <2>2
  <2>6. [kid |-> new[n + 1].kid, ops |-> m2[new[n + 1].ref]] = e
    BY <1>1, <1>2, <2>2 DEF Item
  <2>7. /\ DOMAIN after = 1..(n + 1) /\ after = [i \in 1..(n + 1) |-> after[i]]
        /\ \A i \in 1..n : after[i] = old[i]
        /\ after[n + 1] = e
    <3>1. \A i \in 1..n : i \in 1..(n + 1)
      BY <1>0
    <3>2. n + 1 \in 1..(n + 1)
      BY <1>0
    <3> QED BY <2>2, <2>5, <2>6, <3>1, <3>2 DEF Shown
  <2>8. PICK S : old \in [1..n -> S]
    <3>1. old \in [1..n -> {old[i] : i \in 1..n}]
      BY <1>0 DEF Shown
    <3> QED BY <3>1
  <2> HIDE DEF old, after, e
  <2>9. /\ DOMAIN Append(old, e) = 1..(n + 1) /\ Append(old, e)[n + 1] = e
        /\ \A i \in 1..n : Append(old, e)[i] = old[i]
        /\ Append(old, e) \in [1..(n + 1) -> S \cup {e}]
    BY <1>0, <2>8, AppendIs
  <2>10. \A i \in 1..(n + 1) : after[i] = Append(old, e)[i]
    BY <2>3, <2>7, <2>9
  <2>11. after = Append(old, e)
    BY <2>7, <2>9, <2>10
  <2> QED BY <2>4, <2>11
<1>6. \/ /\ kid # NoKid /\ ix[kid] \in 1..n /\ ks[ix[kid]].kid = kid
         /\ new = [ks EXCEPT ![ix[kid]] = k]
      \/ /\ \A i \in 1..n : kid # NoKid => ks[i].kid # kid
         /\ new = Append(ks, k)
  BY <1>1, AddPlaces DEF n
<1> HIDE DEF new, old, after, e
<1>7. RefsOf(new) \subseteq RefsOf(ks) \cup {c} /\ Adds(ks, m, kid, e, after)
  BY <1>0, <1>4, <1>5, <1>6 DEF Adds, old
<1> QED BY <1>7 DEF new, after, e, k, m2

\* Adding the next member keeps a set under construction faithful to its source.
LEMMA BuiltAfterAdd ==
  ASSUME NEW ms, NEW n \in Nat, NEW p, p => ms[n + 1].form = "key",
         NEW ks, NEW ix, IndexOf(ks, ix), NEW m \in [Refs -> Ops],
         Built(ms, n, p, Shown(ks, m)), NEW c \in Refs, c \notin RefsOf(ks),
         NEW kid \in AnyKid, kid = ms[n + 1].kid, NEW o, o = ms[n + 1].ops
  PROVE  Built(ms, n + 1, p,
               Shown(AddKeys(ks, ix, Key(kid, c)), Write(m, c, o)))
<1> DEFINE e == Item(kid, o)
           old == Shown(ks, m)
           after == Shown(AddKeys(ks, ix, Key(kid, c)), Write(m, c, o))
<1>1. PICK f \in Enumerations(First(ms, n, p)) : old = Selected(ms, n, p, f) /\ Covers(ms, n, p, f)
  BY DEF Built
<1>2. /\ DOMAIN old = DOMAIN ks /\ DOMAIN Selected(ms, n, p, f) = DOMAIN f
      /\ \A i \in DOMAIN ks : old[i].kid = ks[i].kid
      /\ \A i \in DOMAIN f : Selected(ms, n, p, f)[i].kid = ms[f[i]].kid
  BY DEF Shown, Selected
<1>3. DOMAIN ks = DOMAIN f /\ \A i \in DOMAIN f : ks[i].kid = ms[f[i]].kid
  BY <1>1, <1>2
<1>4. \/ /\ kid # NoKid
         /\ \E x \in DOMAIN ks : ks[x].kid = kid /\ after = [old EXCEPT ![x] = e]
      \/ /\ kid # NoKid => \A i \in DOMAIN ks : ks[i].kid # kid
         /\ after = Append(old, e)
  <2>1. Adds(ks, m, kid, e, after)
    BY AddShown
  <2> HIDE DEF after, e
  <2> QED BY <2>1 DEF Adds
<1> HIDE DEF after, old, e
<1>5. ASSUME NEW x \in DOMAIN ks, kid # NoKid, ks[x].kid = kid, after = [old EXCEPT ![x] = e]
      PROVE  Built(ms, n + 1, p, after)
  <2> DEFINE sel == Selected(ms, n + 1, p, f)
  <2>1. x \in DOMAIN f /\ ms[f[x]].kid = kid
    BY <1>3, <1>5
  <2>2. /\ f \in Enumerations(First(ms, n + 1, p)) /\ Covers(ms, n + 1, p, f)
        /\ DOMAIN sel = DOMAIN f
        /\ \A i \in DOMAIN f : sel[i] = IF i = x THEN e ELSE old[i]
    BY <1>1, <1>5, <2>1, NextReplaces DEF e, Item
  <2>3. sel = [i \in DOMAIN f |-> sel[i]]
    BY DEF Selected
  <2> HIDE DEF sel
  <2>4. after = [i \in DOMAIN f |-> IF i = x THEN e ELSE old[i]]
    BY <1>2, <1>3, <1>5
  <2>5. after = sel
    BY <2>2, <2>3, <2>4
  <2> QED BY <2>2, <2>5 DEF Built, sel
<1>6. ASSUME kid # NoKid => \A i \in DOMAIN ks : ks[i].kid # kid, after = Append(old, e)
      PROVE  Built(ms, n + 1, p, after)
  <2> DEFINE g == Append(f, n + 1)
  <2>1. kid # NoKid => \A i \in DOMAIN f : ms[f[i]].kid # kid
    BY <1>3, <1>6
  <2>2. /\ g \in Enumerations(First(ms, n + 1, p)) /\ Covers(ms, n + 1, p, g)
        /\ Selected(ms, n + 1, p, g) = Append(old, e)
    BY <1>1, <2>1, NextIsFirst DEF e, Item
  <2> HIDE DEF g
  <2> QED BY <1>6, <2>2 DEF Built
<1> QED BY <1>4, <1>5, <1>6 DEF after

-----------------------------------------------------------------------------
(* The inductive invariant                                                 *)

LeftOut(ms, n, p) == {i \in 1..n : p /\ ms[i].form # "key"}

\* A construction b of a set that shows this much, while the sets lv have been handed out.
BuildOK(b, shown, lv) ==
  b.busy =>
    /\ DOMAIN b = {"busy", "target", "members", "next", "permissive", "diagnostics"}
    /\ b.target \in Sets \ lv
    /\ b.members \in Seq(Member) /\ b.next \in 1..(Len(b.members) + 1)
    /\ b.permissive \in BOOLEAN
    /\ Built(b.members, b.next - 1, b.permissive, shown)
    /\ b.diagnostics = LeftOut(b.members, b.next - 1, b.permissive)

\* No set has an array that a caller holds.
Unshared == \A s \in Sets : RefsOf(keys[s]) \cap held = {}

\* A set that nobody has got and that is not under construction is empty.
Blank == \A s \in Sets \ live : (build.busy => s # build.target) => keys[s] = <<>>

Inv ==
  /\ DOMAIN keys = Sets /\ DOMAIN byKID = Sets
  /\ \A s \in Sets : IndexOf(keys[s], byKID[s])
  /\ mem \in [Refs -> Ops] /\ held \subseteq Refs /\ live \subseteq Sets
  /\ build.busy \in BOOLEAN
  /\ Unshared
  /\ Blank
  /\ BuildOK(build, Shown(keys[build.target], mem), live)

\* An array that is allocated is one that nobody uses.
LEMMA FreshArray ==
  ASSUME Inv, CanAllocate
  PROVE  LET c == CHOOSE c \in Refs : c \notin Used IN
         /\ c \in Refs /\ c \notin held /\ \A s \in Sets : c \notin RefsOf(keys[s])
         /\ \A r : Clone(r) = c
<1> DEFINE c == CHOOSE c \in Refs : c \notin Used
<1>1. c \in Refs /\ c \notin Used
  BY DEF CanAllocate
<1>2. \A r : Clone(r) = c
  BY DEF Clone
<1> HIDE DEF c
<1>3. c \notin held /\ \A s \in Sets : c \notin RefsOf(keys[s])
  BY <1>1 DEF Used, RefsOf
<1> QED BY <1>1, <1>2, <1>3 DEF c

\* A step that leaves the sets and what they show alone.
LEMMA SetsAlone ==
  ASSUME Inv, UNCHANGED <<keys, byKID, live, build>>, held' \subseteq Refs, mem' \in [Refs -> Ops],
         \A s \in Sets : Shown(keys[s], mem') = Shown(keys[s], mem) /\ RefsOf(keys[s]) \cap held' = {}
  PROVE  Inv'
<1>1. BuildOK(build, Shown(keys[build.target], mem'), live)
  <2>1. CASE ~build.busy
    BY <2>1 DEF BuildOK
  <2>2. CASE build.busy
    <3>1. build.target \in Sets /\ BuildOK(build, Shown(keys[build.target], mem), live)
      BY <2>2 DEF Inv, BuildOK
    <3> QED BY <3>1
  <2> QED BY <2>1, <2>2
<1>2. Unshared'
  BY DEF Unshared
<1>3. Blank'
  BY DEF Inv, Blank
<1>4. BuildOK(build', Shown(keys'[build'.target], mem'), live')
  BY <1>1
<1> QED BY <1>2, <1>3, <1>4 DEF Inv

\* A caller writes to an array that no set has.
LEMMA CallerWrites ==
  ASSUME Inv, NEW c \in Refs, \A s \in Sets : c \notin RefsOf(keys[s]), NEW o \in Ops,
         mem' = [mem EXCEPT ![c] = o], held' \in {held, held \cup {c}},
         UNCHANGED <<keys, byKID, live, build>>
  PROVE  /\ Inv'
         /\ \A s \in Sets : Shown(keys'[s], mem') = Shown(keys[s], mem)
<1>1. mem' \in [Refs -> Ops] /\ held' \subseteq Refs
  BY DEF Inv
<1>2. \A s \in Sets : Shown(keys[s], mem') = Shown(keys[s], mem)
  <2>1. mem \in [Refs -> Ops] /\ \A s \in Sets : keys[s] \in Seq(Entry)
    BY DEF Inv, IndexOf
  <2>2. mem' = Write(mem, c, o)
    BY DEF Write
  <2>3. \A s \in Sets : Shown(keys[s], Write(mem, c, o)) = Shown(keys[s], mem)
    BY <2>1, WriteElsewhere
  <2> QED BY <2>2, <2>3
<1>3. \A s \in Sets : RefsOf(keys[s]) \cap held' = {}
  BY DEF Inv, Unshared
<1> QED BY <1>1, <1>2, <1>3, SetsAlone

\* One set changes, and it is not, or still, the one under construction.
LEMMA OneSetChanges ==
  ASSUME Inv, NEW s \in Sets, NEW ks, NEW ix,
         keys' = [keys EXCEPT ![s] = ks], byKID' = [byKID EXCEPT ![s] = ix],
         IndexOf(ks, ix), RefsOf(ks) \cap held = {}, held' = held, mem' \in [Refs -> Ops],
         \A u \in Sets \ {s} : Shown(keys[u], mem') = Shown(keys[u], mem),
         live' \subseteq Sets, build'.busy \in BOOLEAN,
         \A u \in Sets \ {s} : u \in live' <=> u \in live,
         \/ UNCHANGED build /\ (build.busy => build.target # s)
         \/ build.busy /\ build.target = s /\ s \notin live /\ (build'.busy => build'.target = s),
         s \in live' \/ ks = <<>> \/ (build'.busy /\ build'.target = s),
         build.busy /\ build.target = s => BuildOK(build', Shown(ks, mem'), live')
  PROVE  /\ Inv'
         /\ keys'[s] = ks /\ \A u \in Sets \ {s} : keys'[u] = keys[u]
<1>1. /\ DOMAIN keys' = Sets /\ DOMAIN byKID' = Sets /\ keys'[s] = ks /\ byKID'[s] = ix
      /\ \A u \in Sets \ {s} : keys'[u] = keys[u] /\ byKID'[u] = byKID[u]
  BY DEF Inv
<1>2. \A u \in Sets : IndexOf(keys'[u], byKID'[u])
  BY <1>1 DEF Inv
<1>3. Unshared'
  BY <1>1 DEF Inv, Unshared
<1>4. Blank'
  <2> SUFFICES ASSUME NEW u \in Sets \ live', build'.busy => u # build'.target PROVE keys'[u] = <<>>
    BY DEF Blank
  <2>1. CASE u = s
    BY <1>1, <2>1
  <2>2. CASE u # s
    <3>1. u \notin live /\ (build.busy => u # build.target)
      BY <2>2
    <3> QED BY <1>1, <2>2, <3>1 DEF Inv, Blank
  <2> QED BY <2>1, <2>2
<1>5. BuildOK(build', Shown(keys'[build'.target], mem'), live')
  <2>1. CASE ~build'.busy
    BY <2>1 DEF BuildOK
  <2>2. CASE build'.busy /\ build.busy /\ build.target = s
    <3>1. BuildOK(build', Shown(ks, mem'), live')
      BY <2>2
    <3>2. build'.target = s
      BY <2>2
    <3> QED BY <1>1, <3>1, <3>2
  <2>3. CASE build'.busy /\ ~(build.busy /\ build.target = s)
    <3>1. build' = build /\ build.busy /\ build.target # s
      BY <2>3
    <3>2. BuildOK(build, Shown(keys[build.target], mem), live) /\ build.target \in Sets \ live
      BY <3>1 DEF Inv, BuildOK
    <3>3. Shown(keys'[build.target], mem') = Shown(keys[build.target], mem)
      BY <1>1, <3>1, <3>2
    <3>4. build.target \notin live'
      BY <3>1, <3>2
    <3> QED BY <3>1, <3>2, <3>3, <3>4 DEF BuildOK
  <2> QED BY <2>1, <2>2, <2>3
<1> QED BY <1>1, <1>2, <1>3, <1>4, <1>5 DEF Inv

\* A set that was handed out is not under construction.
LEMMA LiveIsBuilt == ASSUME Inv, NEW s \in live PROVE s \in Sets /\ (build.busy => build.target # s)
BY DEF Inv, BuildOK

\* Add: the key goes into the set, in an array of its own; no other set shows it.
LEMMA AddInv ==
  ASSUME Inv, NEW s \in Sets, NEW kid \in AnyKid, NEW r \in held, Add(s, kid, r)
  PROVE  /\ Inv'
         /\ Adds(keys[s], mem, kid, Item(kid, mem[r]), Shown(keys'[s], mem'))
         /\ \A u \in Sets \ {s} : Shown(keys'[u], mem') = Shown(keys[u], mem)
<1>1. s \in live /\ CanAllocate
  BY DEF Add, HasRoom
<1>2. PICK c \in Refs : /\ c = Clone(r) /\ c \notin held
                        /\ \A u \in Sets : c \notin RefsOf(keys[u])
  BY <1>1, FreshArray
<1>3. PICK ks, ix, k, o : /\ k = Key(kid, c) /\ ks = AddKeys(keys[s], byKID[s], k)
                          /\ ix = AddIndex(keys[s], byKID[s], k) /\ o = mem[r]
  OBVIOUS
<1>4. /\ keys' = [keys EXCEPT ![s] = ks] /\ byKID' = [byKID EXCEPT ![s] = ix]
      /\ mem' = Write(mem, c, o) /\ UNCHANGED <<held, live, build>>
  BY <1>2, <1>3 DEF Add, Key, Write
<1>5. IndexOf(keys[s], byKID[s]) /\ mem \in [Refs -> Ops] /\ o \in Ops
  BY <1>3 DEF Inv
<1>6. k \in Entry
  BY <1>3 DEF Entry, Key
<1>7. IndexOf(ks, ix)
  BY <1>3, <1>5, <1>6, AddIndexed
<1>8. /\ RefsOf(ks) \subseteq RefsOf(keys[s]) \cup {c}
      /\ Adds(keys[s], mem, kid, Item(kid, o), Shown(ks, mem'))
  BY <1>2, <1>3, <1>4, <1>5, AddShown
<1>9. RefsOf(ks) \cap held = {}
  BY <1>2, <1>8 DEF Inv, Unshared
<1>10. \A u \in Sets \ {s} : Shown(keys[u], mem') = Shown(keys[u], mem)
  <2>1. \A u \in Sets : keys[u] \in Seq(Entry)
    BY DEF Inv, IndexOf
  <2> QED BY <1>2, <1>4, <1>5, <2>1, WriteElsewhere
<1>11. mem' \in [Refs -> Ops]
  BY <1>4, <1>5 DEF Write
<1>12. /\ live' \subseteq Sets /\ build'.busy \in BOOLEAN /\ build' = build
       /\ \A u \in Sets \ {s} : u \in live' <=> u \in live
       /\ (build.busy => build.target # s) /\ s \in live'
  BY <1>1, <1>4, LiveIsBuilt DEF Inv
<1>13. Inv' /\ keys'[s] = ks /\ \A u \in Sets \ {s} : keys'[u] = keys[u]
  BY <1>4, <1>7, <1>9, <1>10, <1>11, <1>12, OneSetChanges
<1> QED BY <1>3, <1>8, <1>10, <1>13

\* Remove.
LEMMA RemoveInv ==
  ASSUME Inv, NEW s \in Sets, NEW kid \in AnyKid, Remove(s, kid)
  PROVE  /\ Inv' /\ UNCHANGED mem
         /\ \E f \in Enumerations({i \in DOMAIN keys[s] : keys[s][i].kid # kid}) :
              keys'[s] = [i \in DOMAIN f |-> keys[s][f[i]]]
         /\ \A u \in Sets \ {s} : keys'[u] = keys[u]
<1>1. s \in live /\ UNCHANGED <<mem, held, live, build>>
  BY DEF Remove
<1>2. PICK f \in Enumerations({i \in DOMAIN keys[s] : keys[s][i].kid # kid}) :
        LET out == [i \in DOMAIN f |-> keys[s][f[i]]] IN
        /\ keys' = [keys EXCEPT ![s] = out]
        /\ byKID' = [byKID EXCEPT ![s] = rebuildIndex(s, kid, out)]
  BY DEF Remove
<1>3. PICK out, ix : out = [i \in DOMAIN f |-> keys[s][f[i]]] /\ ix = rebuildIndex(s, kid, out)
  OBVIOUS
<1>4. keys' = [keys EXCEPT ![s] = out] /\ byKID' = [byKID EXCEPT ![s] = ix]
  BY <1>2, <1>3
<1>5. IndexOf(keys[s], byKID[s])
  BY DEF Inv
<1>6. IndexOf(out, ix) /\ RefsOf(out) \subseteq RefsOf(keys[s])
  BY <1>3, <1>5, RemoveIndexed
<1>7. RefsOf(out) \cap held = {}
  BY <1>6 DEF Inv, Unshared
<1>8. /\ live' \subseteq Sets /\ build'.busy \in BOOLEAN /\ build' = build
      /\ \A u \in Sets \ {s} : u \in live' <=> u \in live
      /\ (build.busy => build.target # s) /\ s \in live' /\ mem' \in [Refs -> Ops]
      /\ \A u \in Sets \ {s} : Shown(keys[u], mem') = Shown(keys[u], mem)
  BY <1>1, LiveIsBuilt DEF Inv
<1>9. Inv' /\ keys'[s] = out /\ \A u \in Sets \ {s} : keys'[u] = keys[u]
  BY <1>1, <1>4, <1>6, <1>7, <1>8, OneSetChanges
<1> QED BY <1>1, <1>3, <1>9

\* Lookup: it finds a key with that kid if there is one; the caller gets a copy.
LEMMA LookupInv ==
  ASSUME Inv, NEW s \in Sets, NEW kid \in AnyKid, Lookup(s, kid)
  PROVE  Inv' /\ \A u \in Sets : Shown(keys'[u], mem') = Shown(keys[u], mem)
<1>0. UNCHANGED <<keys, byKID, live, build>>
  BY DEF Lookup
<1>1. CASE UNCHANGED <<mem, held>>
  <2>1. mem' \in [Refs -> Ops] /\ held' \subseteq Refs /\ mem' = mem /\ held' = held
    BY <1>1 DEF Inv
  <2>2. \A u \in Sets : RefsOf(keys[u]) \cap held' = {} /\ Shown(keys[u], mem') = Shown(keys[u], mem)
    BY <2>1 DEF Inv, Unshared
  <2> QED BY <1>0, <2>1, <2>2, SetsAlone
<1>2. CASE /\ CanAllocate /\ Found(s, kid) # 0
           /\ LET r == keys[s][Found(s, kid)].ref IN
              /\ mem' = [mem EXCEPT ![Clone(r)] = mem[r]]
              /\ held' = held \cup {Clone(r)}
  <2>1. PICK r, c, o : r = keys[s][Found(s, kid)].ref /\ c = Clone(r) /\ o = mem[r]
    OBVIOUS
  <2>2. mem' = [mem EXCEPT ![c] = o] /\ held' = held \cup {c}
    BY <1>2, <2>1
  <2>3. c \in Refs /\ \A u \in Sets : c \notin RefsOf(keys[u])
    BY <1>2, <2>1, FreshArray
  <2>4. IndexOf(keys[s], byKID[s]) /\ mem \in [Refs -> Ops]
    BY DEF Inv
  <2>5. Found(s, kid) \in DOMAIN keys[s]
    BY <1>2, <2>4 DEF Found, IndexOf
  <2>6. keys[s][Found(s, kid)] \in Entry
    BY <2>4, <2>5 DEF IndexOf
  <2>7. o \in Ops
    BY <2>1, <2>4, <2>6 DEF Entry
  <2> QED BY <1>0, <2>2, <2>3, <2>7, CallerWrites
<1> QED BY <1>1, <1>2 DEF Lookup

\* Keys hands out copies: no set changes.
LEMMA KeysInv ==
  ASSUME Inv, NEW s \in Sets, Keys(s)
  PROVE  Inv' /\ \A u \in Sets : Shown(keys'[u], mem') = Shown(keys[u], mem)
<1>1. CanAllocate /\ UNCHANGED <<keys, byKID, live, build>>
  BY DEF Keys
<1>2. PICK i \in DOMAIN keys[s] :
        LET r == keys[s][i].ref IN
        /\ mem' = [mem EXCEPT ![Clone(r)] = mem[r]]
        /\ held' = held \cup {Clone(r)}
  BY DEF Keys
<1>3. PICK r, c, o : r = keys[s][i].ref /\ c = Clone(r) /\ o = mem[r]
  OBVIOUS
<1>4. mem' = [mem EXCEPT ![c] = o] /\ held' = held \cup {c}
  BY <1>2, <1>3
<1>5. c \in Refs /\ \A u \in Sets : c \notin RefsOf(keys[u])
  BY <1>1, <1>3, FreshArray
<1>6. keys[s] \in Seq(Entry) /\ mem \in [Refs -> Ops]
  BY DEF Inv, IndexOf
<1>7. keys[s][i] \in Entry
  BY <1>6
<1>8. o \in Ops
  BY <1>3, <1>6, <1>7 DEF Entry
<1> QED BY <1>1, <1>4, <1>5, <1>8, CallerWrites

\* Nothing has been built of no members.
LEMMA BuiltOfNothing == ASSUME NEW ms, NEW p, NEW m PROVE Built(ms, 0, p, Shown(<<>>, m))
<1> DEFINE f == [i \in 1..0 |-> i]
<1>1. First(ms, 0, p) = {} /\ Good(ms, 0, p) = {}
  BY DEF First, Good
<1>2. Cardinality({}) = 0
  BY FS_EmptySet
<1>3. DOMAIN f = {} /\ f \in [1..0 -> {}]
  OBVIOUS
<1> HIDE DEF f
<1>4. f \in Enumerations({})
  BY <1>2, <1>3 DEF Enumerations
<1>5. Shown(<<>>, m) = Selected(ms, 0, p, f)
  BY <1>3 DEF Shown, Selected
<1>6. Covers(ms, 0, p, f)
  BY <1>1 DEF Covers
<1> QED BY <1>1, <1>4, <1>5, <1>6 DEF Built

\* A construction starts.
LEMMA StartInv ==
  ASSUME Inv, NEW t \in Sets, NEW members \in Seq(Member), NEW permissive \in BOOLEAN,
         Start(t, members, permissive)
  PROVE  Inv' /\ UNCHANGED <<keys, mem, live>>
<1> DEFINE b == [busy |-> TRUE, target |-> t, members |-> members, next |-> 1,
                 permissive |-> permissive, diagnostics |-> {}]
<1>1. /\ ~build.busy /\ t \notin live /\ build' = b
      /\ UNCHANGED <<keys, byKID, mem, held, live>>
  BY DEF Start
<1>2. keys[t] = <<>>
  BY <1>1 DEF Inv, Blank
<1>3. /\ b.busy = TRUE /\ b.target = t /\ b.members = members /\ b.next = 1
      /\ b.permissive = permissive /\ b.diagnostics = {}
      /\ DOMAIN b = {"busy", "target", "members", "next", "permissive", "diagnostics"}
  OBVIOUS
<1> HIDE DEF b
<1>4. b.next - 1 = 0 /\ b.next \in 1..(Len(members) + 1)
  BY <1>3
<1>5. LeftOut(members, 0, permissive) = {}
  BY DEF LeftOut
<1>6. Built(members, 0, permissive, Shown(keys[t], mem))
  BY <1>2, BuiltOfNothing
<1>7. BuildOK(b, Shown(keys[b.target], mem), live)
  BY <1>1, <1>3, <1>4, <1>5, <1>6 DEF BuildOK
<1>8. Blank' /\ Unshared'
  BY <1>1 DEF Inv, Blank, Unshared
<1>9. BuildOK(build', Shown(keys'[build'.target], mem'), live') /\ build'.busy \in BOOLEAN
  BY <1>1, <1>3, <1>7
<1> QED BY <1>1, <1>8, <1>9 DEF Inv

\* The three constructors.
LEMMA ConstructInv ==
  ASSUME Inv, NEW t \in Sets, Construct(t)
  PROVE  Inv' /\ UNCHANGED <<keys, mem, live>> /\ reply' = "none"
<1>1. ASSUME NEW seeds \in Docs \cup {<<>>}, NewKeySet(t, seeds)
      PROVE  Inv' /\ UNCHANGED <<keys, mem, live>> /\ reply' = "none"
  <2>1. Start(t, seeds, FALSE)
    BY <1>1 DEF NewKeySet
  <2>2. reply' = "none"
    BY <2>1 DEF Start
  <2>3. <<>> \in Seq(Member)
    OBVIOUS
  <2>4. seeds \in Seq(Member)
    BY <1>1, <2>3, KeySetAssumption
  <2> QED BY <2>1, <2>2, <2>4, StartInv
<1>2. ASSUME NEW s \in Sets, CloneSet(s, t)
      PROVE  Inv' /\ UNCHANGED <<keys, mem, live>> /\ reply' = "none"
  <2>1. PICK ms : ms = [i \in DOMAIN keys[s] |->
                          [kid |-> keys[s][i].kid, ops |-> mem[keys[s][i].ref], form |-> "key"]]
    OBVIOUS
  <2>2. Start(t, ms, FALSE)
    BY <1>2, <2>1 DEF CloneSet
  <2>3. keys[s] \in Seq(Entry) /\ mem \in [Refs -> Ops]
    BY DEF Inv, IndexOf
  <2>4. /\ DOMAIN keys[s] = 1..Len(keys[s]) /\ Len(keys[s]) \in Nat
        /\ \A i \in DOMAIN keys[s] : keys[s][i] \in Entry
    BY <2>3
  <2>5. \A i \in DOMAIN keys[s] : keys[s][i].kid \in AnyKid /\ mem[keys[s][i].ref] \in Ops
    BY <2>3, <2>4 DEF Entry
  <2>6. ms \in [1..Len(keys[s]) -> Member]
    BY <2>1, <2>4, <2>5 DEF Member
  <2>7. ms \in Seq(Member)
    BY <2>4, <2>6
  <2>8. reply' = "none"
    BY <2>2 DEF Start
  <2> QED BY <2>2, <2>7, <2>8, StartInv
<1>3. ASSUME NEW doc \in Docs, NEW permissive \in BOOLEAN, parseKeySet(t, doc, permissive)
      PROVE  Inv' /\ UNCHANGED <<keys, mem, live>> /\ reply' = "none"
  <2>1. doc \in Seq(Member) /\ Start(t, doc, permissive)
    BY <1>3, KeySetAssumption DEF parseKeySet
  <2>2. reply' = "none"
    BY <2>1 DEF Start
  <2> QED BY <2>1, <2>2, StartInv
<1> QED BY <1>1, <1>2, <1>3 DEF Construct

\* What is known of the next member.
LEMMA CurrentMember ==
  ASSUME Inv, Building
  PROVE  /\ build.busy /\ build.target \in Sets \ live
         /\ DOMAIN build = {"busy", "target", "members", "next", "permissive", "diagnostics"}
         /\ build.next - 1 \in Nat /\ (build.next - 1) + 1 = build.next
         /\ build.next \in Nat /\ build.next + 1 \in 1..(Len(build.members) + 1)
         /\ Current = build.members[build.next] /\ Current \in Member
         /\ build.members \in Seq(Member) /\ build.permissive \in BOOLEAN
         /\ Built(build.members, build.next - 1, build.permissive, Shown(keys[build.target], mem))
         /\ build.diagnostics = LeftOut(build.members, build.next - 1, build.permissive)
<1>1. build.busy /\ build.next <= Len(build.members)
  BY DEF Building
<1>2. BuildOK(build, Shown(keys[build.target], mem), live)
  BY DEF Inv
<1>3. /\ DOMAIN build = {"busy", "target", "members", "next", "permissive", "diagnostics"}
      /\ build.target \in Sets \ live
      /\ build.members \in Seq(Member) /\ build.next \in 1..(Len(build.members) + 1)
      /\ build.permissive \in BOOLEAN
      /\ Built(build.members, build.next - 1, build.permissive, Shown(keys[build.target], mem))
      /\ build.diagnostics = LeftOut(build.members, build.next - 1, build.permissive)
  BY <1>1, <1>2 DEF BuildOK
<1>4. Len(build.members) \in Nat
  BY <1>3
<1>5. /\ build.next - 1 \in Nat /\ (build.next - 1) + 1 = build.next
      /\ build.next \in 1..Len(build.members) /\ build.next + 1 \in 1..(Len(build.members) + 1)
  BY <1>1, <1>3, <1>4
<1>6. build.members[build.next] \in Member
  BY <1>3, <1>5
<1> QED BY <1>1, <1>3, <1>4, <1>5, <1>6 DEF Current

\* Members are left out only where that is said.
LEMMA LeftOutGrows ==
  ASSUME NEW ms, NEW n \in Nat, NEW p \in BOOLEAN
  PROVE  /\ p /\ ms[n + 1].form # "key" => LeftOut(ms, n + 1, p) = LeftOut(ms, n, p) \cup {n + 1}
         /\ (p => ms[n + 1].form = "key") => LeftOut(ms, n + 1, p) = LeftOut(ms, n, p)
<1>1. \A i : i \in 1..(n + 1) <=> i \in 1..n \/ i = n + 1
  OBVIOUS
<1> QED BY <1>1 DEF LeftOut

\* A member is added to the set under construction.
LEMMA BuildAddInv ==
  ASSUME Inv, BuildAdd
  PROVE  /\ Inv' /\ UNCHANGED live
         /\ \A u \in live : keys'[u] = keys[u] /\ Shown(keys'[u], mem') = Shown(keys[u], mem)
<1>1. Building /\ Usable(Current, build.permissive) /\ CanAllocate
  BY DEF BuildAdd, HasRoom
<1>2. PICK t, ms, p, n, kid, o :
        /\ t = build.target /\ ms = build.members /\ p = build.permissive /\ n = build.next - 1
        /\ kid = Current.kid /\ o = Current.ops
  OBVIOUS
<1>3. /\ build.busy /\ t \in Sets \ live /\ n \in Nat /\ build.next = n + 1
      /\ n + 2 \in 1..(Len(ms) + 1) /\ ms \in Seq(Member) /\ p \in BOOLEAN
      /\ Current = ms[n + 1] /\ ms[n + 1] \in Member
      /\ Built(ms, n, p, Shown(keys[t], mem)) /\ build.diagnostics = LeftOut(ms, n, p)
      /\ DOMAIN build = {"busy", "target", "members", "next", "permissive", "diagnostics"}
  BY <1>1, <1>2, CurrentMember
<1>4. p => ms[n + 1].form = "key"
  BY <1>1, <1>2, <1>3 DEF Usable
<1>5. /\ kid = ms[n + 1].kid /\ o = ms[n + 1].ops /\ kid \in AnyKid /\ o \in Ops
  BY <1>2, <1>3 DEF Member
<1>6. PICK c \in Refs : /\ c = (CHOOSE r \in Refs : r \notin Used) /\ c \notin held
                        /\ \A u \in Sets : c \notin RefsOf(keys[u])
  BY <1>1, FreshArray
<1>7. PICK ks, ix, k : /\ k = Key(kid, c) /\ ks = AddKeys(keys[t], byKID[t], k)
                       /\ ix = AddIndex(keys[t], byKID[t], k)
  OBVIOUS
<1>8. /\ keys' = [keys EXCEPT ![t] = ks] /\ byKID' = [byKID EXCEPT ![t] = ix]
      /\ mem' = Write(mem, c, o) /\ UNCHANGED <<held, live>>
      /\ build' = [build EXCEPT !.next = @ + 1]
  BY <1>2, <1>6, <1>7 DEF BuildAdd, Key, Write
<1>9. IndexOf(keys[t], byKID[t]) /\ mem \in [Refs -> Ops] /\ k \in Entry
  BY <1>3, <1>5, <1>7 DEF Inv, Entry, Key
<1>10. IndexOf(ks, ix)
  BY <1>7, <1>9, AddIndexed
<1>11. /\ RefsOf(ks) \subseteq RefsOf(keys[t]) \cup {c}
       /\ Adds(keys[t], mem, kid, Item(kid, o), Shown(ks, Write(mem, c, o)))
  <2>1. c \notin RefsOf(keys[t])
    BY <1>3, <1>6
  <2>2. ks = AddKeys(keys[t], byKID[t], Key(kid, c))
    BY <1>7
  <2>3. kid \in AnyKid /\ IndexOf(keys[t], byKID[t]) /\ mem \in [Refs -> Ops]
    BY <1>5, <1>9
  <2> QED BY <2>1, <2>2, <2>3, AddShown
<1>12. RefsOf(ks) \cap held = {}
  BY <1>3, <1>6, <1>11 DEF Inv, Unshared
<1>13. \A u \in Sets \ {t} : Shown(keys[u], mem') = Shown(keys[u], mem)
  <2>1. \A u \in Sets : keys[u] \in Seq(Entry)
    BY DEF Inv, IndexOf
  <2> QED BY <1>6, <1>8, <1>9, <2>1, WriteElsewhere
<1>14. mem' \in [Refs -> Ops]
  BY <1>5, <1>8, <1>9 DEF Write
<1>15. Built(ms, n + 1, p, Shown(ks, mem'))
  <2>1. c \notin RefsOf(keys[t])
    BY <1>3, <1>6
  <2>2. Built(ms, n + 1, p, Shown(AddKeys(keys[t], byKID[t], Key(kid, c)), Write(mem, c, o)))
    BY <1>3, <1>4, <1>5, <1>6, <1>9, <2>1, BuiltAfterAdd
  <2> QED BY <1>7, <1>8, <2>2
<1>16. /\ build'.busy = build.busy /\ build'.target = t /\ build'.members = ms
       /\ build'.next = n + 2 /\ build'.permissive = p /\ build'.diagnostics = build.diagnostics
       /\ DOMAIN build' = {"busy", "target", "members", "next", "permissive", "diagnostics"}
  <2>1. /\ build'.busy = build.busy /\ build'.target = build.target
        /\ build'.members = build.members /\ build'.next = build.next + 1
        /\ build'.permissive = build.permissive /\ build'.diagnostics = build.diagnostics
        /\ DOMAIN build' = DOMAIN build
    BY <1>3, <1>8
  <2>2. (n + 1) + 1 = n + 2
    BY <1>3
  <2> QED BY <1>2, <1>3, <2>1, <2>2
<1>17. LeftOut(ms, n + 1, p) = LeftOut(ms, n, p)
  BY <1>3, <1>4, LeftOutGrows
<1>18. (n + 2) - 1 = n + 1
  BY <1>3
<1>19. BuildOK(build', Shown(ks, mem'), live')
  BY <1>3, <1>8, <1>15, <1>16, <1>17, <1>18 DEF BuildOK
<1>20. /\ live' \subseteq Sets /\ build'.busy \in BOOLEAN /\ build.target = t /\ t \notin live
       /\ \A u \in Sets \ {t} : u \in live' <=> u \in live
  BY <1>2, <1>3, <1>8, <1>16 DEF Inv
<1>21. Inv' /\ keys'[t] = ks /\ \A u \in Sets \ {t} : keys'[u] = keys[u]
  BY <1>3, <1>8, <1>10, <1>12, <1>13, <1>14, <1>16, <1>19, <1>20, OneSetChanges
<1>22. live \subseteq Sets \ {t}
  BY <1>3 DEF Inv
<1> QED BY <1>8, <1>13, <1>21, <1>22

\* A member is ignored and reported.
LEMMA BuildSkipInv == ASSUME Inv, BuildSkip PROVE Inv' /\ UNCHANGED <<keys, mem, live>>
<1>1. /\ Building /\ build.permissive /\ ~Usable(Current, build.permissive)
      /\ UNCHANGED <<keys, byKID, mem, held, live>>
      /\ build' = [build EXCEPT !.next = @ + 1, !.diagnostics = @ \cup {build.next}]
  BY DEF BuildSkip
<1>2. PICK t, ms, p, n :
        t = build.target /\ ms = build.members /\ p = build.permissive /\ n = build.next - 1
  OBVIOUS
<1>3. /\ build.busy /\ t \in Sets \ live /\ n \in Nat /\ build.next = n + 1
      /\ n + 2 \in 1..(Len(ms) + 1) /\ ms \in Seq(Member) /\ p \in BOOLEAN
      /\ Current = ms[n + 1] /\ ms[n + 1] \in Member
      /\ Built(ms, n, p, Shown(keys[t], mem)) /\ build.diagnostics = LeftOut(ms, n, p)
      /\ DOMAIN build = {"busy", "target", "members", "next", "permissive", "diagnostics"}
  <2>1. Building
    BY <1>1
  <2> QED BY <1>2, <2>1, CurrentMember
<1>4. p = TRUE /\ ms[n + 1].form # "key"
  <2>1. Current.form # "key"
    BY <1>1 DEF Usable
  <2>2. build.permissive = TRUE
    BY <1>1, <1>2, <1>3
  <2> QED BY <1>2, <1>3, <2>1, <2>2
<1>5. /\ build'.busy = build.busy /\ build'.target = t /\ build'.members = ms
      /\ build'.next = n + 2 /\ build'.permissive = p
      /\ build'.diagnostics = build.diagnostics \cup {n + 1}
      /\ DOMAIN build' = {"busy", "target", "members", "next", "permissive", "diagnostics"}
  <2>1. /\ build'.busy = build.busy /\ build'.target = build.target
        /\ build'.members = build.members /\ build'.next = build.next + 1
        /\ build'.permissive = build.permissive
        /\ build'.diagnostics = build.diagnostics \cup {build.next}
        /\ DOMAIN build' = DOMAIN build
    BY <1>1, <1>3
  <2>2. (n + 1) + 1 = n + 2
    BY <1>3
  <2> QED BY <1>2, <1>3, <2>1, <2>2
<1>6. LeftOut(ms, n + 1, p) = LeftOut(ms, n, p) \cup {n + 1}
  <2>1. p \in BOOLEAN /\ n \in Nat /\ p
    BY <1>3, <1>4
  <2>2. ms[n + 1].form # "key"
    BY <1>4
  <2> QED BY <2>1, <2>2, LeftOutGrows
<1>7. Built(ms, n + 1, p, Shown(keys[t], mem))
  <2>1. /\ First(ms, n + 1, p) = First(ms, n, p)
        /\ \A f : /\ Selected(ms, n + 1, p, f) = Selected(ms, n, p, f)
                  /\ Covers(ms, n + 1, p, f) <=> Covers(ms, n, p, f)
    BY <1>3, <1>4, NextSkipped
  <2> QED BY <1>3, <2>1 DEF Built
<1>8. (n + 2) - 1 = n + 1
  BY <1>3
<1>9. BuildOK(build', Shown(keys'[build'.target], mem'), live') /\ build'.busy \in BOOLEAN
  BY <1>1, <1>3, <1>5, <1>6, <1>7, <1>8 DEF BuildOK
<1>10. Blank' /\ Unshared'
  BY <1>1, <1>2, <1>5 DEF Inv, Blank, Unshared
<1> QED BY <1>1, <1>9, <1>10 DEF Inv

\* The index of an empty slice is empty.
LEMMA EmptyIndexed == IndexOf(<<>>, EmptyIndex) /\ RefsOf(<<>>) = {}
<1>1. <<>> \in Seq(Entry) /\ Len(<<>>) = 0 /\ EmptyIndex \in [Kids -> Nat]
  BY DEF EmptyIndex
<1>2. \A kid \in Kids : EmptyIndex[kid] = 0
  BY DEF EmptyIndex
<1>3. RefsOf(<<>>) = {}
  BY DEF RefsOf
<1> QED BY <1>1, <1>2, <1>3 DEF IndexOf

\* The whole construction is given up.
LEMMA BuildFailInv ==
  ASSUME Inv, BuildFail
  PROVE  Inv' /\ UNCHANGED <<mem, live>> /\ \A u \in live : keys'[u] = keys[u]
<1>1. PICK t : t = build.target
  OBVIOUS
<1>2. /\ keys' = [keys EXCEPT ![t] = <<>>] /\ byKID' = [byKID EXCEPT ![t] = EmptyIndex]
      /\ build' = Idle /\ UNCHANGED <<mem, held, live>> /\ Building
  BY <1>1 DEF BuildFail
<1>3. build.busy /\ t \in Sets \ live
  BY <1>1, <1>2, CurrentMember
<1>4. ~build'.busy /\ build'.busy \in BOOLEAN
  BY <1>2 DEF Idle
<1>5. BuildOK(build', Shown(<<>>, mem'), live')
  BY <1>4 DEF BuildOK
<1>6. /\ mem' \in [Refs -> Ops] /\ live' \subseteq Sets
      /\ \A u \in Sets \ {t} : Shown(keys[u], mem') = Shown(keys[u], mem)
      /\ \A u \in Sets \ {t} : u \in live' <=> u \in live
  BY <1>2 DEF Inv
<1>7. PICK ks, ix : ks = <<>> /\ ix = EmptyIndex
  OBVIOUS
<1>8. IndexOf(ks, ix) /\ RefsOf(ks) \cap held = {}
  BY <1>7, EmptyIndexed
<1>9. keys' = [keys EXCEPT ![t] = ks] /\ byKID' = [byKID EXCEPT ![t] = ix] /\ held' = held
  BY <1>2, <1>7
<1>10. Inv' /\ \A u \in Sets \ {t} : keys'[u] = keys[u]
  BY <1>1, <1>3, <1>4, <1>5, <1>6, <1>7, <1>8, <1>9, OneSetChanges
<1>11. live \subseteq Sets \ {t}
  BY <1>3 DEF Inv
<1> QED BY <1>2, <1>10, <1>11

\* The set is handed out.
LEMMA BuildDoneInv ==
  ASSUME Inv, BuildDone
  PROVE  /\ Inv' /\ UNCHANGED <<keys, mem>>
         /\ build.target \in Sets \ live /\ live' = live \cup {build.target}
<1>1. /\ build.busy /\ live' = live \cup {build.target} /\ build' = Idle
      /\ UNCHANGED <<keys, byKID, mem, held>>
  BY DEF BuildDone
<1>2. build.target \in Sets \ live
  BY <1>1 DEF Inv, BuildOK
<1>3. ~build'.busy /\ build'.busy \in BOOLEAN
  BY <1>1 DEF Idle
<1>4. BuildOK(build', Shown(keys'[build'.target], mem'), live')
  BY <1>3 DEF BuildOK
<1>5. Blank' /\ Unshared'
  BY <1>1, <1>2, <1>3 DEF Inv, Blank, Unshared
<1> QED BY <1>1, <1>2, <1>3, <1>4, <1>5 DEF Inv

\* What the application does with keys it holds shows in no set.
LEMMA MakeKeyInv ==
  ASSUME Inv, NEW o \in Ops, MakeKey(o)
  PROVE  Inv' /\ \A u \in Sets : Shown(keys'[u], mem') = Shown(keys[u], mem)
<1>1. PICK c : c = CHOOSE r \in Refs : r \notin Used
  OBVIOUS
<1>2. /\ CanAllocate /\ mem' = [mem EXCEPT ![c] = o] /\ held' = held \cup {c}
      /\ UNCHANGED <<keys, byKID, live, build>>
  BY <1>1 DEF MakeKey
<1>3. c \in Refs /\ \A u \in Sets : c \notin RefsOf(keys[u])
  BY <1>1, <1>2, FreshArray
<1> QED BY <1>2, <1>3, CallerWrites

\* A caller that writes to an array it holds changes no set.
LEMMA ScribbleInv ==
  ASSUME Inv, NEW r \in held, NEW o \in Ops, Scribble(r, o)
  PROVE  Inv' /\ \A u \in Sets : Shown(keys'[u], mem') = Shown(keys[u], mem)
<1>1. r \in Refs /\ \A u \in Sets : r \notin RefsOf(keys[u])
  BY DEF Inv, Unshared
<1> QED BY <1>1, CallerWrites DEF Scribble

\* Neither does one that drops its reference.
LEMMA ForgetInv ==
  ASSUME Inv, NEW r, Forget(r)
  PROVE  Inv' /\ UNCHANGED <<keys, mem>>
<1>1. UNCHANGED <<keys, byKID, mem, live, build>> /\ held' \subseteq held
  BY DEF Forget
<1>2. /\ held' \subseteq Refs /\ mem' \in [Refs -> Ops]
      /\ \A u \in Sets : /\ Shown(keys[u], mem') = Shown(keys[u], mem)
                         /\ RefsOf(keys[u]) \cap held' = {}
  BY <1>1 DEF Inv, Unshared
<1> QED BY <1>1, <1>2, SetsAlone

\* A set that is dropped takes nothing of another with it.
LEMMA DropSetInv ==
  ASSUME Inv, NEW s \in Sets, DropSet(s)
  PROVE  Inv' /\ UNCHANGED mem /\ \A u \in Sets \ {s} : keys'[u] = keys[u]
<1>1. PICK ks, ix : ks = <<>> /\ ix = EmptyIndex
  OBVIOUS
<1>2. /\ s \in live /\ live' = live \ {s} /\ UNCHANGED <<mem, held, build>>
      /\ keys' = [keys EXCEPT ![s] = ks] /\ byKID' = [byKID EXCEPT ![s] = ix]
  BY <1>1 DEF DropSet
<1>3. IndexOf(ks, ix) /\ RefsOf(ks) \cap held = {}
  BY <1>1, EmptyIndexed
<1>4. /\ mem' \in [Refs -> Ops] /\ live' \subseteq Sets /\ build'.busy \in BOOLEAN /\ build' = build
      /\ \A u \in Sets \ {s} : Shown(keys[u], mem') = Shown(keys[u], mem)
      /\ \A u \in Sets \ {s} : u \in live' <=> u \in live
      /\ (build.busy => build.target # s)
  BY <1>2, LiveIsBuilt DEF Inv
<1>5. Inv' /\ \A u \in Sets \ {s} : keys'[u] = keys[u]
  BY <1>1, <1>2, <1>3, <1>4, OneSetChanges
<1> QED BY <1>2, <1>5

\* Every step keeps the invariant.
LEMMA NextInv == ASSUME Inv, [Next]_vars PROVE Inv'
<1>1. ASSUME NEW s \in Sets, Operation(s) PROVE Inv'
  <2>1. ASSUME NEW kid \in AnyKid, Remove(s, kid) PROVE Inv'
    BY <2>1, RemoveInv
  <2>2. ASSUME NEW kid \in AnyKid, Lookup(s, kid) PROVE Inv'
    BY <2>2, LookupInv
  <2>3. ASSUME NEW kid \in AnyKid, NEW r \in held, Add(s, kid, r) PROVE Inv'
    BY <2>3, AddInv
  <2>4. CASE Keys(s)
    BY <2>4, KeysInv
  <2> QED BY <1>1, <2>1, <2>2, <2>3, <2>4 DEF Operation
<1>2. ASSUME NEW s \in Sets, Construct(s) PROVE Inv'
  BY <1>2, ConstructInv
<1>3. ASSUME NEW doc \in Docs, ParseRefused(doc) PROVE Inv'
  <2>1. UNCHANGED <<keys, byKID, mem, held, live, build>>
    BY <1>3 DEF ParseRefused
  <2> QED BY <2>1 DEF Inv, Unshared, Blank
<1>4. CASE BuildAdd
  BY <1>4, BuildAddInv
<1>5. CASE BuildSkip
  BY <1>5, BuildSkipInv
<1>6. CASE BuildFail
  BY <1>6, BuildFailInv
<1>7. CASE BuildDone
  BY <1>7, BuildDoneInv
<1>8. CASE Application
  BY <1>8, MakeKeyInv, ScribbleInv, ForgetInv, DropSetInv DEF Application
<1>9. CASE UNCHANGED vars
  <2>1. UNCHANGED <<keys, byKID, mem, held, live, build>>
    BY <1>9 DEF vars
  <2> QED BY <2>1 DEF Inv, Unshared, Blank
<1> QED BY <1>1, <1>2, <1>3, <1>4, <1>5, <1>6, <1>7, <1>8, <1>9 DEF Next

\* No set is alive and no array is held.
LEMMA InitInv == Init => Inv
<1> SUFFICES ASSUME Init PROVE Inv
  OBVIOUS
<1>1. /\ DOMAIN keys = Sets /\ DOMAIN byKID = Sets /\ held = {} /\ live = {} /\ ~build.busy
      /\ \A s \in Sets : keys[s] = <<>> /\ byKID[s] = EmptyIndex
      /\ build.busy \in BOOLEAN
  BY DEF Init, Idle
<1>2. mem \in [Refs -> Ops]
  <2>1. (CHOOSE o \in Ops : TRUE) \in Ops
    BY KeySetAssumption
  <2> QED BY <2>1 DEF Init
<1>3. \A s \in Sets : IndexOf(keys[s], byKID[s])
  BY <1>1, EmptyIndexed
<1>4. Unshared /\ Blank
  BY <1>1 DEF Unshared, Blank
<1>5. BuildOK(build, Shown(keys[build.target], mem), live)
  BY <1>1 DEF BuildOK
<1> QED BY <1>1, <1>2, <1>3, <1>4, <1>5 DEF Inv

\* The inductive invariant: slices, indexes and arrays have their types and agree, no set has
\* an array that a caller holds, and a set under construction shows what its source asks for.
THEOREM InvHolds == Spec => []Inv
BY InitInv, NextInv, PTL DEF Spec

\* IndexConsistent (Add, Remove, rebuildIndexLocked): the index names exactly the positions of
\* the keys with a kid, through every replacement, removal and construction.
THEOREM IndexHolds == Spec => []IndexConsistent
<1>1. Inv => IndexConsistent
  BY DEF Inv, IndexOf, IndexConsistent
<1> QED BY <1>1, InvHolds, PTL

\* BuiltFaithfully (NewKeySet, Clone, ParseKeySet): for a source of any length, a set under
\* construction holds the usable members so far, the last of each kid where the first of them
\* stood, whatever callers do meanwhile, and every member left out is reported.
THEOREM ConstructionIsFaithful == Spec => []BuiltFaithfully
<1>1. ASSUME Inv PROVE BuiltFaithfully
  <2> SUFFICES ASSUME build.busy
               PROVE  /\ Content(build.target) \in
                           Expected(build.members, build.next - 1, build.permissive)
                      /\ build.diagnostics =
                           {i \in 1..(build.next - 1) :
                              build.permissive /\ build.members[i].form # "key"}
    BY DEF BuiltFaithfully
  <2>1. /\ Built(build.members, build.next - 1, build.permissive, Shown(keys[build.target], mem))
        /\ build.diagnostics = LeftOut(build.members, build.next - 1, build.permissive)
    BY <1>1 DEF Inv, BuildOK
  <2>2. Content(build.target) = Shown(keys[build.target], mem)
    BY DEF Content, Shown
  <2>3. Content(build.target) \in Expected(build.members, build.next - 1, build.permissive)
    BY <2>1, <2>2, BuiltIsExpected
  <2> QED BY <2>1, <2>3 DEF LeftOut
<1> QED BY <1>1, InvHolds, PTL

-----------------------------------------------------------------------------
(* Refinement                                                              *)

\* What the contract sees of the sets.
Bar == [s \in Sets |-> IF s \in live THEN Content(s) ELSE <<>>]

\* The refinement mapping: a set that is alive is what its slice shows.
LEMMA BarIs ==
  /\ DOMAIN Bar = Sets /\ \A s \in Sets : Bar[s] = IF s \in live THEN Shown(keys[s], mem) ELSE <<>>
  /\ Bar = [s \in Sets |-> Bar[s]]
BY DEF Bar, Content, Shown

\* Nothing that has been handed out shows a difference.
LEMMA BarSame ==
  ASSUME live' = live, \A s \in Sets : s \in live => Shown(keys'[s], mem') = Shown(keys[s], mem)
  PROVE  Bar' = Bar
<1>1. \A s \in Sets : Content(s) = Shown(keys[s], mem) /\ Content(s)' = Shown(keys'[s], mem')
  BY DEF Content, Shown
<1>2. \A s \in Sets : (IF s \in live THEN Content(s) ELSE <<>>)' = IF s \in live THEN Content(s) ELSE <<>>
  BY <1>1
<1> QED BY <1>2 DEF Bar

\* One set that has been handed out shows a difference.
LEMMA BarChanges ==
  ASSUME NEW s \in Sets, NEW new, new = IF s \in live' THEN Shown(keys'[s], mem') ELSE <<>>,
         \A u \in Sets \ {s} : u \in live' <=> u \in live,
         \A u \in Sets \ {s} : u \in live => Shown(keys'[u], mem') = Shown(keys[u], mem)
  PROVE  Bar' = [Bar EXCEPT ![s] = new]
<1>1. DOMAIN Bar = Sets /\ \A u \in Sets : Bar[u] = IF u \in live THEN Shown(keys[u], mem) ELSE <<>>
  BY BarIs
<1>2. Bar' = [u \in Sets |-> IF u \in live' THEN Shown(keys'[u], mem') ELSE <<>>]
  BY DEF Bar, Content, Shown
<1> HIDE DEF Bar
<1>3. \A u \in Sets : (IF u \in live' THEN Shown(keys'[u], mem') ELSE <<>>) = IF u = s THEN new ELSE Bar[u]
  BY <1>1
<1> QED BY <1>1, <1>2, <1>3

\* The positions of a kid are those in the slice.
LEMMA BarPositions ==
  ASSUME Inv, NEW s \in live
  PROVE  /\ Bar[s] = Shown(keys[s], mem) /\ DOMAIN Bar[s] = DOMAIN keys[s]
         /\ keys[s] \in Seq(Entry) /\ Len(Bar[s]) = Len(keys[s])
         /\ \A i \in DOMAIN keys[s] :
              Bar[s][i].kid = keys[s][i].kid /\ Bar[s][i].ops = mem[keys[s][i].ref]
<1>1. s \in Sets /\ keys[s] \in Seq(Entry)
  BY DEF Inv, IndexOf
<1>2. Bar[s] = Shown(keys[s], mem)
  BY <1>1, BarIs
<1>3. /\ DOMAIN Shown(keys[s], mem) = DOMAIN keys[s]
      /\ \A i \in DOMAIN keys[s] : /\ Shown(keys[s], mem)[i].kid = keys[s][i].kid
                                   /\ Shown(keys[s], mem)[i].ops = mem[keys[s][i].ref]
  BY DEF Shown
<1>4. Len(Shown(keys[s], mem)) = Len(keys[s])
  <2>1. DOMAIN keys[s] = 1..Len(keys[s]) /\ Len(keys[s]) \in Nat
    BY <1>1
  <2> QED BY <1>3, <2>1
<1> QED BY <1>1, <1>2, <1>3, <1>4

\* Add does what the contract says.
LEMMA AddImplements ==
  ASSUME Inv, NEW s \in Sets, NEW kid \in AnyKid, NEW r \in held, Add(s, kid, r)
  PROVE  \E o \in Ops : Contract!Add(s, [kid |-> kid, ops |-> o])
<1>1. s \in live /\ live' = live /\ reply' = "ok"
  BY DEF Add
<1>2. PICK o \in Ops : o = mem[r]
  BY DEF Inv
<1>3. PICK new : new = Shown(keys'[s], mem')
  OBVIOUS
<1>4. /\ Adds(keys[s], mem, kid, Item(kid, o), new)
      /\ \A u \in Sets \ {s} : Shown(keys'[u], mem') = Shown(keys[u], mem)
  BY <1>2, <1>3, AddInv
<1>5. Bar' = [Bar EXCEPT ![s] = new]
  BY <1>1, <1>3, <1>4, BarChanges
<1>6. /\ Bar[s] = Shown(keys[s], mem) /\ DOMAIN Bar[s] = DOMAIN keys[s]
      /\ \A i \in DOMAIN keys[s] : Bar[s][i].kid = keys[s][i].kid
      /\ DOMAIN Bar = Sets
  BY <1>1, BarPositions, BarIs
<1>7. PICK e : e = Item(kid, o)
  OBVIOUS
<1>8. e.kid = kid /\ e = [kid |-> kid, ops |-> o]
  BY <1>7 DEF Item
<1>9. \/ /\ kid # NoKid
         /\ \E x \in DOMAIN Bar[s] : Bar[s][x].kid = kid /\ Bar' = [Bar EXCEPT ![s][x] = e]
      \/ /\ kid # NoKid => \A i \in DOMAIN Bar[s] : Bar[s][i].kid # kid
         /\ Bar' = [Bar EXCEPT ![s] = Append(Bar[s], e)]
  <2>1. \/ /\ kid # NoKid
           /\ \E x \in DOMAIN keys[s] : keys[s][x].kid = kid /\ new = [Bar[s] EXCEPT ![x] = e]
        \/ /\ kid # NoKid => \A i \in DOMAIN keys[s] : keys[s][i].kid # kid
           /\ new = Append(Bar[s], e)
    BY <1>4, <1>6, <1>7 DEF Adds
  <2> HIDE DEF Bar
  <2> QED BY <1>5, <1>6, <2>1
<1> HIDE DEF Bar
<1>10. Contract!Add(s, e)
  BY <1>1, <1>8, <1>9 DEF Contract!Add, Contract!Positions, Bar
<1> QED BY <1>8, <1>10

\* Both modules enumerate positions in the same way.
LEMMA SameEnumerations == ASSUME NEW P PROVE Contract!Enumerations(P) = Enumerations(P)
BY Zenon DEF Enumerations, Contract!Enumerations, Contract!Cardinality, Cardinality,
             Contract!IsFiniteSet, IsFiniteSet

\* Remove takes the key out of the list.
LEMMA RemoveImplements ==
  ASSUME Inv, NEW s \in Sets, NEW kid \in AnyKid, Remove(s, kid)
  PROVE  Contract!Remove(s, kid)
<1>1. s \in live /\ live' = live /\ reply' = "ok"
  BY DEF Remove
<1>2. mem' = mem /\ \A u \in Sets \ {s} : keys'[u] = keys[u]
  BY RemoveInv
<1>3. PICK f \in Enumerations({i \in DOMAIN keys[s] : keys[s][i].kid # kid}) :
        keys'[s] = [i \in DOMAIN f |-> keys[s][f[i]]]
  BY RemoveInv
<1>4. /\ DOMAIN Bar[s] = DOMAIN keys[s] /\ keys[s] \in Seq(Entry)
      /\ \A i \in DOMAIN keys[s] : Bar[s][i].kid = keys[s][i].kid
      /\ \A i \in DOMAIN keys[s] : Bar[s][i] = [kid |-> keys[s][i].kid, ops |-> mem[keys[s][i].ref]]
  BY <1>1, BarPositions DEF Shown
<1> DEFINE P == {i \in DOMAIN keys[s] : keys[s][i].kid # kid}
<1>5. \A i \in DOMAIN f : f[i] \in DOMAIN keys[s]
  <2>1. P \in SUBSET (1..Len(keys[s])) /\ Len(keys[s]) \in Nat
    BY <1>4
  <2>2. f \in [1..Cardinality(P) -> P]
    BY <2>1, EnumerationFacts
  <2> QED BY <2>2
<1>6. PICK new : new = Shown(keys'[s], mem')
  OBVIOUS
<1> HIDE DEF Bar
<1>7. new = [i \in DOMAIN f |-> Bar[s][f[i]]]
  <2>1. DOMAIN keys'[s] = DOMAIN f /\ \A i \in DOMAIN f : keys'[s][i] = keys[s][f[i]]
    BY <1>3
  <2>2. new = [i \in DOMAIN f |-> [kid |-> keys'[s][i].kid, ops |-> mem[keys'[s][i].ref]]]
    BY <1>2, <1>6, <2>1 DEF Shown
  <2>3. \A i \in DOMAIN f :
          [kid |-> keys'[s][i].kid, ops |-> mem[keys'[s][i].ref]] = Bar[s][f[i]]
    BY <1>4, <1>5, <2>1
  <2> QED BY <2>2, <2>3
<1>8. Bar' = [Bar EXCEPT ![s] = new]
  BY <1>1, <1>2, <1>6, BarChanges
<1>9. DOMAIN Bar[s] \ {i \in DOMAIN Bar[s] : Bar[s][i].kid = kid} = P
  BY <1>4
<1>10. f \in Contract!Enumerations(DOMAIN Bar[s] \ {i \in DOMAIN Bar[s] : Bar[s][i].kid = kid})
  BY <1>9, SameEnumerations
<1> QED BY <1>1, <1>7, <1>8, <1>10 DEF Contract!Remove, Contract!Positions, Bar

\* Lookup answers from the list.
LEMMA LookupImplements ==
  ASSUME Inv, NEW s \in Sets, NEW kid \in AnyKid, Lookup(s, kid)
  PROVE  Contract!Lookup(s, kid)
<1>1. /\ s \in live /\ live' = live
      /\ \/ Found(s, kid) = 0 /\ reply' = "not found"
         \/ Found(s, kid) # 0 /\ reply' = mem[keys[s][Found(s, kid)].ref]
  BY DEF Lookup, NotFound
<1>2. Bar' = Bar
  <2>1. \A u \in Sets : Shown(keys'[u], mem') = Shown(keys[u], mem)
    BY LookupInv
  <2> QED BY <1>1, <2>1, BarSame
<1>3. /\ DOMAIN Bar[s] = DOMAIN keys[s] /\ keys[s] \in Seq(Entry) /\ Len(Bar[s]) = Len(keys[s])
      /\ \A i \in DOMAIN keys[s] :
           Bar[s][i].kid = keys[s][i].kid /\ Bar[s][i].ops = mem[keys[s][i].ref]
  BY <1>1, BarPositions
<1> HIDE DEF Bar
<1> DEFINE Q == IF kid = NoKid THEN IF Len(Bar[s]) = 1 THEN {1} ELSE {}
                ELSE {i \in DOMAIN Bar[s] : Bar[s][i].kid = kid}
<1>4. DOMAIN keys[s] = 1..Len(keys[s]) /\ Len(keys[s]) \in Nat
  BY <1>3
<1>5. IF Found(s, kid) = 0 THEN Q = {} ELSE Found(s, kid) \in Q /\ Found(s, kid) \in DOMAIN keys[s]
  <2>1. CASE kid = NoKid
    BY <1>3, <1>4, <2>1 DEF Found
  <2>2. CASE kid # NoKid
    <3>1. kid \in Kids
      BY <2>2 DEF AnyKid
    <3>2. /\ byKID[s][kid] \in 0..Len(keys[s])
          /\ \A i \in 1..Len(keys[s]) : byKID[s][kid] = i <=> keys[s][i].kid = kid
      BY <3>1 DEF Inv, IndexOf
    <3>3. Q = {i \in DOMAIN keys[s] : keys[s][i].kid = kid}
      BY <1>3, <2>2
    <3>4. Found(s, kid) = IF byKID[s][kid] \in DOMAIN keys[s] THEN byKID[s][kid] ELSE 0
      BY <2>2 DEF Found
    <3> HIDE DEF Q
    <3> QED BY <1>4, <3>2, <3>3, <3>4
  <2> QED BY <2>1, <2>2
<1>6. (\E i \in Q : reply' = Bar[s][i].ops) \/ (Q = {} /\ reply' = "not found")
  <2> HIDE DEF Q
  <2>1. CASE Found(s, kid) = 0
    BY <1>1, <1>5, <2>1
  <2>2. CASE Found(s, kid) # 0
    <3>1. PICK i : i = Found(s, kid)
      OBVIOUS
    <3>2. i \in Q /\ i \in DOMAIN keys[s] /\ reply' = mem[keys[s][i].ref]
      BY <1>1, <1>5, <2>2, <3>1
    <3> QED BY <1>3, <3>2
  <2> QED BY <2>1, <2>2
<1> QED BY <1>1, <1>2, <1>6 DEF Contract!Lookup, Contract!Positions, Contract!NotFound, Bar

\* A set is handed out with at most one key per kid.
LEMMA BuildDoneImplements ==
  ASSUME Inv, BuildDone
  PROVE  \E s \in Sets : Contract!Create(s)
<1>1. PICK s \in Sets : s = build.target /\ s \notin live /\ live' = live \cup {s}
  BY BuildDoneInv
<1>2. keys' = keys /\ mem' = mem /\ reply' = "ok"
  BY DEF BuildDone
<1>3. PICK new : new = Shown(keys'[s], mem')
  OBVIOUS
<1>4. Bar' = [Bar EXCEPT ![s] = new]
  <2>1. \A u \in Sets \ {s} : u \in live' <=> u \in live
    BY <1>1
  <2>2. new = IF s \in live' THEN Shown(keys'[s], mem') ELSE <<>>
    BY <1>1, <1>3
  <2>3. \A u \in Sets \ {s} : u \in live => Shown(keys'[u], mem') = Shown(keys[u], mem)
    BY <1>2
  <2> QED BY <2>1, <2>2, <2>3, BarChanges
<1>5. DOMAIN Bar = Sets
  BY BarIs
<1> HIDE DEF Bar
<1>6. DOMAIN Bar' = Sets /\ Bar'[s] = new /\ \A u \in Sets \ {s} : Bar'[u] = Bar[u]
  BY <1>4, <1>5
<1>7. IndexOf(keys[s], byKID[s])
  BY DEF Inv
<1>8. \A i, j \in DOMAIN new : new[i].kid = new[j].kid /\ new[i].kid # NoKid => i = j
  <2>1. /\ DOMAIN new = DOMAIN keys[s] /\ \A i \in DOMAIN keys[s] : new[i].kid = keys[s][i].kid
    BY <1>2, <1>3 DEF Shown
  <2>2. keys[s] \in Seq(Entry) /\ DOMAIN keys[s] = 1..Len(keys[s])
    BY <1>7 DEF IndexOf
  <2>3. \A i \in DOMAIN keys[s] : keys[s][i].kid # NoKid => keys[s][i].kid \in Kids
    <3>1. \A i \in DOMAIN keys[s] : keys[s][i] \in Entry
      BY <2>2
    <3> QED BY <3>1 DEF Entry, AnyKid
  <2>4. \A i \in DOMAIN keys[s] : keys[s][i].kid # NoKid => byKID[s][keys[s][i].kid] = i
    BY <1>7, <2>2, <2>3 DEF IndexOf
  <2> QED BY <2>1, <2>4
<1>9. Contract!Create(s)
  BY <1>1, <1>2, <1>6, <1>8 DEF Contract!Create, Contract!UniqueKids, Bar
<1> QED BY <1>9

\* A set that is dropped is gone from the contract too.
LEMMA DropImplements == ASSUME Inv, NEW s \in Sets, DropSet(s) PROVE Contract!Drop(s)
<1>1. s \in live /\ live' = live \ {s} /\ reply' = "none"
  BY DEF DropSet
<1>2. mem' = mem /\ \A u \in Sets \ {s} : keys'[u] = keys[u]
  BY DropSetInv
<1>3. PICK new : new = <<>>
  OBVIOUS
<1>4. Bar' = [Bar EXCEPT ![s] = new]
  BY <1>1, <1>2, <1>3, BarChanges
<1> HIDE DEF Bar
<1> QED BY <1>1, <1>3, <1>4 DEF Contract!Drop, Bar

\* Everything else shows in no set that was handed out.
LEMMA ElsewhereImplements ==
  ASSUME live' = live, \A s \in Sets : s \in live => Shown(keys'[s], mem') = Shown(keys[s], mem),
         reply' \in {"none", "ErrMalformedKey"}
  PROVE  Contract!Elsewhere
<1>1. Bar' = Bar
  BY BarSame
<1> QED BY <1>1 DEF Contract!Elsewhere, Bar

\* KeepsContract (keyset.go as a whole): every set that was handed out behaves as the plain
\* list of KeySetContract.  The index never shows, and no caller can change a set through a key
\* that it passed in or was given.
THEOREM KeySetImplementsContract == Spec => KeepsContract
<1>1. Init => Contract!Init
  <2>1. Init => Bar = [s \in Sets |-> <<>>]
    BY DEF Init, Bar
  <2> QED BY <2>1 DEF Init, Contract!Init, Bar
<1>2. ASSUME Inv, [Next]_vars PROVE [Contract!Next]_(Contract!vars)
  <2>1. ASSUME NEW s \in Sets, Operation(s) PROVE Contract!Next
    <3>1. ASSUME NEW kid \in AnyKid, Remove(s, kid) PROVE Contract!Next
      BY <1>2, <3>1, RemoveImplements DEF Contract!Next, AnyKid
    <3>2. ASSUME NEW kid \in AnyKid, Lookup(s, kid) PROVE Contract!Next
      BY <1>2, <3>2, LookupImplements DEF Contract!Next, AnyKid
    <3>3. ASSUME NEW kid \in AnyKid, NEW r \in held, Add(s, kid, r) PROVE Contract!Next
      BY <1>2, <3>3, AddImplements DEF Contract!Next, AnyKid
    <3>4. CASE Keys(s)
      <4>1. live' = live /\ reply' = "none"
        BY <3>4 DEF Keys
      <4>2. Contract!Elsewhere
        BY <1>2, <3>4, <4>1, KeysInv, ElsewhereImplements
      <4> QED BY <4>2 DEF Contract!Next
    <3> QED BY <2>1, <3>1, <3>2, <3>3, <3>4 DEF Operation
  <2>2. ASSUME NEW s \in Sets, Construct(s) PROVE Contract!Next
    <3>1. live' = live /\ reply' = "none" /\ keys' = keys /\ mem' = mem
      BY <1>2, <2>2, ConstructInv
    <3>2. Contract!Elsewhere
      BY <3>1, ElsewhereImplements
    <3> QED BY <3>2 DEF Contract!Next
  <2>3. ASSUME NEW doc \in Docs, ParseRefused(doc) PROVE Contract!Next
    <3>1. live' = live /\ reply' = "ErrMalformedKey" /\ keys' = keys /\ mem' = mem
      BY <2>3 DEF ParseRefused
    <3>2. Contract!Elsewhere
      BY <3>1, ElsewhereImplements
    <3> QED BY <3>2 DEF Contract!Next
  <2>4. CASE BuildAdd
    <3>1. reply' = "none"
      BY <2>4 DEF BuildAdd
    <3>2. Contract!Elsewhere
      BY <1>2, <2>4, <3>1, BuildAddInv, ElsewhereImplements
    <3> QED BY <3>2 DEF Contract!Next
  <2>5. CASE BuildSkip
    <3>1. reply' = "none"
      BY <2>5 DEF BuildSkip
    <3>2. live' = live /\ keys' = keys /\ mem' = mem
      BY <1>2, <2>5, BuildSkipInv
    <3>3. Contract!Elsewhere
      BY <3>1, <3>2, ElsewhereImplements
    <3> QED BY <3>3 DEF Contract!Next
  <2>6. CASE BuildFail
    <3>1. reply' = "ErrMalformedKey"
      BY <2>6 DEF BuildFail
    <3>2. live' = live /\ mem' = mem /\ \A u \in live : keys'[u] = keys[u]
      BY <1>2, <2>6, BuildFailInv
    <3>3. Contract!Elsewhere
      BY <3>1, <3>2, ElsewhereImplements
    <3> QED BY <3>3 DEF Contract!Next
  <2>7. CASE BuildDone
    BY <1>2, <2>7, BuildDoneImplements DEF Contract!Next
  <2>8. CASE Application
    <3>1. ASSUME NEW o \in Ops, MakeKey(o) PROVE Contract!Next
      <4>1. live' = live /\ reply' = "none"
        BY <3>1 DEF MakeKey
      <4>2. Contract!Elsewhere
        BY <1>2, <3>1, <4>1, MakeKeyInv, ElsewhereImplements
      <4> QED BY <4>2 DEF Contract!Next
    <3>2. ASSUME NEW r \in held, Forget(r) PROVE Contract!Next
      <4>1. live' = live /\ reply' = "none" /\ keys' = keys /\ mem' = mem
        BY <3>2 DEF Forget
      <4>2. Contract!Elsewhere
        BY <4>1, ElsewhereImplements
      <4> QED BY <4>2 DEF Contract!Next
    <3>3. ASSUME NEW r \in held, NEW o \in Ops, Scribble(r, o) PROVE Contract!Next
      <4>1. live' = live /\ reply' = "none"
        BY <3>3 DEF Scribble
      <4>2. Contract!Elsewhere
        BY <1>2, <3>3, <4>1, ScribbleInv, ElsewhereImplements
      <4> QED BY <4>2 DEF Contract!Next
    <3>4. ASSUME NEW s \in Sets, DropSet(s) PROVE Contract!Next
      BY <1>2, <3>4, DropImplements DEF Contract!Next
    <3> QED BY <2>8, <3>1, <3>2, <3>3, <3>4 DEF Application
  <2>9. CASE UNCHANGED vars
    <3>1. live' = live /\ keys' = keys /\ mem' = mem /\ reply' = reply
      BY <2>9 DEF vars
    <3>2. Bar' = Bar
      BY <3>1, BarSame
    <3>3. UNCHANGED Contract!vars
      BY <3>1, <3>2 DEF Contract!vars, Bar
    <3> QED BY <3>3
  <2> QED BY <1>2, <2>1, <2>2, <2>3, <2>4, <2>5, <2>6, <2>7, <2>8, <2>9 DEF Next
<1> QED BY <1>1, <1>2, InvHolds, PTL DEF Spec, KeepsContract, Contract!Spec
==============================================================================
