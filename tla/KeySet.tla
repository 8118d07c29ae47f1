------------------------------- MODULE KeySet -------------------------------
(***************************************************************************)
(* KeySet of keyset.go: a slice of keys and an index from kid to position, *)
(* with deep copies at every boundary, and the construction of a set by    *)
(* NewKeySet, Clone and ParseKeySet.  Each operation runs under s.mu and   *)
(* is one action; a set under construction is filled by one Add per step.  *)
(*                                                                         *)
(* A key in a set is its kid and a reference to its key_ops array; mem is  *)
(* what the arrays hold.  Callers can write to the arrays they hold.  The  *)
(* other material of a Key is unexported and only ever copied, so key_ops  *)
(* stands for all of it.  Positions count from 1, and 0 stands for a kid   *)
(* that is not in the index.                                               *)
(***************************************************************************)
EXTENDS Integers, Sequences, FiniteSets

CONSTANTS Sets,     \* KeySet objects
          Kids,     \* non-empty key identifiers
          NoKid,    \* the empty kid
          Ops,      \* key_ops values
          Docs,     \* the JWKS documents offered to ParseKeySet, and
                    \* those of keys only as seeds for NewKeySet
          MaxKeySetKeys,
          Refs,     \* bound: key_ops arrays in existence
          MaxLen    \* bound: keys in one set

AnyKid == Kids \cup {NoKid}

\* A member of a document: malformed, well-formed of a type that is not
\* understood, or a key.
Member == [kid : AnyKid, ops : Ops, form : {"key", "unknown", "malformed"}]

ASSUME KeySetAssumption ==
  /\ NoKid \notin Kids
  /\ \A doc \in Docs : doc \in Seq(Member)
  /\ MaxKeySetKeys \in Nat
  /\ MaxLen \in Nat
  /\ Ops # {}
  /\ Ops \cap {"none", "ok", "not found", "ErrMalformedKey"} = {}

VARIABLES keys,   \* s.keys
          byKID,  \* s.byKID
          mem,    \* contents of the key_ops arrays
          held,   \* arrays that callers refer to
          live,   \* the sets that have been handed out
          build,  \* the set under construction
          reply   \* what the last call returned

vars == <<keys, byKID, mem, held, live, build, reply>>

NotFound == "not found"
EmptyIndex == [kid \in Kids |-> 0]
Idle == [busy |-> FALSE]

Init ==
  /\ keys = [s \in Sets |-> <<>>]
  /\ byKID = [s \in Sets |-> EmptyIndex]
  /\ mem = [r \in Refs |-> CHOOSE o \in Ops : TRUE]
  /\ held = {}
  /\ live = {}
  /\ build = Idle
  /\ reply = "none"

Used == held \cup UNION {{keys[s][i].ref : i \in DOMAIN keys[s]} : s \in Sets}

\* Mutant: the copy shares the array.
Clone_Shallow(r) == r

\* Key.Clone: a copy in an array of its own.
Clone(r) == CHOOSE c \in Refs : c \notin Used
CanAllocate == Refs \ Used # {}

\* The effect of Add on the slice and on the index.
AddKeys(ks, ix, k) ==
  IF k.kid # NoKid /\ ix[k.kid] # 0 THEN [ks EXCEPT ![ix[k.kid]] = k]
  ELSE Append(ks, k)
AddIndex(ks, ix, k) ==
  IF k.kid # NoKid /\ ix[k.kid] = 0 THEN [ix EXCEPT ![k.kid] = Len(ks) + 1]
  ELSE ix

HasRoom(s) == Len(keys[s]) < MaxLen /\ CanAllocate

\* A caller adds a key whose key_ops array it keeps.
Add(s, kid, r) ==
  /\ s \in live
  /\ HasRoom(s)
  /\ LET k == [kid |-> kid, ref |-> Clone(r)] IN
     /\ keys' = [keys EXCEPT ![s] = AddKeys(keys[s], byKID[s], k)]
     /\ byKID' = [byKID EXCEPT ![s] = AddIndex(keys[s], byKID[s], k)]
     /\ mem' = [mem EXCEPT ![k.ref] = mem[r]]
  /\ reply' = "ok"
  /\ UNCHANGED <<held, live, build>>

\* Mutant: the index is not rebuilt, only the kid is dropped from it.
rebuildIndex_Stale(s, kid, ks) ==
  IF kid = NoKid THEN byKID[s] ELSE [byKID[s] EXCEPT ![kid] = 0]

\* rebuildIndexLocked: the last position of a kid wins.
rebuildIndex(s, kid, ks) ==
  [k \in Kids |-> LET P == {i \in DOMAIN ks : ks[i].kid = k} IN
                  IF P = {} THEN 0 ELSE CHOOSE i \in P : \A j \in P : j <= i]

\* The order-preserving enumeration of a finite set of positions.
Enumerations(P) ==
  {f \in [1..Cardinality(P) -> P] : \A i, j \in DOMAIN f : i < j => f[i] < f[j]}

Remove(s, kid) ==
  /\ s \in live
  /\ \E f \in Enumerations({i \in DOMAIN keys[s] : keys[s][i].kid # kid}) :
       LET out == [i \in DOMAIN f |-> keys[s][f[i]]] IN
       /\ keys' = [keys EXCEPT ![s] = out]
       /\ byKID' = [byKID EXCEPT ![s] = rebuildIndex(s, kid, out)]
  /\ reply' = "ok"
  /\ UNCHANGED <<mem, held, live, build>>

\* The position lookup reads, 0 for none.
Found(s, kid) ==
  CASE kid = NoKid -> IF Len(keys[s]) = 1 THEN 1 ELSE 0
    [] OTHER -> IF byKID[s][kid] \in DOMAIN keys[s] THEN byKID[s][kid] ELSE 0

\* The caller gets a copy, and keeps it.
Lookup(s, kid) ==
  /\ s \in live
  /\ \/ /\ Found(s, kid) = 0
        /\ reply' = NotFound
        /\ UNCHANGED <<mem, held>>
     \/ /\ Found(s, kid) # 0
        /\ CanAllocate
        /\ LET r == keys[s][Found(s, kid)].ref IN
           /\ mem' = [mem EXCEPT ![Clone(r)] = mem[r]]
           /\ held' = held \cup {Clone(r)}
           /\ reply' = mem[r]
  /\ UNCHANGED <<keys, byKID, live, build>>

\* A snapshot of the whole set, of which the caller keeps one key.
Keys(s) ==
  /\ s \in live
  /\ CanAllocate
  /\ \E i \in DOMAIN keys[s] :
       LET r == keys[s][i].ref IN
       /\ mem' = [mem EXCEPT ![Clone(r)] = mem[r]]
       /\ held' = held \cup {Clone(r)}
  /\ reply' = "none"
  /\ UNCHANGED <<keys, byKID, live, build>>

-----------------------------------------------------------------------------
(* Construction                                                            *)

Start(t, members, permissive) ==
  /\ ~build.busy
  /\ t \notin live
  /\ build' = [busy |-> TRUE, target |-> t, members |-> members, next |-> 1,
               permissive |-> permissive, diagnostics |-> {}]
  /\ reply' = "none"
  /\ UNCHANGED <<keys, byKID, mem, held, live>>

\* NewKeySet(keys...): one Add per seed key, before anyone else has the set.
NewKeySet(t, seeds) ==
  /\ Len(seeds) <= MaxLen
  /\ \A i \in DOMAIN seeds : seeds[i].form = "key"
  /\ Start(t, seeds, FALSE)

\* KeySet.Clone: NewKeySet over the snapshot that Keys takes.
CloneSet(s, t) ==
  /\ s \in live
  /\ Start(t, [i \in DOMAIN keys[s] |->
                 [kid |-> keys[s][i].kid, ops |-> mem[keys[s][i].ref], form |-> "key"]],
           FALSE)

parseKeySet(t, doc, permissive) ==
  /\ Len(doc) <= MaxKeySetKeys
  /\ Start(t, doc, permissive)

\* The document is too long: nothing is parsed.
ParseRefused(doc) ==
  /\ ~build.busy
  /\ Len(doc) > MaxKeySetKeys
  /\ reply' = "ErrMalformedKey"
  /\ UNCHANGED <<keys, byKID, mem, held, live, build>>

Current == build.members[build.next]
Building == build.busy /\ build.next <= Len(build.members)

\* Mutant: a permissive parse keeps what it does not understand.
Usable_KeepsUnknown(m, permissive) == m.form # "malformed"

\* A well-formed member that the mode does not ignore.
Usable(m, permissive) ==
  m.form # "malformed" /\ (permissive => m.form = "key")

BuildAdd ==
  /\ Building
  /\ Usable(Current, build.permissive)
  /\ HasRoom(build.target)
  /\ LET t == build.target
         k == [kid |-> Current.kid, ref |-> CHOOSE c \in Refs : c \notin Used]
     IN
     /\ keys' = [keys EXCEPT ![t] = AddKeys(keys[t], byKID[t], k)]
     /\ byKID' = [byKID EXCEPT ![t] = AddIndex(keys[t], byKID[t], k)]
     /\ mem' = [mem EXCEPT ![k.ref] = Current.ops]
  /\ build' = [build EXCEPT !.next = @ + 1]
  /\ reply' = "none"
  /\ UNCHANGED <<held, live>>

\* Permissive mode: the member is ignored and reported.
BuildSkip ==
  /\ Building
  /\ build.permissive
  /\ ~Usable(Current, build.permissive)
  /\ build' = [build EXCEPT !.next = @ + 1, !.diagnostics = @ \cup {build.next}]
  /\ reply' = "none"
  /\ UNCHANGED <<keys, byKID, mem, held, live>>

\* Strict mode: the whole set is rejected.
BuildFail ==
  /\ Building
  /\ ~build.permissive
  /\ ~Usable(Current, build.permissive)
  /\ keys' = [keys EXCEPT ![build.target] = <<>>]
  /\ byKID' = [byKID EXCEPT ![build.target] = EmptyIndex]
  /\ build' = Idle
  /\ reply' = "ErrMalformedKey"
  /\ UNCHANGED <<mem, held, live>>

BuildDone ==
  /\ build.busy
  /\ build.next > Len(build.members)
  /\ live' = live \cup {build.target}
  /\ build' = Idle
  /\ reply' = "ok"
  /\ UNCHANGED <<keys, byKID, mem, held>>

-----------------------------------------------------------------------------
(* The application                                                         *)

\* It makes a key (FromRSAPublicKey and the like, then sets KeyOps).
MakeKey(o) ==
  /\ CanAllocate
  /\ LET c == CHOOSE c \in Refs : c \notin Used IN
     /\ mem' = [mem EXCEPT ![c] = o]
     /\ held' = held \cup {c}
  /\ reply' = "none"
  /\ UNCHANGED <<keys, byKID, live, build>>

\* It writes to the KeyOps of a key it holds.
Scribble(r, o) ==
  /\ mem' = [mem EXCEPT ![r] = o]
  /\ reply' = "none"
  /\ UNCHANGED <<keys, byKID, held, live, build>>

Forget(r) ==
  /\ held' = held \ {r}
  /\ reply' = "none"
  /\ UNCHANGED <<keys, byKID, mem, live, build>>

DropSet(s) ==
  /\ s \in live
  /\ live' = live \ {s}
  /\ keys' = [keys EXCEPT ![s] = <<>>]
  /\ byKID' = [byKID EXCEPT ![s] = EmptyIndex]
  /\ reply' = "none"
  /\ UNCHANGED <<mem, held, build>>

Operation(s) ==
  \/ \E kid \in AnyKid :
       \/ Remove(s, kid)
       \/ Lookup(s, kid)
       \/ \E r \in held : Add(s, kid, r)
  \/ Keys(s)

Construct(t) ==
  \/ \E seeds \in Docs \cup {<<>>} : NewKeySet(t, seeds)
  \/ \E s \in Sets : CloneSet(s, t)
  \/ \E doc \in Docs, permissive \in BOOLEAN : parseKeySet(t, doc, permissive)

Application ==
  \/ \E o \in Ops : MakeKey(o)
  \/ \E r \in held : Forget(r) \/ \E o \in Ops : Scribble(r, o)
  \/ \E s \in Sets : DropSet(s)

Next ==
  \/ \E s \in Sets : Operation(s) \/ Construct(s)
  \/ \E doc \in Docs : ParseRefused(doc)
  \/ BuildAdd \/ BuildSkip \/ BuildFail \/ BuildDone
  \/ Application

Spec == Init /\ [][Next]_vars

-----------------------------------------------------------------------------
(* Properties                                                              *)

\* The index names a position exactly when the key there has that kid, in every
\* set and through every replacement, removal and construction.
IndexConsistent ==
  \A s \in Sets, kid \in Kids :
    /\ byKID[s][kid] \in 0..Len(keys[s])
    /\ \A i \in 1..Len(keys[s]) : byKID[s][kid] = i <=> keys[s][i].kid = kid

Content(s) == [i \in DOMAIN keys[s] |->
                 [kid |-> keys[s][i].kid, ops |-> mem[keys[s][i].ref]]]

\* What NewKeySet, Clone and ParseKeySet should make of the first n members: the
\* usable ones in their order; members with the same kid give one key, the last
\* of them, where the first of them stands.
Expected(members, n, permissive) ==
  LET good == {i \in 1..n : permissive => members[i].form = "key"}
      same(i) == IF members[i].kid = NoKid THEN {i}
                 ELSE {j \in good : members[j].kid = members[i].kid}
      first == {i \in good : \A j \in same(i) : i <= j}
      last(i) == CHOOSE j \in same(i) : \A l \in same(i) : l <= j
  IN {[i \in DOMAIN f |-> [kid |-> members[f[i]].kid, ops |-> members[last(f[i])].ops]]
        : f \in Enumerations(first)}

\* A set under construction holds what its source asks for so far, whatever
\* callers do meanwhile to the set being cloned or to their own keys, and every
\* member that was left out is reported.
BuiltFaithfully ==
  build.busy =>
    LET n == build.next - 1 IN
    /\ Content(build.target) \in Expected(build.members, n, build.permissive)
    /\ build.diagnostics = {i \in 1..n : build.permissive /\ build.members[i].form # "key"}

\* "A malformed or unsupported member rejects the complete set": a strict parse
\* hands out no set made from a member that the library does not understand.
StrictRejectsUnsupported ==
  [][\A s \in live' \ live : build.busy /\ ~build.permissive =>
       \A i \in DOMAIN build.members : build.members[i].form = "key"]_vars

\* Every set that was handed out behaves as the plain list of KeySetContract:
\* the index never shows, and no caller can change a set through a key it holds.
Contract == INSTANCE KeySetContract WITH
  content <- [s \in Sets |-> IF s \in live THEN Content(s) ELSE <<>>]
KeepsContract == Contract!Spec
=============================================================================
