--------------------------- MODULE KeySetContract ---------------------------
(***************************************************************************)
(* What KeySet (keyset.go) promises: each set is an insertion-ordered list *)
(* of keys with at most one key per kid.  It changes by Add and Remove     *)
(* only, and Lookup tells what it holds now.  There is no index here, and  *)
(* nothing is shared with callers.                                         *)
(*                                                                         *)
(* A key is its kid and its key_ops, the one part of a Key that a caller   *)
(* can write to in place (Key.KeyOps is an exported slice).                *)
(***************************************************************************)
EXTENDS Integers, Sequences, FiniteSets

CONSTANTS Sets,   \* KeySet objects
          Kids,   \* non-empty key identifiers
          NoKid,  \* the empty kid
          Ops     \* key_ops values

VARIABLES content,  \* the keys of every set
          live,     \* the sets that have been handed out
          reply     \* what the last call returned

vars == <<content, live, reply>>

NotFound == "not found"

Init ==
  /\ content = [s \in Sets |-> <<>>]
  /\ live = {}
  /\ reply = "none"

UniqueKids(ks) ==
  \A i, j \in DOMAIN ks : ks[i].kid = ks[j].kid /\ ks[i].kid # NoKid => i = j

Positions(ks, kid) == {i \in DOMAIN ks : ks[i].kid = kid}

\* A set with any keys appears (NewKeySet, Clone, ParseKeySet).
Create(s) ==
  /\ s \notin live
  /\ live' = live \cup {s}
  /\ \A u \in Sets \ {s} : content'[u] = content[u]
  /\ DOMAIN content' = Sets
  /\ UniqueKids(content'[s])
  /\ reply' = "ok"

\* A key with a known kid takes the place of the old one; any other goes last.
Add(s, k) ==
  /\ s \in live
  /\ \/ /\ k.kid # NoKid
        /\ \E i \in Positions(content[s], k.kid) :
             content' = [content EXCEPT ![s][i] = k]
     \/ /\ k.kid = NoKid \/ Positions(content[s], k.kid) = {}
        /\ content' = [content EXCEPT ![s] = Append(content[s], k)]
  /\ reply' = "ok"
  /\ UNCHANGED live

\* The order-preserving enumeration of a finite set of positions.
Enumerations(P) ==
  {f \in [1..Cardinality(P) -> P] : \A i, j \in DOMAIN f : i < j => f[i] < f[j]}

\* Every key with that kid goes, the others keep their order.
Remove(s, kid) ==
  /\ s \in live
  /\ \E f \in Enumerations(DOMAIN content[s] \ Positions(content[s], kid)) :
       content' = [content EXCEPT ![s] = [i \in DOMAIN f |-> content[s][f[i]]]]
  /\ reply' = "ok"
  /\ UNCHANGED live

\* The empty kid resolves to a sole key and to nothing else.
Lookup(s, kid) ==
  /\ s \in live
  /\ LET P == IF kid = NoKid
              THEN IF Len(content[s]) = 1 THEN {1} ELSE {}
              ELSE Positions(content[s], kid)
     IN \/ \E i \in P : reply' = content[s][i].ops
        \/ P = {} /\ reply' = NotFound
  /\ UNCHANGED <<content, live>>

\* Whatever else callers do, with copies of keys they hold or with a set under
\* construction, no set changes.
Elsewhere ==
  /\ reply' \in {"none", "ErrMalformedKey"}
  /\ UNCHANGED <<content, live>>

\* A set nobody refers to any more.
Drop(s) ==
  /\ s \in live
  /\ live' = live \ {s}
  /\ content' = [content EXCEPT ![s] = <<>>]
  /\ reply' = "none"

Next ==
  \/ \E s \in Sets :
       \/ Create(s)
       \/ Drop(s)
       \/ \E kid \in Kids \cup {NoKid} :
            \/ Remove(s, kid)
            \/ Lookup(s, kid)
            \/ \E o \in Ops : Add(s, [kid |-> kid, ops |-> o])
  \/ Elsewhere

Spec == Init /\ [][Next]_vars
=============================================================================
