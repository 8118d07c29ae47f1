------------------------------ MODULE MCKeySet ------------------------------
(* Instances of KeySet for TLC.                                            *)
EXTENDS KeySet

SomeRefs == 1..3
Marks == <<"op1", "op2", "op1">>

\* Every document of up to two members, with key_ops that tell the members
\* apart, and one that exceeds the limit.
Documents ==
  LET documents(n, kids, forms) ==
        {[i \in 1..n |-> [kid |-> c[i][1], form |-> c[i][2], ops |-> Marks[i]]]
           : c \in [1..n -> kids \X forms]}
  IN UNION {documents(n, AnyKid, {"key", "unknown", "malformed"}) : n \in 0..2}
       \cup documents(3, {NoKid}, {"key"})
=============================================================================
