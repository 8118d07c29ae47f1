---------------------------- MODULE MCKeyFetcher ----------------------------
(* Instances of KeyFetcher for TLC.                                        *)
EXTENDS KeyFetcher, TLC

\* k1 is in every document, k2 is withdrawn by the second one.
MCAnswers == [d \in Docs |-> (IF d = 1 THEN {"k1", "k2"} ELSE {"k1"}) \cap Kids]

MaxAge(n) == [noStore |-> FALSE, noCache |-> FALSE, hasMaxAge |-> TRUE, maxAge |-> n]
NoCache == [NoResponse EXCEPT !.noCache = TRUE]
NoStore == [NoResponse EXCEPT !.noStore = TRUE]

\* max-age beyond MaxCache, no directive at all, no-cache and no-store.
AllResponses == {MaxAge(9), NoResponse, NoCache, NoStore}
CapResponses == {MaxAge(9), NoStore}

Symmetry == Permutations(Callers) \cup Permutations(Flights)
=============================================================================
