--------------------------- MODULE RefreshRotation ---------------------------
(***************************************************************************)
(* The rotator of examples/refresh_rotation/main.go composed with the      *)
(* in-memory RevocationStore it burns families in.  Refresh tokens of a    *)
(* family replace one another, and a token that is not the live one burns  *)
(* the family.  The program runs one call at a time.  Its own store is     *)
(* unbounded and its own, but the rotator takes any RevocationStore: here  *)
(* the rest of the application revokes other identifiers in the same one,  *)
(* and a bounded one may refuse to revoke.                                 *)
(***************************************************************************)
EXTENDS RevocationStore

CONSTANTS Families,  \* TokenFamily identifiers
          MaxToken   \* bound: opaque tokens ever drawn

ASSUME RotationAssumption ==
  Families \subseteq Ids /\ MaxToken \in Nat /\ 0 \in Times

NoToken == 0   \* as a stored hash: none; as a presented string: no token of ours

VARIABLES live,     \* family -> hash of its live token
          drawn,    \* tokens 1..drawn exist; NewOpaqueToken never repeats one
          result,   \* [fam, token, what] of the last rotate
          retired,  \* (ghost) tokens that were exchanged, or replaced by issue
          dead      \* (ghost) families that were burnt and the store agreed to revoke

rotator == <<live, drawn, retired, dead>>
rotationVars == <<vars, rotator, result>>

NoResult == [fam |-> "none", token |-> NoToken, what |-> "none"]

RotationInit ==
  /\ Init
  /\ live = [f \in Families |-> NoToken]
  /\ drawn = 0
  /\ result = NoResult
  /\ retired = {}
  /\ dead = {}

\* Draw a token and make it the live one.
Draw(f) ==
  /\ drawn < MaxToken
  /\ drawn' = drawn + 1
  /\ live' = [live EXCEPT ![f] = drawn + 1]
  /\ retired' = retired \cup ({live[f]} \ {NoToken})

issue(f) ==
  /\ Draw(f)
  /\ result' = NoResult
  /\ UNCHANGED <<vars, dead>>

VerifyOpaqueTokenHash(stored, raw) == stored # NoToken /\ stored = raw

Result(f, raw, what) == [fam |-> f, token |-> raw, what |-> what]

\* What IsRevoked answers about f now.
SaysRevoked(f) == Remaining[f].generation # 0

\* The store is asked first.
rotateRevoked(f, presented) ==
  /\ SaysRevoked(f)
  /\ IsRevoked(f)
  /\ result' = Result(f, presented, "reuse")
  /\ UNCHANGED <<live, drawn, retired, dead>>

\* time.Time{}
BurnUntil == 0

\* A superseded or forged token burns the family; Revoke's error is ignored.
rotateReuse(f, presented) ==
  /\ ~SaysRevoked(f)
  /\ ~VerifyOpaqueTokenHash(live[f], presented)
  /\ Revoke(f, BurnUntil)
  /\ result' = Result(f, presented, "reuse")
  /\ dead' = IF reply' = "ok" THEN dead \cup {f} ELSE dead
  /\ UNCHANGED <<live, drawn, retired>>

\* Mutant: the exchanged token stays live.
rotateNext_KeepsOld(f, presented) ==
  /\ ~SaysRevoked(f)
  /\ VerifyOpaqueTokenHash(live[f], presented)
  /\ drawn < MaxToken
  /\ drawn' = drawn + 1
  /\ retired' = retired \cup {presented}
  /\ IsRevoked(f)
  /\ result' = Result(f, presented, "next")
  /\ UNCHANGED <<live, dead>>

rotateNext(f, presented) ==
  /\ ~SaysRevoked(f)
  /\ VerifyOpaqueTokenHash(live[f], presented)
  /\ IsRevoked(f)
  /\ Draw(f)
  /\ result' = Result(f, presented, "next")
  /\ UNCHANGED dead

rotate(f, presented) ==
  \/ rotateRevoked(f, presented)
  \/ rotateReuse(f, presented)
  \/ rotateNext(f, presented)

\* The application revokes and looks up identifiers that are no families.
Application ==
  /\ \/ \E id \in Ids \ Families : IsRevoked(id) \/ \E t \in Times : Revoke(id, t)
     \/ RefuseEmptyId
     \/ Tick
  /\ result' = NoResult
  /\ UNCHANGED rotator

\* A client presents any token that was ever drawn, for any family, or a string
\* that is none.
RotationNext ==
  \/ \E f \in Families : issue(f) \/ \E t \in 0..drawn : rotate(f, t)
  \/ Application

RotationSpec == RotationInit /\ [][RotationNext]_rotationVars

-----------------------------------------------------------------------------
(* Properties                                                              *)

\* A refresh token that was exchanged or replaced is never exchanged again: the
\* tokens of a family form one line, whoever presents them.  And a family whose burning
\* the store accepted is dead for good: it is never exchanged again, not even with its
\* live token, whatever else is revoked, replaced, expired or compacted away in the
\* store and however much time passes.
NoReplay ==
  [][result'.what = "next" => result'.token \notin retired /\ result'.fam \notin dead]_rotationVars
=============================================================================
