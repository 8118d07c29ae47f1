------------------------------- MODULE Claims -------------------------------
(***************************************************************************)
(* Claims Sets (claims.go, atclaims.go): how the claims structs are encoded*)
(* as a JSON object and decoded again.                                     *)
(*                                                                         *)
(* A claims struct is a record; its type says which of the fields it has,  *)
(* the others stay zero.  A time is a number of ticks since the epoch,     *)
(* Second ticks to the second.                                             *)
(***************************************************************************)
EXTENDS CMW

CONSTANTS Second,             \* ticks in a second
          Exact,              \* seconds from the epoch up to which float64 holds every tick
          Coarse,             \* ticks between two float64 numbers beyond
          MinDate, MaxDate,   \* minNumericDate, maxNumericDate, in seconds
          NotURIs             \* the strings that ValidateStringOrURI refuses

ASSUME ClaimsAssumption ==
  /\ Second \in Nat \ {0} /\ Coarse \in Nat \ {0} /\ Exact \in Nat /\ Second % Coarse = 0
  /\ MinDate \in Int /\ MaxDate \in Int /\ MinDate < 0 /\ 0 < MaxDate

NoDate == (MinDate - 100) * Second   \* a nil *NumericDate
NilAud == <<"nil">>                  \* a nil Audience

Strings == {"iss", "sub", "jti", "client_id"}
Dates == {"exp", "nbf", "iat"}
registered == (Strings \ {"client_id"}) \cup Dates \cup {"aud"}
Fields == [RegisteredClaims |-> registered,
           AccessTokenClaims |-> registered \cup {"client_id"},
           CMWClaims |-> registered \cup {"cmw"}]

ZeroClaims == [iss |-> "", sub |-> "", jti |-> "", client_id |-> "",
               exp |-> NoDate, nbf |-> NoDate, iat |-> NoDate, aud |-> NilAud, cmw |-> NoCMW]

-----------------------------------------------------------------------------
(* NumericDate                                                             *)

\* Mutant: the sign is put before the floor of the time.
MarshalDate_FloorSign(t) ==
  LET sec == t \div Second IN
  IF sec < 0 THEN Num(-1, -sec, t % Second) ELSE Num(1, sec, t % Second)

\* time.Time floors: half a second before the epoch is second -1 and half a second more.
MarshalDate(t) ==
  LET sec == t \div Second
      nsec == t % Second
  IN IF sec >= 0 THEN Num(1, sec, nsec)
     ELSE IF nsec = 0 THEN Num(-1, -sec, 0)
     ELSE Num(-1, -(sec + 1), Second - nsec)

\* The float64 nearest to a number of ticks; a tie goes to the even multiple.
Far(t) == t >= Exact * Second \/ t <= -Exact * Second
Float(t) ==
  LET down == t \div Coarse
      rest == t % Coarse
  IN IF ~Far(t) THEN t
     ELSE IF 2 * rest < Coarse \/ (2 * rest = Coarse /\ down % 2 = 0) THEN down * Coarse
     ELSE (down + 1) * Coarse

\* The JSON number as it is decoded, in ticks.
Value(num) == Float(num.sign * (num.whole * Second + num.frac))

DateOK(j) ==
  \/ Is("null", j)
  \/ Is("num", j) /\ MinDate * Second <= Value(j.num) /\ Value(j.num) <= MaxDate * Second

\* math.Modf and time.Unix: seconds and fraction have the sign of the number.
UnmarshalDate(j) ==
  IF Is("null", j) THEN NoDate
  ELSE LET f == Value(j.num)
           sign == IF f < 0 THEN -1 ELSE 1
           sec == sign * ((sign * f) \div Second)
           frac == sign * ((sign * f) % Second)
       IN sec * Second + frac

-----------------------------------------------------------------------------
(* Audience                                                                *)

MarshalAudience(aud) ==
  IF Len(aud) = 1 THEN Str(aud[1]) ELSE Arr([i \in DOMAIN aud |-> Str(aud[i])])

AudienceOK(j) ==
  IsString(j) \/ (Is("arr", j) /\ \A i \in DOMAIN j.arr : IsString(j.arr[i]))

UnmarshalAudience(j) ==
  IF Is("null", j) THEN NilAud
  ELSE IF Is("arr", j) THEN [i \in DOMAIN j.arr |-> AsString(j.arr[i])]
  ELSE <<j.str>>

-----------------------------------------------------------------------------
(* The structs                                                             *)

\* The members that are emitted: every one but client_id is "omitempty".
Emitted(type, c) ==
  {f \in Fields[type] :
     \/ f \in Strings /\ (c[f] # "" \/ f = "client_id")
     \/ f \in Dates /\ c[f] # NoDate
     \/ f = "aud" /\ c.aud \notin {NilAud, <<>>}
     \/ f = "cmw" /\ c.cmw # NoCMW}

\* json.Marshal fails where CMW.MarshalJSON does.
CanMarshal(type, c) == "cmw" \in Emitted(type, c) => Validate(c.cmw)

Marshal(type, c) ==
  Obj([f \in Emitted(type, c) |->
         CASE f \in Strings -> Str(c[f])
           [] f \in Dates -> MarshalDate(c[f])
           [] f = "aud" -> MarshalAudience(c.aud)
           [] f = "cmw" -> marshal(c.cmw)])

\* decodeObject into a struct of this type; members it does not know are skipped.
CanUnmarshal(type, j) ==
  /\ IsObject(j)
  /\ \A f \in Fields[type] \cap DOMAIN j.obj :
       CASE f \in Strings -> IsString(j.obj[f])
         [] f \in Dates -> DateOK(j.obj[f])
         [] f = "aud" -> AudienceOK(j.obj[f])
         [] f = "cmw" -> Is("null", j.obj[f]) \/ ParseCMW(j.obj[f]).ok

Unmarshal(type, j, into) ==
  [f \in DOMAIN into |->
     IF f \notin Fields[type] \cap DOMAIN j.obj THEN into[f]
     ELSE CASE f \in Strings -> AsString(j.obj[f])
            [] f \in Dates -> UnmarshalDate(j.obj[f])
            [] f = "aud" -> UnmarshalAudience(j.obj[f])
            [] f = "cmw" -> IF Is("null", j.obj[f]) THEN NoCMW ELSE ParseCMW(j.obj[f]).v]

-----------------------------------------------------------------------------
(* The access token profile                                                *)

ValidateAccessTokenClaims(c) ==
  IF \/ "" \in {c.iss, c.sub, c.client_id, c.jti}
     \/ NoDate \in {c.exp, c.iat}
     \/ c.aud \in {NilAud, <<>>}
  THEN {"ErrMissingClaim"}
  ELSE IF \/ {c.iss, c.sub} \cap NotURIs # {}
          \/ \E i \in DOMAIN c.aud : c.aud[i] \in NotURIs \cup {""}
  THEN {"ErrInvalidClaim"} ELSE {}
=============================================================================
