---------------------------- MODULE Signing_proofs ----------------------------
(***************************************************************************)
(* Proofs about Signing for any scene: any keys, claims, JSON values, CMWs *)
(* and options, any depth of nesting, and any number of tokens and calls.  *)
(*                                                                         *)
(* The argument: a token that was sent keeps the shape that Sign or        *)
(* SignCMW gave it (SentInv), the signer is what a constructor made of a   *)
(* private key that a parser accepted, and the consumer's key was served   *)
(* unless it is symmetric (KeyInv).  A signature names the header and the  *)
(* payload it was made over, so three segments that pass come from one     *)
(* token (SignaturePassed, SentWhole).  The rest is what encoding and      *)
(* decoding make of its content: a date comes back within half a step of   *)
(* float64 (DateRoundTrip), an audience as it was (AudienceRoundTrip), and *)
(* a CMW as it was at every level (CMWRoundTrip).  Options, applied one    *)
(* after another, amount to the last that names each setting and the union *)
(* of the lists (ConfiguredSummary).                                       *)
(*                                                                         *)
(* The last two are inductions, on the levels of nesting and the number of *)
(* options.  Each shows that the set of the numbers for which the claim    *)
(* holds is closed under successor (AllNaturals).                          *)
(***************************************************************************)
EXTENDS Signing, FiniteSetTheorems, WellFoundedInduction, TLAPS

-----------------------------------------------------------------------------
(* Induction                                                               *)

\* What holds of 0 and passes from each number to the next holds of all naturals.
LEMMA AllNaturals ==
  ASSUME NEW N \in SUBSET Nat, 0 \in N, \A n \in N : n + 1 \in N
  PROVE  N = Nat
<1> SUFFICES ASSUME Nat \ N # {} PROVE FALSE
  OBVIOUS
<1> DEFINE Less == OpToRel(<, Nat)
           Rest == Nat \ N
<1>1. IsWellFoundedOn(Less, Nat)
  BY NatLessThanWellFounded
<1>2. \A x, y \in Nat : x < y => <<x, y>> \in Less
  BY DEF OpToRel
<1> HIDE DEF Less
<1>3. PICK x \in Rest : \A y \in Rest : ~ (<<y, x>> \in Less)
  BY <1>1, WFMin
<1>4. x \in Nat /\ x # 0 /\ x - 1 \in Nat /\ x - 1 < x /\ x - 1 + 1 = x /\ x \notin N
  OBVIOUS
<1>5. x - 1 \in Rest
  BY <1>4
<1> QED BY <1>2, <1>3, <1>4, <1>5

-----------------------------------------------------------------------------
(* Options                                                                 *)

\* g has the configuration after each of the first n options.
ParseApplied(opts, n, g) ==
  g = [i \in 0..n |-> IF i = 0 THEN zeroConfig ELSE applyParse(g[i-1], opts[i])]
SignApplied(c, opts, n, g) ==
  g = [i \in 0..n |-> IF i = 0 THEN c ELSE applySign(g[i-1], opts[i])]

\* Any number of options can be applied.
LEMMA ParseAppliedExists == ASSUME NEW opts PROVE \A n \in Nat : \E g : ParseApplied(opts, n, g)
<1> DEFINE N == {n \in Nat : \E g : ParseApplied(opts, n, g)}
<1>1. 0 \in N
  <2>1. ParseApplied(opts, 0, [i \in 0..0 |-> zeroConfig])
    BY DEF ParseApplied
  <2> QED BY <2>1
<1>2. ASSUME NEW n \in N PROVE n + 1 \in N
  <2>1. PICK g : ParseApplied(opts, n, g)
    OBVIOUS
  <2> DEFINE h == [i \in 0..(n+1) |-> IF i = n + 1 THEN applyParse(g[n], opts[n+1]) ELSE g[i]]
  <2>2. n \in Nat /\ \A i \in 0..n : g[i] = IF i = 0 THEN zeroConfig ELSE applyParse(g[i-1], opts[i])
    BY <2>1 DEF ParseApplied
  <2>3. ASSUME NEW i \in 0..(n+1)
        PROVE  h[i] = IF i = 0 THEN zeroConfig ELSE applyParse(h[i-1], opts[i])
    <3>1. CASE i = 0
      BY <2>2, <3>1
    <3>2. CASE i \in 1..n
      BY <2>2, <3>2
    <3>3. CASE i = n + 1
      BY <2>2, <3>3
    <3> QED BY <2>2, <3>1, <3>2, <3>3
  <2>4. ParseApplied(opts, n + 1, h)
    <3> HIDE DEF h
    <3>1. h = [i \in 0..(n+1) |-> h[i]]
      BY DEF h
    <3> QED BY <2>3, <3>1 DEF ParseApplied
  <2> QED BY <2>2, <2>4
<1> HIDE DEF N
<1>3. N \in SUBSET Nat
  BY DEF N
<1>4. N = Nat
  BY <1>1, <1>2, <1>3, AllNaturals
<1> QED BY <1>4 DEF N

\* The loop over the options of Sign has a result for each prefix of them.
LEMMA SignAppliedExists ==
  ASSUME NEW c, NEW opts PROVE \A n \in Nat : \E g : SignApplied(c, opts, n, g)
<1> DEFINE N == {n \in Nat : \E g : SignApplied(c, opts, n, g)}
<1>1. 0 \in N
  <2>1. SignApplied(c, opts, 0, [i \in 0..0 |-> c])
    BY DEF SignApplied
  <2> QED BY <2>1
<1>2. ASSUME NEW n \in N PROVE n + 1 \in N
  <2>1. PICK g : SignApplied(c, opts, n, g)
    OBVIOUS
  <2> DEFINE h == [i \in 0..(n+1) |-> IF i = n + 1 THEN applySign(g[n], opts[n+1]) ELSE g[i]]
  <2>2. n \in Nat /\ \A i \in 0..n : g[i] = IF i = 0 THEN c ELSE applySign(g[i-1], opts[i])
    BY <2>1 DEF SignApplied
  <2>3. ASSUME NEW i \in 0..(n+1)
        PROVE  h[i] = IF i = 0 THEN c ELSE applySign(h[i-1], opts[i])
    <3>1. CASE i = 0
      BY <2>2, <3>1
    <3>2. CASE i \in 1..n
      BY <2>2, <3>2
    <3>3. CASE i = n + 1
      BY <2>2, <3>3
    <3> QED BY <2>2, <3>1, <3>2, <3>3
  <2>4. SignApplied(c, opts, n + 1, h)
    <3> HIDE DEF h
    <3>1. h = [i \in 0..(n+1) |-> h[i]]
      BY DEF h
    <3> QED BY <2>3, <3>1 DEF SignApplied
  <2> QED BY <2>2, <2>4
<1> HIDE DEF N
<1>3. N \in SUBSET Nat
  BY DEF N
<1>4. N = Nat
  BY <1>1, <1>2, <1>3, AllNaturals
<1> QED BY <1>4 DEF N

\* Configured and SignConfigured are the last of those.
LEMMA ConfiguredResult ==
  ASSUME NEW opts, Listed(opts)
  PROVE  \E g : ParseApplied(opts, Len(opts), g) /\ Configured(opts) = g[Len(opts)]
<1>1. PICK g : ParseApplied(opts, Len(opts), g) /\ g = CHOOSE f : ParseApplied(opts, Len(opts), f)
  BY ParseAppliedExists DEF Listed
<1>2. Configured(opts) = g[Len(opts)]
  BY <1>1 DEF Configured, ParseApplied
<1> QED BY <1>1, <1>2

\* SignConfigured is the result of that loop.
LEMMA SignConfiguredResult ==
  ASSUME NEW c, NEW opts, Listed(opts)
  PROVE  \E g : SignApplied(c, opts, Len(opts), g) /\ SignConfigured(c, opts) = g[Len(opts)]
<1>1. PICK g : SignApplied(c, opts, Len(opts), g) /\ g = CHOOSE f : SignApplied(c, opts, Len(opts), f)
  BY SignAppliedExists DEF Listed
<1>2. SignConfigured(c, opts) = g[Len(opts)]
  BY <1>1 DEF SignConfigured, SignApplied
<1> QED BY <1>1, <1>2

\* What the first n options say of a field that is replaced, and of one that is merged.
Said(opts, n, f, v) ==
  \/ v = zeroConfig[f] /\ \A i \in 1..n : ~Names(opts[i], f, zeroConfig)
  \/ \E i \in 1..n : /\ Names(opts[i], f, zeroConfig) /\ v = opts[i].set[f]
                     /\ \A j \in 1..n : Names(opts[j], f, zeroConfig) => j <= i
Gathered(opts, n, f, v) ==
  \A x : x \in v <=> \E i \in 1..n : f \in DOMAIN opts[i].set /\ x \in opts[i].set[f]

\* The configuration after n options, said without a loop.
ConfigSummary(opts, n, c) ==
  /\ DOMAIN c = DOMAIN zeroConfig
  /\ \A f \in {"issuer", "audience"} : Said(opts, n, f, c[f])
  /\ \A f \in {"algs", "required"} : Gathered(opts, n, f, c[f])
  /\ c.leeway \in Int
  /\ c.audience # NilAud[1]

\* The fields of a configuration.
LEMMA ConfigFields ==
  /\ DOMAIN zeroConfig = {"algs", "required", "issuer", "audience", "skipAudience", "type", "leeway"}
  /\ zeroConfig.algs = {} /\ zeroConfig.required = {} /\ zeroConfig.leeway \in Int
  /\ zeroConfig.audience = "" /\ zeroConfig.issuer = ""
  /\ NilAud[1] = "nil"
BY DEF zeroConfig, NilAud

\* Before any option.
LEMMA SummaryStart == ASSUME NEW opts PROVE ConfigSummary(opts, 0, zeroConfig)
<1>1. 1..0 = {}
  OBVIOUS
<1> QED BY <1>1, ConfigFields DEF ConfigSummary, Said, Gathered

\* One more option.
LEMMA SummaryStep ==
  ASSUME NEW opts, NEW n \in Nat, NEW c, ConfigSummary(opts, n, c), ParseOptionType(opts[n+1])
  PROVE  ConfigSummary(opts, n + 1, applyParse(c, opts[n+1]))
<1> DEFINE o == opts[n+1]
           d == applyParse(c, o)
<1>1. \A i : i \in 1..(n+1) <=> i \in 1..n \/ i = n + 1
  OBVIOUS
<1>2. /\ DOMAIN d = DOMAIN c
      /\ \A f \in DOMAIN c : d[f] = IF ~Names(o, f, zeroConfig) THEN c[f]
                                    ELSE IF f \in {"algs", "required"} THEN c[f] \cup o.set[f]
                                    ELSE o.set[f]
  BY DEF applyParse
<1>3. DOMAIN c = DOMAIN zeroConfig
  BY DEF ConfigSummary
<1> HIDE DEF d
<1>4. ASSUME NEW f \in {"issuer", "audience"} PROVE Said(opts, n + 1, f, d[f])
  <2>0. f \in DOMAIN c /\ Said(opts, n, f, c[f])
    BY <1>3, ConfigFields DEF ConfigSummary
  <2>1. CASE Names(o, f, zeroConfig)
    <3>1. d[f] = o.set[f]
      BY <1>2, <2>0, <2>1
    <3>2. \A j \in 1..(n+1) : j <= n + 1
      OBVIOUS
    <3> QED BY <1>1, <2>1, <3>1, <3>2 DEF Said
  <2>2. CASE ~Names(o, f, zeroConfig)
    <3>1. d[f] = c[f]
      BY <1>2, <2>0, <2>2
    <3> QED BY <1>1, <2>0, <2>2, <3>1 DEF Said
  <2> QED BY <2>1, <2>2
<1>5. ASSUME NEW f \in {"algs", "required"} PROVE Gathered(opts, n + 1, f, d[f])
  <2>0. f \in DOMAIN c /\ Gathered(opts, n, f, c[f]) /\ zeroConfig[f] = {}
    BY <1>3, ConfigFields DEF ConfigSummary
  <2>1. CASE Names(o, f, zeroConfig)
    <3>1. d[f] = c[f] \cup o.set[f] /\ f \in DOMAIN o.set
      BY <1>2, <2>0, <2>1 DEF Names
    <3> QED BY <1>1, <2>0, <3>1 DEF Gathered
  <2>2. CASE ~Names(o, f, zeroConfig)
    <3>1. d[f] = c[f] /\ (f \in DOMAIN o.set => o.set[f] = {})
      BY <1>2, <2>0, <2>2 DEF Names
    <3> QED BY <1>1, <2>0, <3>1 DEF Gathered
  <2> QED BY <2>1, <2>2
<1>6. d.leeway \in Int
  BY <1>2, <1>3, ConfigFields DEF ConfigSummary, Names, ParseOptionType
<1>7. d.audience # NilAud[1]
  BY <1>2, <1>3, ConfigFields DEF ConfigSummary, Names, ParseOptionType
<1> QED BY <1>2, <1>3, <1>4, <1>5, <1>6, <1>7 DEF ConfigSummary, d

OptionsType(opts) == Listed(opts) /\ \A i \in DOMAIN opts : ParseOptionType(opts[i])

\* All of them.
LEMMA ConfiguredSummary ==
  ASSUME NEW opts, OptionsType(opts)
  PROVE  ConfigSummary(opts, Len(opts), Configured(opts))
<1>0. Listed(opts) /\ Len(opts) \in Nat /\ \A i \in 1..Len(opts) : ParseOptionType(opts[i])
  BY DEF OptionsType, Listed
<1>1. PICK g : ParseApplied(opts, Len(opts), g) /\ Configured(opts) = g[Len(opts)]
  BY <1>0, ConfiguredResult
<1>2. \A i \in 0..Len(opts) : g[i] = IF i = 0 THEN zeroConfig ELSE applyParse(g[i-1], opts[i])
  BY <1>0, <1>1 DEF ParseApplied
<1> DEFINE N == {n \in Nat : n <= Len(opts) => ConfigSummary(opts, n, g[n])}
<1>3. 0 \in N
  BY <1>0, <1>2, SummaryStart
<1>4. ASSUME NEW n \in N, n + 1 <= Len(opts) PROVE ConfigSummary(opts, n + 1, g[n+1])
  <2>1. n \in Nat /\ n + 1 \in 0..Len(opts) /\ n + 1 \in 1..Len(opts) /\ n + 1 # 0 /\ (n + 1) - 1 = n
    BY <1>0, <1>4
  <2>2. g[n+1] = applyParse(g[n], opts[n+1]) /\ ConfigSummary(opts, n, g[n])
    BY <1>0, <1>2, <1>4, <2>1
  <2> QED BY <1>0, <2>1, <2>2, SummaryStep
<1>5. \A n \in N : n + 1 \in N
  BY <1>4
<1> HIDE DEF N
<1>6. N \in SUBSET Nat
  BY DEF N
<1>7. N = Nat
  BY <1>3, <1>5, <1>6, AllNaturals
<1> QED BY <1>0, <1>1, <1>7 DEF N

\* The definitions that the properties use say the same.
LEMMA EffectiveSaid ==
  ASSUME NEW opts, OptionsType(opts), NEW f, NEW v, Said(opts, Len(opts), f, v)
  PROVE  Effective(opts, f) = v
<1> DEFINE naming == {i \in DOMAIN opts : Names(opts[i], f, zeroConfig)}
<1>0. DOMAIN opts = 1..Len(opts) /\ Len(opts) \in Nat
  BY DEF OptionsType, Listed
<1>1. CASE naming = {}
  <2>1. Effective(opts, f) = zeroConfig[f]
    BY <1>1 DEF Effective
  <2> QED BY <1>0, <1>1, <2>1 DEF Said
<1>2. CASE naming # {}
  <2>1. PICK i \in 1..Len(opts) : /\ Names(opts[i], f, zeroConfig) /\ v = opts[i].set[f]
                                  /\ \A j \in 1..Len(opts) : Names(opts[j], f, zeroConfig) => j <= i
    BY <1>0, <1>2 DEF Said
  <2>2. i \in naming /\ \A j \in naming : j <= i
    BY <1>0, <2>1
  <2> DEFINE m == CHOOSE k \in naming : \A j \in naming : j <= k
  <2>3. m \in naming /\ \A j \in naming : j <= m
    BY <2>2
  <2>4. m \in Int /\ i \in Int
    BY <1>0, <2>3
  <2>5. Effective(opts, f) = opts[m].set[f]
    BY <1>2 DEF Effective
  <2> HIDE DEF m
  <2>6. m = i
    BY <2>2, <2>3, <2>4
  <2> QED BY <2>1, <2>5, <2>6
<1> QED BY <1>1, <1>2

\* The loop gathers nothing but what some option lists.
LEMMA MergedGathered ==
  ASSUME NEW opts, OptionsType(opts), NEW f, NEW v, Gathered(opts, Len(opts), f, v)
  PROVE  \A x : x \in v => x \in Merged(opts, f)
BY DEF OptionsType, Listed, Gathered, Merged

\* The loop loses nothing of what an option lists.
LEMMA MergedInConfig ==
  ASSUME NEW opts, OptionsType(opts), NEW f, NEW v, Gathered(opts, Len(opts), f, v)
  PROVE  \A x : x \in Merged(opts, f) => x \in v
BY DEF OptionsType, Listed, Gathered, Merged

MediaType(t) == t = [top |-> t.top, sub |-> t.sub]
HeaderTypes(c) == DOMAIN c = {"typ", "cty"} /\ MediaType(c.typ) /\ MediaType(c.cty)

\* An option leaves them so.
LEMMA ApplySignType ==
  ASSUME NEW c, HeaderTypes(c), NEW o, SignOptionType(o)
  PROVE  HeaderTypes(applySign(c, o))
<1>1. DOMAIN c = {"typ", "cty"} /\ MediaType(c["typ"]) /\ MediaType(c["cty"])
  BY DEF HeaderTypes
<1>2. DOMAIN applySign(c, o) = {"typ", "cty"}
  BY <1>1 DEF applySign
<1>3. \A f \in DOMAIN o.set : MediaType(o.set[f])
  BY DEF SignOptionType, MediaType
<1>4. ASSUME NEW f \in DOMAIN c, MediaType(c[f]) PROVE MediaType(applySign(c, o)[f])
  <2>1. applySign(c, o)[f] = IF Names(o, f, zeroSign) THEN o.set[f] ELSE c[f]
    BY DEF applySign
  <2>2. Names(o, f, zeroSign) => f \in DOMAIN o.set
    BY DEF Names
  <2>3. CASE Names(o, f, zeroSign)
    BY <1>3, <2>1, <2>2, <2>3
  <2>4. CASE ~Names(o, f, zeroSign)
    BY <1>4, <2>1, <2>4
  <2> QED BY <2>3, <2>4
<1>5. MediaType(applySign(c, o)["typ"]) /\ MediaType(applySign(c, o)["cty"])
  BY <1>1, <1>4
<1> QED BY <1>2, <1>5 DEF HeaderTypes

\* The header types that options set are media types.
LEMMA SignConfiguredType ==
  ASSUME NEW c, HeaderTypes(c), NEW opts, Listed(opts),
         \A i \in DOMAIN opts : SignOptionType(opts[i])
  PROVE  HeaderTypes(SignConfigured(c, opts))
<1>0. Len(opts) \in Nat /\ \A i \in 1..Len(opts) : SignOptionType(opts[i])
  BY DEF Listed
<1>1. PICK g : SignApplied(c, opts, Len(opts), g) /\ SignConfigured(c, opts) = g[Len(opts)]
  BY SignConfiguredResult
<1>2. \A i \in 0..Len(opts) : g[i] = IF i = 0 THEN c ELSE applySign(g[i-1], opts[i])
  BY <1>0, <1>1 DEF SignApplied
<1> DEFINE N == {n \in Nat : n <= Len(opts) => HeaderTypes(g[n])}
<1>4. 0 \in N
  BY <1>0, <1>2
<1>5. ASSUME NEW n \in N, n + 1 <= Len(opts) PROVE HeaderTypes(g[n+1])
  <2>1. n \in Nat /\ n + 1 \in 0..Len(opts) /\ n + 1 \in 1..Len(opts) /\ n + 1 # 0 /\ (n + 1) - 1 = n
    BY <1>0, <1>5
  <2>2. g[n+1] = applySign(g[n], opts[n+1]) /\ HeaderTypes(g[n])
    BY <1>0, <1>2, <1>5, <2>1
  <2> QED BY <1>0, <2>1, <2>2, ApplySignType
<1>6. \A n \in N : n + 1 \in N
  BY <1>5
<1> HIDE DEF N
<1>7. N \in SUBSET Nat
  BY DEF N
<1>8. N = Nat
  BY <1>4, <1>6, <1>7, AllNaturals
<1> QED BY <1>0, <1>1, <1>8 DEF N

-----------------------------------------------------------------------------
(* CMWs: the recursion over levels.  Each function exists, since it does   *)
(* up to every level, and so satisfies its definition.                     *)

\* The limit of nesting is a number of levels.
LEMMA CMWDepth == MaxDepth \in Nat /\ MaxDepth + 1 \in Nat
<1>1. MaxDepth \in Nat
  BY CMWAssumption
<1> QED BY <1>1

\* The valid CMWs of every level up to n.
NextValid(below) == {c \in CMWs : validateCMW(c, below)}
Validates(n, g) == g = [left \in 0..n |-> IF left = 0 THEN {} ELSE NextValid(g[left-1])]

\* There is a function that validates level by level, up to any level.
LEMMA ValidatesExists == \A n \in Nat : \E g : Validates(n, g)
<1> DEFINE N == {n \in Nat : \E g : Validates(n, g)}
<1>1. 0 \in N
  <2>1. Validates(0, [left \in 0..0 |-> {}])
    BY DEF Validates
  <2> QED BY <2>1
<1>2. ASSUME NEW n \in N PROVE n + 1 \in N
  <2>1. PICK g : Validates(n, g)
    OBVIOUS
  <2> DEFINE h == [i \in 0..(n+1) |-> IF i = n + 1 THEN NextValid(g[n]) ELSE g[i]]
  <2>2. n \in Nat /\ \A left \in 0..n : g[left] = IF left = 0 THEN {} ELSE NextValid(g[left-1])
    BY <2>1 DEF Validates
  <2>3. ASSUME NEW left \in 0..(n+1)
        PROVE  h[left] = IF left = 0 THEN {} ELSE NextValid(h[left-1])
    <3>1. CASE left = 0
      BY <2>2, <3>1
    <3>2. CASE left \in 1..n
      BY <2>2, <3>2
    <3>3. CASE left = n + 1
      BY <2>2, <3>3
    <3> QED BY <2>2, <3>1, <3>2, <3>3
  <2>4. Validates(n + 1, h)
    <3> HIDE DEF h
    <3>1. h = [i \in 0..(n+1) |-> h[i]]
      BY DEF h
    <3> QED BY <2>3, <3>1 DEF Validates
  <2> QED BY <2>2, <2>4
<1> HIDE DEF N
<1>3. N \in SUBSET Nat
  BY DEF N
<1>4. N = Nat
  BY <1>1, <1>2, <1>3, AllNaturals
<1> QED BY <1>4 DEF N

\* So validate satisfies its recursion.
LEMMA ValidateUnfold ==
  /\ validate[0] = {}
  /\ \A n \in Nat : n + 1 \in Levels => validate[n+1] = NextValid(validate[n])
<1>1. MaxDepth + 1 \in Nat
  BY CMWDepth
<1>2. PICK g : Validates(MaxDepth + 1, g) /\ g = CHOOSE f : Validates(MaxDepth + 1, f)
  BY <1>1, ValidatesExists
<1>3. g = validate
  BY <1>2 DEF Validates, validate, Levels, NextValid
<1>4. \A left \in Levels : validate[left] = IF left = 0 THEN {} ELSE NextValid(validate[left-1])
  BY <1>2, <1>3 DEF Validates, Levels
<1>5. 0 \in Levels
  BY <1>1 DEF Levels
<1>6. ASSUME NEW n \in Nat, n + 1 \in Levels PROVE validate[n+1] = NextValid(validate[n])
  <2>1. n + 1 # 0 /\ (n + 1) - 1 = n
    OBVIOUS
  <2> QED BY <1>4, <1>6, <2>1
<1> QED BY <1>4, <1>5, <1>6

\* Their encodings.
NextEncode(below) == [c \in CMWs |-> marshalCMW(c, below)]
Encodes(n, g) == g = [left \in 0..n |-> IF left = 0 THEN [c \in CMWs |-> Null] ELSE NextEncode(g[left-1])]

\* There is a function that encodes level by level.
LEMMA EncodesExists == \A n \in Nat : \E g : Encodes(n, g)
<1> DEFINE N == {n \in Nat : \E g : Encodes(n, g)}
<1>1. 0 \in N
  <2>1. Encodes(0, [left \in 0..0 |-> [c \in CMWs |-> Null]])
    BY DEF Encodes
  <2> QED BY <2>1
<1>2. ASSUME NEW n \in N PROVE n + 1 \in N
  <2>1. PICK g : Encodes(n, g)
    OBVIOUS
  <2> DEFINE h == [i \in 0..(n+1) |-> IF i = n + 1 THEN NextEncode(g[n]) ELSE g[i]]
  <2>2. n \in Nat /\ \A left \in 0..n : g[left] = IF left = 0 THEN [c \in CMWs |-> Null] ELSE NextEncode(g[left-1])
    BY <2>1 DEF Encodes
  <2>3. ASSUME NEW left \in 0..(n+1)
        PROVE  h[left] = IF left = 0 THEN [c \in CMWs |-> Null] ELSE NextEncode(h[left-1])
    <3>1. CASE left = 0
      BY <2>2, <3>1
    <3>2. CASE left \in 1..n
      BY <2>2, <3>2
    <3>3. CASE left = n + 1
      BY <2>2, <3>3
    <3> QED BY <2>2, <3>1, <3>2, <3>3
  <2>4. Encodes(n + 1, h)
    <3> HIDE DEF h
    <3>1. h = [i \in 0..(n+1) |-> h[i]]
      BY DEF h
    <3> QED BY <2>3, <3>1 DEF Encodes
  <2> QED BY <2>2, <2>4
<1> HIDE DEF N
<1>3. N \in SUBSET Nat
  BY DEF N
<1>4. N = Nat
  BY <1>1, <1>2, <1>3, AllNaturals
<1> QED BY <1>4 DEF N

\* So encode satisfies its recursion.
LEMMA EncodeUnfold ==
  /\ encode[0] = [c \in CMWs |-> Null]
  /\ \A n \in Nat : n + 1 \in Levels => encode[n+1] = NextEncode(encode[n])
<1>1. MaxDepth + 1 \in Nat
  BY CMWDepth
<1>2. PICK g : Encodes(MaxDepth + 1, g) /\ g = CHOOSE f : Encodes(MaxDepth + 1, f)
  BY <1>1, EncodesExists
<1>3. g = encode
  BY <1>2 DEF Encodes, encode, Levels, NextEncode
<1>4. \A left \in Levels : encode[left] = IF left = 0 THEN [c \in CMWs |-> Null] ELSE NextEncode(encode[left-1])
  BY <1>2, <1>3 DEF Encodes, Levels
<1>5. 0 \in Levels
  BY <1>1 DEF Levels
<1>6. ASSUME NEW n \in Nat, n + 1 \in Levels PROVE encode[n+1] = NextEncode(encode[n])
  <2>1. n + 1 # 0 /\ (n + 1) - 1 = n
    OBVIOUS
  <2> QED BY <1>4, <1>6, <2>1
<1> QED BY <1>4, <1>5, <1>6

\* What is parsed of a document.
NextParse(below) == [j \in Documents |-> parseCMW(j, below)]
Parses(n, g) == g = [left \in 0..n |-> IF left = 0 THEN [j \in Documents |-> Refused] ELSE NextParse(g[left-1])]

\* There is a function that parses level by level.
LEMMA ParsesExists == \A n \in Nat : \E g : Parses(n, g)
<1> DEFINE N == {n \in Nat : \E g : Parses(n, g)}
<1>1. 0 \in N
  <2>1. Parses(0, [left \in 0..0 |-> [j \in Documents |-> Refused]])
    BY DEF Parses
  <2> QED BY <2>1
<1>2. ASSUME NEW n \in N PROVE n + 1 \in N
  <2>1. PICK g : Parses(n, g)
    OBVIOUS
  <2> DEFINE h == [i \in 0..(n+1) |-> IF i = n + 1 THEN NextParse(g[n]) ELSE g[i]]
  <2>2. n \in Nat /\ \A left \in 0..n : g[left] = IF left = 0 THEN [j \in Documents |-> Refused] ELSE NextParse(g[left-1])
    BY <2>1 DEF Parses
  <2>3. ASSUME NEW left \in 0..(n+1)
        PROVE  h[left] = IF left = 0 THEN [j \in Documents |-> Refused] ELSE NextParse(h[left-1])
    <3>1. CASE left = 0
      BY <2>2, <3>1
    <3>2. CASE left \in 1..n
      BY <2>2, <3>2
    <3>3. CASE left = n + 1
      BY <2>2, <3>3
    <3> QED BY <2>2, <3>1, <3>2, <3>3
  <2>4. Parses(n + 1, h)
    <3> HIDE DEF h
    <3>1. h = [i \in 0..(n+1) |-> h[i]]
      BY DEF h
    <3> QED BY <2>3, <3>1 DEF Parses
  <2> QED BY <2>2, <2>4
<1> HIDE DEF N
<1>3. N \in SUBSET Nat
  BY DEF N
<1>4. N = Nat
  BY <1>1, <1>2, <1>3, AllNaturals
<1> QED BY <1>4 DEF N

\* So parse satisfies its recursion.
LEMMA ParseUnfold ==
  /\ parse[0] = [j \in Documents |-> Refused]
  /\ \A n \in Nat : n + 1 \in Levels => parse[n+1] = NextParse(parse[n])
<1>1. MaxDepth + 1 \in Nat
  BY CMWDepth
<1>2. PICK g : Parses(MaxDepth + 1, g) /\ g = CHOOSE f : Parses(MaxDepth + 1, f)
  BY <1>1, ParsesExists
<1>3. g = parse
  BY <1>2 DEF Parses, parse, Levels, NextParse
<1>4. \A left \in Levels : parse[left] = IF left = 0 THEN [j \in Documents |-> Refused] ELSE NextParse(parse[left-1])
  BY <1>2, <1>3 DEF Parses, Levels
<1>5. 0 \in Levels
  BY <1>1 DEF Levels
<1>6. ASSUME NEW n \in Nat, n + 1 \in Levels PROVE parse[n+1] = NextParse(parse[n])
  <2>1. n + 1 # 0 /\ (n + 1) - 1 = n
    OBVIOUS
  <2> QED BY <1>4, <1>6, <2>1
<1> QED BY <1>4, <1>5, <1>6

\* The CMWs with a record that has no bytes.
NextHollow(below) == {c \in CMWs : HollowCMW(c, below)}
Hollows(n, g) == g = [left \in 0..n |-> IF left = 0 THEN {} ELSE NextHollow(g[left-1])]

\* There is a function that finds records without bytes level by level.
LEMMA HollowsExists == \A n \in Nat : \E g : Hollows(n, g)
<1> DEFINE N == {n \in Nat : \E g : Hollows(n, g)}
<1>1. 0 \in N
  <2>1. Hollows(0, [left \in 0..0 |-> {}])
    BY DEF Hollows
  <2> QED BY <2>1
<1>2. ASSUME NEW n \in N PROVE n + 1 \in N
  <2>1. PICK g : Hollows(n, g)
    OBVIOUS
  <2> DEFINE h == [i \in 0..(n+1) |-> IF i = n + 1 THEN NextHollow(g[n]) ELSE g[i]]
  <2>2. n \in Nat /\ \A left \in 0..n : g[left] = IF left = 0 THEN {} ELSE NextHollow(g[left-1])
    BY <2>1 DEF Hollows
  <2>3. ASSUME NEW left \in 0..(n+1)
        PROVE  h[left] = IF left = 0 THEN {} ELSE NextHollow(h[left-1])
    <3>1. CASE left = 0
      BY <2>2, <3>1
    <3>2. CASE left \in 1..n
      BY <2>2, <3>2
    <3>3. CASE left = n + 1
      BY <2>2, <3>3
    <3> QED BY <2>2, <3>1, <3>2, <3>3
  <2>4. Hollows(n + 1, h)
    <3> HIDE DEF h
    <3>1. h = [i \in 0..(n+1) |-> h[i]]
      BY DEF h
    <3> QED BY <2>3, <3>1 DEF Hollows
  <2> QED BY <2>2, <2>4
<1> HIDE DEF N
<1>3. N \in SUBSET Nat
  BY DEF N
<1>4. N = Nat
  BY <1>1, <1>2, <1>3, AllNaturals
<1> QED BY <1>4 DEF N

\* So hollow satisfies its recursion.
LEMMA HollowUnfold ==
  /\ hollow[0] = {}
  /\ \A n \in Nat : n + 1 \in Levels => hollow[n+1] = NextHollow(hollow[n])
<1>1. MaxDepth + 1 \in Nat
  BY CMWDepth
<1>2. PICK g : Hollows(MaxDepth + 1, g) /\ g = CHOOSE f : Hollows(MaxDepth + 1, f)
  BY <1>1, HollowsExists
<1>3. g = hollow
  BY <1>2 DEF Hollows, hollow, Levels, NextHollow
<1>4. \A left \in Levels : hollow[left] = IF left = 0 THEN {} ELSE NextHollow(hollow[left-1])
  BY <1>2, <1>3 DEF Hollows, Levels
<1>5. 0 \in Levels
  BY <1>1 DEF Levels
<1>6. ASSUME NEW n \in Nat, n + 1 \in Levels PROVE hollow[n+1] = NextHollow(hollow[n])
  <2>1. n + 1 # 0 /\ (n + 1) - 1 = n
    OBVIOUS
  <2> QED BY <1>4, <1>6, <2>1
<1> QED BY <1>4, <1>5, <1>6

-----------------------------------------------------------------------------
(* CMWs: what is encoded is decoded                                        *)

\* The kinds of a JSON value exclude each other.
LEMMA StrKind == ASSUME NEW x PROVE /\ Str(x).str = x
                                    /\ \A k : Is(k, Str(x)) <=> k = "str"
BY DEF Str, Is
\* An array is an array only.
LEMMA ArrKind == ASSUME NEW x PROVE /\ Arr(x).arr = x
                                    /\ \A k : Is(k, Arr(x)) <=> k = "arr"
BY DEF Arr, Is
\* An object is an object only.
LEMMA ObjKind == ASSUME NEW x PROVE /\ Obj(x).obj = x
                                    /\ \A k : Is(k, Obj(x)) <=> k = "obj"
BY DEF Obj, Is
\* A number is a number only.
LEMMA NumKind ==
  ASSUME NEW sign, NEW whole, NEW frac
  PROVE  /\ Num(sign, whole, frac).num = [sign |-> sign, whole |-> whole, frac |-> frac]
         /\ \A k : Is(k, Num(sign, whole, frac)) <=> k = "num"
BY DEF Num, Is
\* null is null only.
LEMMA NullKind == \A k : Is(k, Null) <=> k = "null"
BY DEF Null, Is

\* A string is read as it is.
LEMMA StrIsString == ASSUME NEW x PROVE IsString(Str(x)) /\ AsString(Str(x)) = x
BY DEF IsString, AsString, Str, Is

\* Base64url keeps the bytes.
LEMMA Decoding ==
  ASSUME NEW b \in DOMAIN Base64
  PROVE  /\ Base64[b] \in Encoded /\ Decode(Base64[b]) = b
         /\ b # "" => Base64[b] # ""
<1>1. \A a \in DOMAIN Base64 : Base64[a] = Base64[b] => a = b
  BY Base64Assumption
<1>2. Decode(Base64[b]) = b
  BY <1>1 DEF Decode
<1>3. b # "" => Base64[b] # ""
  BY Base64Assumption
<1> QED BY <1>2, <1>3 DEF Encoded

\* The two forms of a CMW.
LEMMA RecordFields ==
  ASSUME NEW type, NEW value, NEW ind
  PROVE  RecordCMW(type, value, ind) =
           [Record |-> [Type |-> type, Value |-> value, Indicator |-> ind], Collection |-> NoCollection]
BY DEF RecordCMW, NoCMW
\* The fields of a collection.
LEMMA CollectionFields ==
  ASSUME NEW type, NEW members
  PROVE  CollectionCMW(type, members) =
           [Record |-> NoRecord, Collection |-> [Type |-> type, Members |-> members]]
BY DEF CollectionCMW, NoCMW

\* The fields of a result.
LEMMA ReadFields == ASSUME NEW c PROVE Read(c).ok /\ Read(c).v = c
<1>1. Read(c).ok
  BY Zenon DEF Read
<1>2. Read(c).v = c
  BY DEF Read
<1> QED BY <1>1, <1>2

\* An array of two, and one of three.
LEMMA TwoThree == 2 \in 2..3 /\ 3 \in 2..3 /\ 2 # 3
OBVIOUS
\* What parseCMWRecord makes of a record without an indicator.
LEMMA TwoFields ==
  ASSUME NEW fields, Len(fields) = 2,
         IsString(fields[1]), AsString(fields[1]) \in MediaTypes,
         IsString(fields[2]), AsString(fields[2]) \in Encoded \ {""}
  PROVE  parseCMWRecord(fields) =
           Read(RecordCMW(fields[1].str, Decode(fields[2].str), NoIndicator))
BY TwoThree, Zenon DEF parseCMWRecord
\* What parseCMWRecord makes of a record with an indicator that is not null.
LEMMA ThreeFields ==
  ASSUME NEW fields, Len(fields) = 3,
         IsString(fields[1]), AsString(fields[1]) \in MediaTypes,
         IsString(fields[2]), AsString(fields[2]) \in Encoded \ {""},
         isUint32(fields[3]), ~Is("null", fields[3])
  PROVE  parseCMWRecord(fields) =
           Read(RecordCMW(fields[1].str, Decode(fields[2].str), fields[3].num.whole))
BY TwoThree, Zenon DEF parseCMWRecord

\* An indicator is written as a number that isUint32 accepts.
LEMMA IndicatorNumber ==
  ASSUME NEW n \in 0..MaxIndicator, MaxIndicator \in Nat
  PROVE  /\ isUint32(Num(1, n, 0)) /\ ~Is("null", Num(1, n, 0))
         /\ Num(1, n, 0).num.whole = n
<1> DEFINE j == Num(1, n, 0)
<1>1. Is("num", j) /\ ~Is("null", j)
  BY DEF Num, Is
<1>2. j.num.sign = 1 /\ j.num.whole = n /\ j.num.frac = 0
  BY DEF Num
<1>3. n <= MaxIndicator
  OBVIOUS
<1> HIDE DEF j
<1>4. isUint32(j)
  BY <1>1, <1>2, <1>3 DEF isUint32
<1> QED BY <1>1, <1>2, <1>4 DEF j

\* A record with bytes.
LEMMA RecordRoundTrip ==
  ASSUME NEW c, NEW below, CMWType(c), c.Record # NoRecord, c.Collection = NoCollection,
         c.Record.Type \in MediaTypes, c.Record.Value # ""
  PROVE  \E fields : /\ marshalCMW(c, below) = Arr(fields)
                     /\ parseCMWRecord(fields) = Read(c)
<1> DEFINE r == c.Record
           head == <<Str(r.Type), Encode(r.Value)>>
           bits == Num(1, r.Indicator, 0)
<1>1. /\ c = [Record |-> r, Collection |-> NoCollection]
      /\ r \in [Type : STRING, Value : DOMAIN Base64, Indicator : {NoIndicator} \cup (0..MaxIndicator)]
  BY DEF CMWType
<1>2. /\ r = [Type |-> r.Type, Value |-> r.Value, Indicator |-> r.Indicator]
      /\ r.Value \in DOMAIN Base64
      /\ r.Indicator \in {NoIndicator} \cup (0..MaxIndicator)
  BY <1>1
<1> HIDE DEF r
<1>3. RecordCMW(r.Type, r.Value, r.Indicator) = c
  BY <1>1, <1>2, RecordFields
<1>4. /\ IsString(Str(r.Type)) /\ AsString(Str(r.Type)) \in MediaTypes /\ Str(r.Type).str = r.Type
      /\ IsString(Encode(r.Value)) /\ AsString(Encode(r.Value)) \in Encoded \ {""}
      /\ Decode(Encode(r.Value).str) = r.Value
  <2>1. /\ IsString(Encode(r.Value)) /\ AsString(Encode(r.Value)) = Base64[r.Value]
        /\ Encode(r.Value).str = Base64[r.Value]
    BY StrIsString, StrKind DEF Encode
  <2>2. r.Type \in MediaTypes /\ r.Value # ""
    BY DEF r
  <2> QED BY <1>2, <2>1, <2>2, Decoding, StrIsString, StrKind
<1>5. CASE r.Indicator = NoIndicator
  <2>1. marshalCMW(c, below) = Arr(head)
    BY <1>5 DEF marshalCMW, r
  <2>2. Len(head) = 2 /\ head[1] = Str(r.Type) /\ head[2] = Encode(r.Value)
    OBVIOUS
  <2> HIDE DEF head
  <2>3. parseCMWRecord(head) = Read(RecordCMW(r.Type, r.Value, NoIndicator))
    BY <1>4, <2>2, TwoFields
  <2> QED BY <1>3, <1>5, <2>1, <2>3
<1>6. CASE r.Indicator # NoIndicator
  <2> DEFINE fields == <<Str(r.Type), Encode(r.Value), bits>>
  <2>1. marshalCMW(c, below) = Arr(fields)
    BY <1>6 DEF marshalCMW, r
  <2>2. Len(fields) = 3 /\ fields[1] = Str(r.Type) /\ fields[2] = Encode(r.Value) /\ fields[3] = bits
    OBVIOUS
  <2>3. r.Indicator \in 0..MaxIndicator /\ MaxIndicator \in Nat
    BY <1>2, <1>6, CMWAssumption
  <2>4. /\ isUint32(bits) /\ ~Is("null", bits) /\ bits.num.whole = r.Indicator
    BY <2>3, IndicatorNumber
  <2> HIDE DEF fields, bits
  <2>5. parseCMWRecord(fields) = Read(RecordCMW(r.Type, r.Value, r.Indicator))
    BY <1>4, <2>2, <2>4, ThreeFields
  <2> QED BY <1>3, <2>1, <2>5
<1> QED BY <1>5, <1>6

\* c, with n levels to go, is read as it was written.
ReadsBack(n, c) ==
  c \in validate[n] /\ c \notin hollow[n] /\ encode[n][c] \in Documents =>
    parse[n][encode[n][c]] = Read(c)

\* What is left of the members once the type is set aside.
LEMMA LabelsOf ==
  ASSUME NEW labels, collectionTypeKey \notin labels, NEW typed \in {{}, {collectionTypeKey}}
  PROVE  (labels \cup typed) \ {collectionTypeKey} = labels
OBVIOUS

\* A collection whose members are read back.
LEMMA CollectionRoundTrip ==
  ASSUME NEW c, NEW below, NEW parsed, CMWType(c), c.Record = NoRecord, c.Collection # NoCollection,
         c.Collection.Type \in CollectionTypes \cup {""},
         DOMAIN c.Collection.Members # {}, collectionTypeKey \notin DOMAIN c.Collection.Members,
         \A l \in DOMAIN c.Collection.Members :
           parsed[below[c.Collection.Members[l]]] = Read(c.Collection.Members[l])
  PROVE  \E members : /\ marshalCMW(c, below) = Obj(members)
                      /\ parseCMWCollection(members, parsed) = Read(c)
<1> DEFINE col == c.Collection
           labels == DOMAIN col.Members
           typed == IF col.Type = "" THEN {} ELSE {collectionTypeKey}
           members == [l \in labels \cup typed |->
                         IF l \in typed THEN Str(col.Type) ELSE below[col.Members[l]]]
           type == IF collectionTypeKey \in DOMAIN members THEN members[collectionTypeKey] ELSE Str("")
<1>1. marshalCMW(c, below) = Obj(members)
  BY DEF marshalCMW
<1>2. /\ c = [Record |-> NoRecord, Collection |-> col]
      /\ col = [Type |-> col.Type, Members |-> col.Members]
      /\ col.Members = [l \in labels |-> col.Members[l]]
  BY DEF CMWType
<1>3. DOMAIN members \ {collectionTypeKey} = labels
  BY LabelsOf
<1>4. \A l \in labels : members[l] = below[col.Members[l]]
  OBVIOUS
<1>5. collectionTypeKey \in DOMAIN members <=> col.Type # ""
  OBVIOUS
<1>6. type = Str(col.Type)
  OBVIOUS
<1>7. IsString(type) /\ AsString(type) = col.Type
  BY <1>6, StrIsString
<1>8. \A l \in labels : parsed[members[l]] = Read(col.Members[l])
  BY <1>4
<1> HIDE DEF members, type, col, typed
<1>9. [l \in labels |-> parsed[members[l]].v] = col.Members
  <2>1. \A l \in labels : parsed[members[l]].v = col.Members[l]
    BY <1>8, ReadFields
  <2> QED BY <1>2, <2>1
<1>10. \A l \in labels : parsed[members[l]].ok
  BY <1>8, ReadFields
<1>11. collectionTypeKey \in DOMAIN members => IsString(type) /\ AsString(type) \in CollectionTypes
  BY <1>5, <1>7 DEF col
<1>12. labels # {}
  BY DEF col
<1>13. CollectionCMW(AsString(type), [l \in labels |-> parsed[members[l]].v]) = c
  BY <1>2, <1>7, <1>9, CollectionFields
<1>14. parseCMWCollection(members, parsed) = Read(c)
  BY <1>3, <1>10, <1>11, <1>12, <1>13 DEF parseCMWCollection, type
<1> QED BY <1>1, <1>14

\* One level more.
LEMMA ReadsBackStep ==
  ASSUME NEW n \in Nat, n + 1 \in Levels, \A c \in CMWs : ReadsBack(n, c), NEW c \in CMWs
  PROVE  ReadsBack(n + 1, c)
<1> SUFFICES ASSUME c \in validate[n+1], c \notin hollow[n+1], encode[n+1][c] \in Documents
             PROVE  parse[n+1][encode[n+1][c]] = Read(c)
  BY DEF ReadsBack
<1> DEFINE j == encode[n+1][c]
<1>1. validateCMW(c, validate[n]) /\ ~HollowCMW(c, hollow[n])
  BY ValidateUnfold, HollowUnfold DEF NextValid, NextHollow
<1>2. j = marshalCMW(c, encode[n]) /\ parse[n+1][j] = parseCMW(j, parse[n])
  <2>1. encode[n+1] = NextEncode(encode[n]) /\ parse[n+1] = NextParse(parse[n])
    BY EncodeUnfold, ParseUnfold
  <2>2. j = marshalCMW(c, encode[n])
    BY <2>1 DEF NextEncode
  <2> HIDE DEF j
  <2>3. j \in Documents
    BY DEF j
  <2> QED BY <2>1, <2>2, <2>3 DEF NextParse
<1>3. CMWType(c) /\ DocumentType(j)
  BY ValuesAssumption
<1> HIDE DEF j
<1>4. CASE c.Record # NoRecord
  <2>1. c.Collection = NoCollection /\ c.Record.Type \in MediaTypes /\ c.Record.Value # ""
    BY <1>1, <1>4 DEF validateCMW, HollowCMW
  <2>2. PICK fields : j = Arr(fields) /\ parseCMWRecord(fields) = Read(c)
    BY <1>2, <1>3, <1>4, <2>1, RecordRoundTrip
  <2>3. parseCMW(j, parse[n]) = parseCMWRecord(fields)
    BY <2>2, ArrKind DEF parseCMW
  <2> QED BY <1>2, <2>2, <2>3 DEF j
<1>5. CASE c.Record = NoRecord
  <2> DEFINE members == c.Collection.Members
  <2>1. /\ c.Collection # NoCollection
        /\ c.Collection.Type \in CollectionTypes \cup {""}
        /\ DOMAIN members # {} /\ collectionTypeKey \notin DOMAIN members
        /\ \A l \in DOMAIN members : members[l] \in validate[n]
        /\ \A l \in DOMAIN members : members[l] \notin hollow[n]
    BY <1>1, <1>5 DEF validateCMW, HollowCMW
  <2>2. \A l \in DOMAIN members : members[l] \in CMWs
    BY <1>3 DEF CMWType
  <2>3. \A l \in DOMAIN members : encode[n][members[l]] \in Documents
    <3> DEFINE typed == IF c.Collection.Type = "" THEN {} ELSE {collectionTypeKey}
               obj == [l \in DOMAIN members \cup typed |->
                         IF l \in typed THEN Str(c.Collection.Type) ELSE encode[n][members[l]]]
    <3>1. j = Obj(obj)
      BY <1>2, <1>5 DEF marshalCMW
    <3>2. \A l \in DOMAIN members : l \in DOMAIN obj /\ obj[l] = encode[n][members[l]]
      BY <2>1
    <3> HIDE DEF obj
    <3>3. j.obj = obj /\ Is("obj", j)
      BY <3>1, ObjKind
    <3>4. j # Null /\ ~Is("str", j) /\ ~Is("num", j) /\ ~Is("arr", j)
      BY <3>1, ObjKind, NullKind
    <3>5. obj \in [DOMAIN obj -> Documents]
      BY <1>3, <3>3, <3>4 DEF DocumentType
    <3> QED BY <3>2, <3>5
  <2>4. \A l \in DOMAIN members : parse[n][encode[n][members[l]]] = Read(members[l])
    BY <2>1, <2>2, <2>3 DEF ReadsBack
  <2>5. \E obj : marshalCMW(c, encode[n]) = Obj(obj) /\ parseCMWCollection(obj, parse[n]) = Read(c)
    <3>1. PICK below, parsed : below = encode[n] /\ parsed = parse[n]
      OBVIOUS
    <3>2. \A l \in DOMAIN c.Collection.Members :
            parsed[below[c.Collection.Members[l]]] = Read(c.Collection.Members[l])
      BY <2>4, <3>1
    <3>3. \E obj : marshalCMW(c, below) = Obj(obj) /\ parseCMWCollection(obj, parsed) = Read(c)
      BY <1>3, <1>5, <2>1, <3>2, CollectionRoundTrip
    <3> QED BY <3>1, <3>3
  <2>5a. PICK obj : j = Obj(obj) /\ parseCMWCollection(obj, parse[n]) = Read(c)
    BY <1>2, <2>5
  <2>6. parseCMW(j, parse[n]) = parseCMWCollection(obj, parse[n])
    BY <2>5a, ObjKind DEF parseCMW
  <2> QED BY <1>2, <2>5a, <2>6 DEF j
<1> QED BY <1>4, <1>5

\* A valid CMW whose records have bytes is what ParseCMW makes of its encoding.
LEMMA CMWRoundTrip ==
  ASSUME NEW c, Validate(c), ~Hollow(c)
  PROVE  ParseCMW(marshal(c)) = Read(c)
<1>0. MaxDepth \in Nat /\ MaxDepth + 1 \in Nat /\ MaxDepth + 1 \in Levels
  BY CMWDepth DEF Levels
<1> DEFINE N == {n \in Nat : n \in Levels => \A d \in CMWs : ReadsBack(n, d)}
<1>1. 0 \in N
  BY ValidateUnfold DEF ReadsBack
<1>2. ASSUME NEW n \in N, n + 1 \in Levels PROVE \A d \in CMWs : ReadsBack(n + 1, d)
  <2>1. n \in Nat /\ n \in Levels
    BY <1>2, CMWDepth DEF Levels
  <2> QED BY <1>2, <2>1, ReadsBackStep
<1>3. \A n \in N : n + 1 \in N
  BY <1>2
<1> HIDE DEF N
<1>4. N \in SUBSET Nat
  BY DEF N
<1>5. N = Nat
  BY <1>1, <1>3, <1>4, AllNaturals
<1>6. \A d \in CMWs : ReadsBack(MaxDepth + 1, d)
  BY <1>0, <1>5 DEF N
<1>7. c \in validate[MaxDepth+1] /\ c \notin hollow[MaxDepth+1]
  BY DEF Validate, validCMWs, Hollow, hollowCMWs
<1>8. c \in CMWs
  BY <1>0, <1>7, CMWDepth, ValidateUnfold DEF NextValid
<1>9. encode[MaxDepth+1][c] \in Documents
  BY <1>8, ValuesAssumption DEF marshal
<1> QED BY <1>6, <1>7, <1>8, <1>9 DEF ReadsBack, ParseCMW, marshal

-----------------------------------------------------------------------------
(* Dates                                                                   *)

\* Quotient and remainder.
LEMMA DivMod ==
  ASSUME NEW t \in Int, NEW d \in Nat \ {0}
  PROVE  \E q, r \in Int : q = t \div d /\ r = t % d /\ t = q * d + r /\ 0 <= r /\ r < d
<1>1. t \div d \in Int /\ t % d \in 0..(d-1)
  OBVIOUS
<1>2. PICK q, r : q = t \div d /\ r = t % d
  OBVIOUS
<1>3. q \in Int /\ r \in Int /\ 0 <= r /\ r < d
  BY <1>1, <1>2
<1>4. t - r = q * d
  BY <1>2, <1>3, SMT
<1>5. q * d \in Int
  BY <1>3
<1>6. t = q * d + r
  BY <1>3, <1>4, <1>5
<1> QED BY <1>2, <1>3, <1>6

\* What the provers need of multiplication.
LEMMA Distribute ==
  /\ \A a, b \in Int : a * b \in Int /\ (-a) * b = -(a * b) /\ (a + 1) * b = a * b + b
  /\ \A a \in Int : 1 * a = a /\ (-1) * a = -a
OBVIOUS

\* The grids of time are positive.
LEMMA DateConstants == Second \in Nat \ {0} /\ Coarse \in Nat \ {0} /\ Exact \in Nat
BY ClaimsAssumption

\* The number that a time is written as has its value.
LEMMA MarshalledValue ==
  ASSUME NEW t \in Int
  PROVE  \E sign, whole, frac \in Int :
           MarshalDate(t) = Num(sign, whole, frac) /\ sign * (whole * Second + frac) = t
<1>1. PICK q \in Int, r \in Int :
        q = t \div Second /\ r = t % Second /\ t = q * Second + r /\ 0 <= r /\ r < Second
  BY DivMod, DateConstants
<1>2. q * Second \in Int /\ Second \in Int
  BY <1>1, DateConstants, Distribute
<1>3. CASE q >= 0
  <2>1. MarshalDate(t) = Num(1, q, r)
    BY <1>1, <1>3 DEF MarshalDate
  <2>2. 1 * (q * Second + r) = t
    BY <1>1, <1>2
  <2> QED BY <1>1, <2>1, <2>2
<1>4. CASE q < 0 /\ r = 0
  <2>1. MarshalDate(t) = Num(-1, -q, 0)
    BY <1>1, <1>4 DEF MarshalDate
  <2>2. (-q) * Second = -(q * Second)
    BY <1>1, <1>2, Distribute
  <2>3. (-1) * ((-q) * Second + 0) = t
    BY <1>1, <1>2, <1>4, <2>2
  <2> QED BY <1>1, <2>1, <2>3
<1>5. CASE q < 0 /\ r # 0
  <2>1. MarshalDate(t) = Num(-1, -(q + 1), Second - r)
    BY <1>1, <1>5 DEF MarshalDate
  <2>2. (-(q + 1)) * Second = -(q * Second + Second)
    BY <1>1, <1>2, Distribute
  <2>3. (-1) * ((-(q + 1)) * Second + (Second - r)) = t
    BY <1>1, <1>2, <2>2
  <2> QED BY <1>1, <1>2, <2>1, <2>3
<1> QED BY <1>1, <1>3, <1>4, <1>5

\* float64 is at most half a step away.
LEMMA FloatNear ==
  ASSUME NEW t \in Int
  PROVE  Float(t) \in Int /\ Blur(t) \in Nat
         /\ (t # NoDate => t - Blur(t) <= Float(t) /\ Float(t) <= t + Blur(t))
<1>1. PICK q \in Int, r \in Int :
        q = t \div Coarse /\ r = t % Coarse /\ t = q * Coarse + r /\ 0 <= r /\ r < Coarse
  BY DivMod, DateConstants
<1>2. q * Coarse \in Int /\ Coarse \in Int /\ (q + 1) * Coarse = q * Coarse + Coarse
  BY <1>1, DateConstants, Distribute
<1>3. PICK half \in Int, odd \in Int :
        half = Coarse \div 2 /\ odd = Coarse % 2 /\ Coarse = half * 2 + odd /\ 0 <= odd /\ odd < 2
  BY DivMod, DateConstants
<1>4. half \in Nat
  BY <1>2, <1>3, DateConstants
<1>5. Blur(t) = IF t # NoDate /\ Far(t) THEN half ELSE 0
  BY <1>3 DEF Blur
<1>6. CASE ~Far(t)
  <2>1. Float(t) = t
    BY <1>6 DEF Float
  <2> QED BY <1>5, <1>6, <2>1
<1>7. CASE Far(t)
  <2>1. \/ 2 * r <= Coarse /\ Float(t) = q * Coarse
        \/ 2 * r >= Coarse /\ Float(t) = (q + 1) * Coarse
    BY <1>1, <1>2, <1>7 DEF Float
  <2>2. Float(t) \in Int /\ t - half <= Float(t) /\ Float(t) <= t + half
    BY <1>1, <1>2, <1>3, <2>1
  <2> QED BY <1>4, <1>5, <1>7, <2>2
<1> QED BY <1>6, <1>7

\* What a time is written as is read as the nearest float64, if that is in range.
LEMMA NumberRead ==
  ASSUME NEW j, Is("num", j), NEW f \in Int, Value(j.num) = f
  PROVE  UnmarshalDate(j) = f
<1>0. ~Is("null", j)
  BY DEF Is
<1>1. CASE f >= 0
  <2>1. PICK q \in Int, r \in Int :
          q = f \div Second /\ r = f % Second /\ f = q * Second + r /\ 0 <= r /\ r < Second
    BY DivMod, DateConstants
  <2>2. UnmarshalDate(j) = 1 * ((1 * f) \div Second) * Second + 1 * ((1 * f) % Second)
    BY <1>0, <1>1 DEF UnmarshalDate
  <2>3. 1 * f = f /\ 1 * q = q /\ 1 * r = r
    BY <2>1
  <2> QED BY <2>1, <2>2, <2>3
<1>2. CASE f < 0
  <2>0. -f \in Int /\ (-1) * f = -f
    BY Distribute
  <2>1. PICK q \in Int, r \in Int :
          q = (-f) \div Second /\ r = (-f) % Second /\ -f = q * Second + r /\ 0 <= r /\ r < Second
    BY <2>0, DivMod, DateConstants
  <2>2. UnmarshalDate(j) = (-1) * (((-1) * f) \div Second) * Second + (-1) * (((-1) * f) % Second)
    BY <1>0, <1>2 DEF UnmarshalDate
  <2>3. (-1) * q = -q /\ (-1) * r = -r /\ (-q) * Second = -(q * Second) /\ q * Second \in Int
    BY <2>1, Distribute, DateConstants
  <2> QED BY <2>0, <2>1, <2>2, <2>3
<1> QED BY <1>1, <1>2

\* A date comes back as the float64 nearest to it.
LEMMA DateRoundTrip ==
  ASSUME NEW t \in Int
  PROVE  /\ Is("num", MarshalDate(t)) /\ Value(MarshalDate(t).num) = Float(t)
         /\ UnmarshalDate(MarshalDate(t)) = Float(t)
<1>1. PICK sign, whole, frac \in Int :
        MarshalDate(t) = Num(sign, whole, frac) /\ sign * (whole * Second + frac) = t
  BY MarshalledValue
<1>2. Is("num", MarshalDate(t)) /\ MarshalDate(t).num = [sign |-> sign, whole |-> whole, frac |-> frac]
  BY <1>1, NumKind
<1>3. Value(MarshalDate(t).num) = Float(t)
  BY <1>1, <1>2 DEF Value
<1> QED BY <1>2, <1>3, NumberRead, FloatNear

\* The two ends of the range, and the value that stands for no time, below both.
LEMMA DateRange ==
  /\ MinDate * Second \in Int /\ MaxDate * Second \in Int /\ NoDate \in Int
  /\ NoDate < MinDate * Second
<1>1. MinDate \in Int /\ MaxDate \in Int /\ Second \in Nat \ {0}
  BY ClaimsAssumption
<1>2. (MinDate - 100) * Second = MinDate * Second - 100 * Second
  BY <1>1, SMT
<1> QED BY <1>1, <1>2, SMT DEF NoDate

-----------------------------------------------------------------------------
(* Claims                                                                  *)

\* An audience is read as it was written.
LEMMA AudienceRoundTrip ==
  ASSUME NEW aud \in Seq(STRING), aud # <<>>
  PROVE  /\ AudienceOK(MarshalAudience(aud))
         /\ UnmarshalAudience(MarshalAudience(aud)) = aud
<1>1. CASE Len(aud) = 1
  <2>1. MarshalAudience(aud) = Str(aud[1])
    BY <1>1 DEF MarshalAudience
  <2>2. UnmarshalAudience(Str(aud[1])) = <<aud[1]>>
    BY StrKind DEF UnmarshalAudience
  <2>3. aud = <<aud[1]>>
    BY <1>1
  <2>4. AudienceOK(Str(aud[1]))
    BY StrIsString DEF AudienceOK
  <2> QED BY <2>1, <2>2, <2>3, <2>4
<1>2. CASE Len(aud) # 1
  <2> DEFINE arr == [i \in DOMAIN aud |-> Str(aud[i])]
  <2>1. MarshalAudience(aud) = Arr(arr)
    BY <1>2 DEF MarshalAudience
  <2>2. DOMAIN arr = DOMAIN aud /\ \A i \in DOMAIN aud : IsString(arr[i]) /\ AsString(arr[i]) = aud[i]
    BY StrIsString
  <2>3. aud = [i \in DOMAIN aud |-> aud[i]]
    OBVIOUS
  <2> HIDE DEF arr
  <2>4. AudienceOK(Arr(arr))
    BY <2>2, ArrKind DEF AudienceOK
  <2>5. UnmarshalAudience(Arr(arr)) = [i \in DOMAIN arr |-> AsString(arr[i])]
    BY ArrKind DEF UnmarshalAudience
  <2> QED BY <2>1, <2>2, <2>3, <2>4, <2>5
<1> QED BY <1>1, <1>2

\* One member of the object, as it is written and as it is read.
Written(f, c) ==
  CASE f \in Strings -> Str(c[f])
    [] f \in Dates -> MarshalDate(c[f])
    [] f = "aud" -> MarshalAudience(c.aud)
    [] f = "cmw" -> marshal(c.cmw)
Readable(f, j) ==
  CASE f \in Strings -> IsString(j)
    [] f \in Dates -> DateOK(j)
    [] f = "aud" -> AudienceOK(j)
    [] f = "cmw" -> Is("null", j) \/ ParseCMW(j).ok
Content(f, j) ==
  CASE f \in Strings -> AsString(j)
    [] f \in Dates -> UnmarshalDate(j)
    [] f = "aud" -> UnmarshalAudience(j)
    [] f = "cmw" -> IF Is("null", j) THEN NoCMW ELSE ParseCMW(j).v

\* A claims struct is encoded as an object with the members that are emitted.
LEMMA MarshalMembers ==
  ASSUME NEW type, NEW c
  PROVE  /\ IsObject(Marshal(type, c))
         /\ Marshal(type, c) = Obj(Marshal(type, c).obj)
         /\ DOMAIN Marshal(type, c).obj = Emitted(type, c)
         /\ \A f \in Emitted(type, c) : Marshal(type, c).obj[f] = Written(f, c)
<1> DEFINE m == [f \in Emitted(type, c) |-> Written(f, c)]
<1>1. Marshal(type, c) = Obj(m)
  BY DEF Marshal, Written
<1>2. DOMAIN m = Emitted(type, c) /\ \A f \in Emitted(type, c) : m[f] = Written(f, c)
  OBVIOUS
<1> HIDE DEF m
<1> QED BY <1>1, <1>2, ObjKind DEF IsObject

\* An object is decoded when each member that the struct has can be read.
LEMMA CanUnmarshalMembers ==
  ASSUME NEW type, NEW j
  PROVE  CanUnmarshal(type, j) <=>
           IsObject(j) /\ \A f \in Fields[type] \cap DOMAIN j.obj : Readable(f, j.obj[f])
BY DEF CanUnmarshal, Readable

\* Into a fresh struct, each field is read from its member or stays zero.
LEMMA UnmarshalMembers ==
  ASSUME NEW type, NEW j
  PROVE  /\ DOMAIN Unmarshal(type, j, ZeroClaims) = DOMAIN ZeroClaims
         /\ \A f \in DOMAIN ZeroClaims :
              Unmarshal(type, j, ZeroClaims)[f] =
                IF f \notin Fields[type] \cap DOMAIN j.obj THEN ZeroClaims[f]
                ELSE Content(f, j.obj[f])
BY DEF Unmarshal, Content

\* The fields, and which type has which.
LEMMA FieldNames ==
  /\ DOMAIN ZeroClaims = Strings \cup Dates \cup {"aud", "cmw"}
  /\ DOMAIN Fields = {"RegisteredClaims", "AccessTokenClaims", "CMWClaims"}
  /\ \A type \in DOMAIN Fields : /\ Dates \cup {"aud", "iss", "sub", "jti"} \subseteq Fields[type]
                                 /\ Fields[type] \subseteq DOMAIN ZeroClaims
  /\ Strings = {"iss", "sub", "jti", "client_id"} /\ Dates = {"exp", "nbf", "iat"}
  /\ registered = {"iss", "sub", "jti", "exp", "nbf", "iat", "aud"}
  /\ Fields["RegisteredClaims"] = registered
BY DEF ZeroClaims, Strings, Dates, Fields, registered

\* The zero values of a claims struct.
LEMMA ZeroFields ==
  /\ \A f \in Strings : ZeroClaims[f] = ""
  /\ \A f \in Dates : ZeroClaims[f] = NoDate
  /\ ZeroClaims["aud"] = NilAud /\ ZeroClaims["cmw"] = NoCMW
BY DEF ZeroClaims, Strings, Dates

\* The types of the fields.
LEMMA ClaimsFields ==
  ASSUME NEW c, ClaimsType(c)
  PROVE  /\ DOMAIN c = DOMAIN ZeroClaims
         /\ \A f \in Strings : c[f] \in STRING
         /\ \A f \in Dates : c[f] \in Int
         /\ c.aud \in Seq(STRING)
BY DEF ClaimsType, ZeroClaims, Strings, Dates

\* Which case is which.
LEMMA FieldCases ==
  /\ \A f \in Strings : /\ \A c : Written(f, c) = Str(c[f])
                        /\ \A j : Readable(f, j) <=> IsString(j)
                        /\ \A j : Content(f, j) = AsString(j)
  /\ \A f \in Dates : /\ \A c : Written(f, c) = MarshalDate(c[f])
                      /\ \A j : Readable(f, j) <=> DateOK(j)
                      /\ \A j : Content(f, j) = UnmarshalDate(j)
  /\ \A c : Written("aud", c) = MarshalAudience(c.aud)
  /\ \A j : (Readable("aud", j) <=> AudienceOK(j)) /\ Content("aud", j) = UnmarshalAudience(j)
  /\ \A c : Written("cmw", c) = marshal(c.cmw)
  /\ \A j : /\ Readable("cmw", j) <=> Is("null", j) \/ ParseCMW(j).ok
            /\ Content("cmw", j) = IF Is("null", j) THEN NoCMW ELSE ParseCMW(j).v
<1>0. Strings \cap Dates = {} /\ {"aud", "cmw"} \cap (Strings \cup Dates) = {}
  BY DEF Strings, Dates
<1>1. \A f \in Strings : /\ \A c : Written(f, c) = Str(c[f])
                         /\ \A j : Readable(f, j) <=> IsString(j)
                         /\ \A j : Content(f, j) = AsString(j)
  BY <1>0 DEF Written, Readable, Content
<1>2. \A f \in Dates : /\ \A c : Written(f, c) = MarshalDate(c[f])
                       /\ \A j : Readable(f, j) <=> DateOK(j)
                       /\ \A j : Content(f, j) = UnmarshalDate(j)
  BY <1>0 DEF Written, Readable, Content
<1>3. /\ \A c : Written("aud", c) = MarshalAudience(c.aud)
      /\ \A j : (Readable("aud", j) <=> AudienceOK(j)) /\ Content("aud", j) = UnmarshalAudience(j)
  BY <1>0 DEF Written, Readable, Content
<1>4. /\ \A c : Written("cmw", c) = marshal(c.cmw)
      /\ \A j : /\ Readable("cmw", j) <=> Is("null", j) \/ ParseCMW(j).ok
                /\ Content("cmw", j) = IF Is("null", j) THEN NoCMW ELSE ParseCMW(j).v
  BY <1>0 DEF Written, Readable, Content
<1> QED BY <1>1, <1>2, <1>3, <1>4

\* A CMW is written as an array or an object.
LEMMA MarshalledKind ==
  ASSUME NEW c, NEW below
  PROVE  \E x : marshalCMW(c, below) = Arr(x) \/ marshalCMW(c, below) = Obj(x)
BY DEF marshalCMW

\* A valid CMW is validated and encoded with MaxDepth levels left for its members.
LEMMA MarshalUnfold ==
  ASSUME NEW c, Validate(c)
  PROVE  /\ c \in CMWs /\ validateCMW(c, validate[MaxDepth])
         /\ marshal(c) = marshalCMW(c, encode[MaxDepth])
<1>0. MaxDepth \in Nat /\ MaxDepth + 1 \in Levels
  <2>1. MaxDepth \in Nat
    BY CMWDepth
  <2> QED BY <2>1 DEF Levels
<1>1. c \in NextValid(validate[MaxDepth])
  BY <1>0, ValidateUnfold DEF Validate, validCMWs
<1>2. c \in CMWs /\ validateCMW(c, validate[MaxDepth])
  BY <1>1 DEF NextValid
<1>3. encode[MaxDepth+1] = NextEncode(encode[MaxDepth])
  BY <1>0, EncodeUnfold
<1> QED BY <1>2, <1>3 DEF NextEncode, marshal

\* So are the members of a collection, and neither is a string, a number or null.
LEMMA MarshalNotPlain ==
  ASSUME NEW c, Validate(c)
  PROVE  ~Is("null", marshal(c)) /\ ~Is("str", marshal(c)) /\ ~Is("num", marshal(c))
<1>1. PICK x : marshal(c) = Arr(x) \/ marshal(c) = Obj(x)
  BY MarshalUnfold, MarshalledKind
<1> QED BY <1>1, ArrKind, ObjKind

\* A member of an encoded collection is an array or an object.
LEMMA MemberNotPlain ==
  ASSUME NEW c, Validate(c), IsObject(marshal(c)), NEW f \in DOMAIN marshal(c).obj, f # collectionTypeKey
  PROVE  ~Is("null", marshal(c).obj[f]) /\ ~Is("str", marshal(c).obj[f]) /\ ~Is("num", marshal(c).obj[f])
<1> DEFINE col == c.Collection
           typed == IF col.Type = "" THEN {} ELSE {collectionTypeKey}
           members == [label \in DOMAIN col.Members \cup typed |->
                         IF label \in typed THEN Str(col.Type) ELSE encode[MaxDepth][col.Members[label]]]
<1>0. MaxDepth \in Nat
  BY CMWDepth
<1>1. validateCMW(c, validate[MaxDepth]) /\ marshal(c) = marshalCMW(c, encode[MaxDepth])
  BY MarshalUnfold
<1>2. c.Record = NoRecord
  <2> SUFFICES ASSUME c.Record # NoRecord PROVE FALSE
    OBVIOUS
  <2>1. \E x : marshal(c) = Arr(x)
    BY <1>1 DEF marshalCMW
  <2> QED BY <2>1, ArrKind DEF IsObject
<1>3. marshal(c) = Obj(members)
  BY <1>1, <1>2 DEF marshalCMW
<1>4. DOMAIN members = DOMAIN col.Members \cup typed
  OBVIOUS
<1>5. f \in DOMAIN col.Members /\ members[f] = encode[MaxDepth][col.Members[f]] /\ f \in DOMAIN members
  <2>1. f \in DOMAIN members
    BY <1>3, ObjKind
  <2> QED BY <2>1
<1>6. marshal(c).obj[f] = encode[MaxDepth][col.Members[f]]
  <2> HIDE DEF members
  <2>1. marshal(c).obj = members
    BY <1>3, ObjKind
  <2> QED BY <1>5, <2>1
<1>7. col.Members[f] \in validate[MaxDepth]
  <2>1. c.Collection # NoCollection
    BY <1>1, <1>2 DEF validateCMW
  <2> QED BY <1>1, <1>5, <2>1 DEF validateCMW
<1> HIDE DEF col, members, typed
<1>8. PICK n \in Nat : MaxDepth = n + 1
  <2>1. MaxDepth # 0
    BY <1>7, ValidateUnfold
  <2>2. MaxDepth - 1 \in Nat /\ MaxDepth = (MaxDepth - 1) + 1
    BY <1>0, <2>1
  <2> QED BY <2>2
<1>9. n + 1 \in Levels
  BY <1>8 DEF Levels
<1>10. col.Members[f] \in CMWs
  BY <1>7, <1>8, <1>9, ValidateUnfold DEF NextValid
<1>11. encode[MaxDepth][col.Members[f]] = marshalCMW(col.Members[f], encode[n])
  BY <1>8, <1>9, <1>10, EncodeUnfold DEF NextEncode
<1>12. PICK x : marshal(c).obj[f] = Arr(x) \/ marshal(c).obj[f] = Obj(x)
  BY <1>6, <1>11, MarshalledKind
<1> QED BY <1>12, ArrKind, ObjKind

\* Each claim is read as it was written.
LEMMA StringRead ==
  ASSUME NEW f \in Strings, NEW c
  PROVE  Readable(f, Written(f, c)) /\ Content(f, Written(f, c)) = c[f]
BY FieldCases, StrIsString

\* A date member is read as its float64, when that is in the range that is decoded.
LEMMA DateRead ==
  ASSUME NEW f \in Dates, NEW c, c[f] \in Int
  PROVE  /\ Content(f, Written(f, c)) = Float(c[f])
         /\ Readable(f, Written(f, c)) <=>
              MinDate * Second <= Float(c[f]) /\ Float(c[f]) <= MaxDate * Second
<1>1. /\ Is("num", MarshalDate(c[f])) /\ Value(MarshalDate(c[f]).num) = Float(c[f])
      /\ UnmarshalDate(MarshalDate(c[f])) = Float(c[f])
  BY DateRoundTrip
<1>2. ~Is("null", MarshalDate(c[f]))
  BY <1>1 DEF Is
<1>3. Written(f, c) = MarshalDate(c[f])
  BY FieldCases
<1>4. Content(f, Written(f, c)) = UnmarshalDate(MarshalDate(c[f]))
  BY <1>3, FieldCases
<1>5. Readable(f, Written(f, c)) <=> DateOK(MarshalDate(c[f]))
  BY <1>3, FieldCases
<1> QED BY <1>1, <1>2, <1>4, <1>5 DEF DateOK

\* An audience that was emitted is read as it was.
LEMMA AudienceRead ==
  ASSUME NEW c, c.aud \in Seq(STRING), c.aud # <<>>
  PROVE  Readable("aud", Written("aud", c)) /\ Content("aud", Written("aud", c)) = c.aud
BY FieldCases, AudienceRoundTrip

\* A CMW member that can be read is read as it was.
LEMMA CMWRead ==
  ASSUME NEW c, Validate(c.cmw), ~Hollow(c.cmw)
  PROVE  Readable("cmw", Written("cmw", c)) /\ Content("cmw", Written("cmw", c)) = c.cmw
<1>1. ParseCMW(marshal(c.cmw)) = Read(c.cmw)
  BY CMWRoundTrip
<1>2. ParseCMW(marshal(c.cmw)).ok /\ ParseCMW(marshal(c.cmw)).v = c.cmw
  BY <1>1, ReadFields
<1>3. ~Is("null", marshal(c.cmw))
  BY MarshalNotPlain
<1>4. Written("cmw", c) = marshal(c.cmw)
  BY FieldCases
<1>5. Readable("cmw", Written("cmw", c))
  BY <1>2, <1>4, FieldCases
<1>6. Content("cmw", Written("cmw", c)) = ParseCMW(marshal(c.cmw)).v
  BY <1>3, <1>4, FieldCases
<1> QED BY <1>2, <1>5, <1>6

-----------------------------------------------------------------------------
(* Keys                                                                    *)

\* What every parser makes sure of.
KeyMade(k) ==
  /\ k.kty \in {"oct", "EC", "RSA", "OKP"} /\ k.grade \in Nat /\ k.pub \notin {"nobody", "neither"}
  /\ k.kty = "oct" => Consistent(k)

\* A key that a parser accepts is of a known type and has a holder; a secret is one.
LEMMA ParsedKey ==
  ASSUME NEW b, BlobType(b), parsePrivateKey(b) # BadKey
  PROVE  KeyMade(parsePrivateKey(b))
<1> DEFINE k == parsePrivateKey(b)
<1>1. /\ Parsed(b).kty = b.kty /\ Parsed(b).grade = b.grade
      /\ Parsed(b).priv = b.priv /\ Parsed(b).pub = b.pub
      /\ Derived(b).kty = b.kty /\ Derived(b).grade = b.grade
      /\ Derived(b).priv = b.priv /\ Derived(b).pub = b.priv
  BY DEF Derived, Parsed
<1>2. k \in {Parsed(b), Derived(b)}
  BY DEF parsePrivateKey, parseDER, ParseOpenSSHPrivateKey, BlobType
<1>3. b.kty \in {"oct", "EC", "RSA", "OKP"} /\ (b.kty = "oct" => b.format = "secret")
  BY DEF parsePrivateKey, parseDER, ParseOpenSSHPrivateKey, BlobType
<1> HIDE DEF k
<1>4. k.kty = b.kty /\ k.grade = b.grade /\ k.priv = b.priv /\ k.pub \in {b.priv, b.pub}
  BY <1>1, <1>2
<1>5. k.pub \notin {"nobody", "neither"} /\ k.grade \in Nat
  BY <1>4 DEF BlobType
<1>6. k.kty = "oct" => Consistent(k)
  BY <1>3, <1>4 DEF BlobType, Consistent
<1> QED BY <1>3, <1>4, <1>5, <1>6 DEF KeyMade, k

\* The JWK of a public key before the application has set anything.
LEMMA PublishedKey ==
  ASSUME NEW k, NEW kid
  PROVE  LET j == asKey(FromPublicKey(k, kid)) IN
         /\ j.kty = k.kty /\ j.grade = k.grade /\ j.id = k.pub
         /\ j.use = "" /\ j.ops = {} /\ j.alg = ""
BY DEF asKey, FromPublicKey

\* The algorithms by type of key.
LEMMA FamilyFields ==
  /\ \A alg \in FamilyHMAC :
       alg \in DOMAIN Family /\ Family[alg].kty = "oct" /\ Family[alg].grade \in {32, 48, 64}
  /\ \A alg \in FamilyECDSA :
       alg \in DOMAIN Family /\ Family[alg].kty = "EC" /\ Family[alg].grade \in {256, 384, 521}
  /\ \A alg \in FamilyRSAPSS :
       alg \in DOMAIN Family /\ Family[alg].kty = "RSA" /\ Family[alg].grade = 2
  /\ "Ed25519" \in DOMAIN Family /\ Family["Ed25519"].kty = "OKP" /\ Family["Ed25519"].grade = 1
BY DEF Family, Algorithms, FamilyHMAC, FamilyECDSA, FamilyRSAPSS, FamilyRSAPKCS1, FamilyEdDSA

\* Grades that are high enough.
LEMMA Grades ==
  /\ \A g \in Nat : \A least \in {32, 48, 64} : ~(g < least) => g # 0
  /\ \A g \in {256, 384, 521} : g # 0 /\ ~(g < g)
  /\ \A g \in Nat : g # 0 => ~(g < 1)
OBVIOUS

\* What a verifier asks of a key on which nothing is set.
Plain(j) == j.use = "" /\ j.ops = {} /\ j.alg = ""
\* A JWK without restrictions, of the type and size of an algorithm, verifies it.
LEMMA PlainVerifies ==
  ASSUME NEW j, Plain(j), NEW alg \in DOMAIN Family, j.kty = Family[alg].kty, j.grade # 0,
         ~(j.grade < Family[alg].grade), j.kty = "EC" => j.grade = Family[alg].grade,
         j.kty = "RSA" => ~(j.grade > MaxRSA)
  PROVE  verifierForAlg(j, alg) = {}
<1>1. permitsVerify(j, alg)
  BY DEF Plain, permitsVerify
<1> QED BY <1>1 DEF verifierForAlg

\* A constructor that accepts a key gives it an algorithm that the key is good for.
LEMMA SignerGrade ==
  ASSUME NEW k, KeyMade(k), NEW alg, NEW kid, signerError(alg, k) = {}
  PROVE  LET a == signerFor(alg, k, kid).alg IN
         /\ a \in DOMAIN Family /\ k.kty = Family[a].kty /\ k.grade # 0
         /\ ~(k.grade < Family[a].grade) /\ (k.kty = "EC" => k.grade = Family[a].grade)
         /\ (k.kty = "RSA" => ~(k.grade > MaxRSA))
<1> DEFINE a == signerFor(alg, k, kid).alg
<1>0. k.grade \in Nat
  BY DEF KeyMade
<1>1. a = IF k.kty = "OKP" THEN "Ed25519" ELSE alg
  BY DEF signerFor
<1> HIDE DEF a
<1>3. CASE k.kty = "oct"
  <2>1. NewHMACSigner(alg, k) = {}
    BY <1>3 DEF signerError
  <2>2. alg \in FamilyHMAC
    BY <2>1 DEF NewHMACSigner
  <2>3. ~(k.grade < Family[alg].grade)
    BY <2>1 DEF NewHMACSigner
  <2>4. alg \in DOMAIN Family /\ Family[alg].kty = "oct" /\ Family[alg].grade \in {32, 48, 64}
    BY <2>2, FamilyFields
  <2>5. k.grade # 0
    BY <1>0, <2>3, <2>4, Grades
  <2> QED BY <1>1, <1>3, <2>3, <2>4, <2>5 DEF a
<1>4. CASE k.kty = "EC"
  <2>1. NewECDSASigner(alg, k) = {}
    BY <1>4 DEF signerError
  <2>2. alg \in FamilyECDSA
    BY <2>1 DEF NewECDSASigner
  <2>3. alg \in DOMAIN Family /\ Family[alg].kty = "EC" /\ Family[alg].grade \in {256, 384, 521}
    BY <2>2, FamilyFields
  <2>4. k.grade = Family[alg].grade
    BY <2>1, <2>2 DEF NewECDSASigner
  <2>5. k.grade # 0 /\ ~(k.grade < Family[alg].grade)
    BY <2>3, <2>4, Grades
  <2> QED BY <1>1, <1>4, <2>3, <2>4, <2>5 DEF a
<1>5. CASE k.kty = "RSA"
  <2>1. NewRSAPSSSigner(alg, k) = {}
    BY <1>5 DEF signerError
  <2>2. /\ alg \in FamilyRSAPSS /\ k.grade # 0 /\ ~(k.grade < Family[alg].grade)
        /\ ~(k.grade > MaxRSA)
    BY <2>1 DEF NewRSAPSSSigner
  <2>3. alg \in DOMAIN Family /\ Family[alg].kty = "RSA"
    BY <2>2, FamilyFields
  <2> QED BY <1>1, <1>5, <2>2, <2>3 DEF a
<1>6. CASE k.kty = "OKP"
  <2>1. k.grade # 0
    BY <1>6 DEF signerError, NewEd25519Signer
  <2>2. "Ed25519" \in DOMAIN Family /\ Family["Ed25519"].kty = "OKP" /\ Family["Ed25519"].grade = 1
    BY FamilyFields
  <2>3. ~(k.grade < 1)
    BY <1>0, <2>1, Grades, Zenon
  <2> QED BY <1>1, <1>6, <2>1, <2>2, <2>3 DEF a
<1> QED BY <1>3, <1>4, <1>5, <1>6 DEF KeyMade, a

\* And but for Ed25519 it has made sure that the two halves belong together.
LEMMA SignsAsItself ==
  ASSUME NEW k, KeyMade(k), NEW alg, NEW kid, signerError(alg, k) = {}
  PROVE  signerFor(alg, k, kid).by = k.pub <=> (k.kty = "OKP" => k.priv = k.pub)
<1>1. k.kty # "OKP" => Consistent(k)
  BY DEF KeyMade, signerError, NewECDSASigner, NewRSAPSSSigner, Consistent
<1>2. Consistent(k) <=> (k.kty = "OKP" => k.priv = k.pub)
  BY <1>1 DEF Consistent
<1>3. signerFor(alg, k, kid).by = IF Consistent(k) THEN k.pub ELSE "neither"
  BY DEF signerFor
<1>4. k.pub # "neither"
  BY DEF KeyMade
<1> QED BY <1>2, <1>3, <1>4

\* A set of at most one element has no two.
LEMMA AtMostOne ==
  ASSUME NEW T, IsFiniteSet(T), Cardinality(T) <= 1, NEW x \in T, NEW y \in T
  PROVE  x = y
<1>1. Cardinality(T) \in Nat
  BY FS_CardinalityType
<1>2. Cardinality(T) # 0
  BY FS_EmptySet
<1>3. Cardinality(T) = 1
  BY <1>1, <1>2
<1>4. \E z : T = {z}
  BY <1>3, FS_Singleton
<1> QED BY <1>4

\* A key that was served and may verify is for no other purpose.
LEMMA ServedForOnePurpose ==
  ASSUME NEW k, CanServe(k), NEW alg, permitsVerify(asKey(k), alg)
  PROVE  /\ asKey(k).use # "enc"
         /\ {classOf(op) : op \in asKey(k).ops} \cap {"enc", "derive"} = {}
<1> DEFINE classes == {classOf(k.key_ops[i]) : i \in DOMAIN k.key_ops}
<1>1. asKey(k).ops = {k.key_ops[i] : i \in DOMAIN k.key_ops} /\ asKey(k).use = k.use
  BY DEF asKey
<1>2. {classOf(op) : op \in asKey(k).ops} = classes
  BY <1>1
<1>3. asKey(k).use \in {"", "sig"} /\ (asKey(k).ops # {} => "verify" \in asKey(k).ops)
  BY DEF permitsVerify
<1>4. Cardinality(classes \ {"other"}) <= 1
  BY DEF CanServe, checkCanonical
<1>5. classOf("verify") = "sig" /\ \A op : classOf(op) \in {"sig", "enc", "derive", "other"}
  BY DEF classOf, OpClass
<1>6. IsFiniteSet(classes \ {"other"})
  <2>1. IsFiniteSet({"sig", "enc", "derive", "other"})
    <3>1. IsFiniteSet({"sig"}) /\ IsFiniteSet({"sig"} \cup {"enc"})
      BY FS_Singleton, FS_AddElement
    <3>2. IsFiniteSet(({"sig"} \cup {"enc"}) \cup {"derive"})
      BY <3>1, FS_AddElement
    <3>3. IsFiniteSet((({"sig"} \cup {"enc"}) \cup {"derive"}) \cup {"other"})
      BY <3>2, FS_AddElement
    <3>4. {"sig", "enc", "derive", "other"} = (({"sig"} \cup {"enc"}) \cup {"derive"}) \cup {"other"}
      OBVIOUS
    <3> QED BY <3>3, <3>4
  <2>2. classes \ {"other"} \subseteq {"sig", "enc", "derive", "other"}
    BY <1>5
  <2> QED BY <2>1, <2>2, FS_Subset
<1>7. classes # {} => "sig" \in classes \ {"other"}
  <2>1. classes # {} => asKey(k).ops # {}
    BY <1>1
  <2>2. "verify" \in asKey(k).ops => "sig" \in {classOf(op) : op \in asKey(k).ops}
    BY <1>5
  <2> QED BY <1>2, <1>3, <2>1, <2>2
<1> HIDE DEF classes
<1>8. ASSUME NEW x \in classes, x \in {"enc", "derive"} PROVE FALSE
  <2>1. x \in classes \ {"other"} /\ "sig" \in classes \ {"other"}
    BY <1>7, <1>8
  <2>2. x = "sig"
    BY <1>4, <1>6, <2>1, AtMostOne
  <2> QED BY <1>8, <2>2
<1> QED BY <1>2, <1>3, <1>8

-----------------------------------------------------------------------------
(* The inductive invariant                                                 *)

\* The signer is the constructor's for the private key.
PrivateOK(k, s) ==
  k # BadKey => KeyMade(k) /\ \E alg, kid : signerError(alg, k) = {} /\ s = signerFor(alg, k, kid)

\* The key is the JWK of a parsed key, and was served unless it is symmetric.
KeyOK(k) ==
  k # NoKey => k.id # "nobody" /\ (k.kty # "oct" => \E j : CanServe(j) /\ k = asKey(j))

\* A token is the encoding of what was signed, under one signature.
Contains(kind, src, hdr, payload) ==
  \/ /\ kind = "claims"
     /\ src.type \in DOMAIN Fields /\ ClaimsType(src.claims) /\ CanMarshal(src.type, src.claims)
     /\ payload = Marshal(src.type, src.claims)
  \/ kind = "value" /\ payload \in Documents
  \/ kind = "cmw" /\ Validate(src) /\ payload = marshal(src) /\ hdr.cty = CMWContentType
SentOK(s) ==
  LET tok == s.tok IN
  /\ tok = [hdr |-> tok.hdr, payload |-> tok.payload, sig |-> tok.sig]
  /\ tok.sig.hdr = tok.hdr /\ tok.sig.payload = tok.payload /\ tok.sig.scheme = tok.hdr.alg
  /\ MediaType(tok.hdr.cty)
  /\ Contains(s.kind, s.src, tok.hdr, tok.payload)

SceneInv == scene \in DOMAIN Scenes /\ now \in Int
KeyInv == PrivateOK(private, signer) /\ KeyOK(key)
SentInv == \A s \in sent : SentOK(s)
DstInv ==
  /\ accepted = Null => dst = ZeroClaims
  /\ accepted # Null => /\ \E s \in sent : s.tok.payload = accepted
                        /\ CanUnmarshal(S.type, accepted)
                        /\ dst = Unmarshal(S.type, accepted, ZeroClaims)

\* The last call has the outcome that the same call would have now.
ParseInv ==
  last.op = "Parse" =>
    \E t \in Arriving, opts \in S.parseOpts :
      /\ last = [op |-> "Parse", tok |-> t, opts |-> opts, err |-> parseError(t, Configured(opts))]
      /\ last.err = {} => dst = decodeFreshObject(t)
AccessInv ==
  last.op = "ValidateAccessTokenClaims" =>
    \E t \in Arriving : /\ last.tok = t /\ dst = decodeFreshObject(t)
                        /\ last.err = ValidateAccessTokenClaims(dst)
CMWInv ==
  last.op = "ParseSignedCMW" =>
    \E t \in Arriving, opts \in S.parseOpts :
      /\ last.tok = t /\ last.opts = opts
      /\ last.err = cmwError(t, Configured(opts))
      /\ last.err = {} => last.out = ParseCMW(t.payload).v
Inv == SceneInv /\ KeyInv /\ SentInv /\ DstInv /\ ParseInv /\ AccessInv /\ CMWInv

\* Nothing has been signed, published or read.
LEMMA InvInit == Init => Inv
<1> SUFFICES ASSUME Init PROVE Inv
  OBVIOUS
<1>1. SceneInv
  BY SceneAssumption DEF Init, SceneInv, S
<1>2. KeyInv
  BY DEF Init, KeyInv, PrivateOK, KeyOK
<1>3. SentInv /\ DstInv
  BY DEF Init, SentInv, DstInv
<1>4. ParseInv /\ AccessInv /\ CMWInv
  BY DEF Init, ParseInv, AccessInv, CMWInv, NoCall
<1> QED BY <1>1, <1>2, <1>3, <1>4 DEF Inv

\* What a call ends with depends on the scene, the key and the time only.
LEMMA SameOutcome ==
  ASSUME scene' = scene, key' = key, now' = now, NEW t, NEW cfg
  PROVE  /\ parseError(t, cfg)' = parseError(t, cfg)
         /\ cmwError(t, cfg)' = cmwError(t, cfg)
         /\ decodeFreshObject(t)' = decodeFreshObject(t)
         /\ S' = S
<1>1. S' = S
  BY DEF S
<1>2. signatureError(t, cfg)' = signatureError(t, cfg)
  BY DEF signatureError, Lookup
<1>3. claimsError(t, cfg)' = claimsError(t, cfg)
  BY DEF claimsError
<1>4. decodeError(t)' = decodeError(t) /\ decodeFreshObject(t)' = decodeFreshObject(t)
  BY <1>1 DEF decodeError, decodeFreshObject
<1>5. parseError(t, cfg)' = parseError(t, cfg)
  BY <1>2, <1>3, <1>4 DEF parseError, parseVerified
<1>6. cmwError(t, cfg)' = cmwError(t, cfg)
  BY <1>2 DEF cmwError
<1> QED BY <1>1, <1>4, <1>5, <1>6

\* Whatever is not a call of the consumer leaves no outcome behind.
LEMMA NoOutcome == ASSUME last' = NoCall PROVE ParseInv' /\ AccessInv' /\ CMWInv'
BY DEF ParseInv, AccessInv, CMWInv, NoCall

\* The steps of the issuer.
LEMMA NewSignerStep ==
  ASSUME Inv, NEW b \in S.blobs, NEW alg, NEW kid, NewSigner(b, alg, kid) PROVE Inv'
<1>1. BlobType(b)
  BY SceneAssumption DEF Inv, SceneInv, S
<1>2. /\ parsePrivateKey(b) # BadKey /\ signerError(alg, parsePrivateKey(b)) = {}
      /\ private' = parsePrivateKey(b) /\ signer' = signerFor(alg, parsePrivateKey(b), kid)
      /\ last' = NoCall
      /\ scene' = scene /\ key' = key /\ sent' = sent /\ now' = now /\ dst' = dst /\ accepted' = accepted
  BY DEF NewSigner
<1>3. PrivateOK(private', signer')
  BY <1>1, <1>2, ParsedKey DEF PrivateOK
<1>4. KeyInv' /\ SceneInv' /\ SentInv' /\ DstInv'
  BY <1>2, <1>3 DEF Inv, KeyInv, SceneInv, SentInv, DstInv, S
<1> QED BY <1>2, <1>4, NoOutcome DEF Inv

\* A signer of the application's own has no private key that the library parsed.
LEMMA CustomSignerStep == ASSUME Inv, NEW s, CustomSigner(s) PROVE Inv'
<1>1. /\ private' = BadKey /\ last' = NoCall
      /\ scene' = scene /\ key' = key /\ sent' = sent /\ now' = now /\ dst' = dst /\ accepted' = accepted
  BY DEF CustomSigner
<1>2. KeyInv' /\ SceneInv' /\ SentInv' /\ DstInv'
  BY <1>1 DEF Inv, KeyInv, PrivateOK, SceneInv, SentInv, DstInv, S
<1> QED BY <1>1, <1>2, NoOutcome DEF Inv

\* A key that is published was served, unless it is symmetric.
LEMMA PublishStep == ASSUME Inv, NEW kid, NEW meta, Publish(kid, meta) PROVE Inv'
<1> DEFINE k == [FromPublicKey(private, kid) EXCEPT !.use = meta.use, !.key_ops = meta.key_ops,
                                                    !.alg = meta.alg]
<1>1. /\ private # BadKey /\ (k.kty = "oct" \/ CanServe(k)) /\ key' = asKey(k) /\ last' = NoCall
      /\ scene' = scene /\ private' = private /\ signer' = signer /\ sent' = sent /\ now' = now
      /\ dst' = dst /\ accepted' = accepted
  BY DEF Publish
<1>2. k.id = private.pub
  BY DEF FromPublicKey
<1> HIDE DEF k
<1>3. asKey(k).id = k.id /\ asKey(k).kty = k.kty
  BY DEF asKey
<1>4. private.pub # "nobody"
  BY <1>1 DEF Inv, KeyInv, PrivateOK, KeyMade
<1>5. KeyOK(key')
  BY <1>1, <1>2, <1>3, <1>4 DEF KeyOK
<1>6. KeyInv' /\ SceneInv' /\ SentInv' /\ DstInv'
  BY <1>1, <1>5 DEF Inv, KeyInv, SceneInv, SentInv, DstInv, S
<1> QED BY <1>1, <1>6, NoOutcome DEF Inv

\* A token that holds what was signed joins those sent.
LEMMA EmitStep ==
  ASSUME Inv, NEW kind, NEW src, NEW hdr, NEW payload, Emit(kind, src, hdr, payload),
         hdr.alg = signer.alg, MediaType(hdr.cty), Contains(kind, src, hdr, payload)
  PROVE  Inv'
<1> DEFINE s == [kind |-> kind, src |-> src,
                 tok |-> [hdr |-> hdr, payload |-> payload, sig |-> Signature(hdr, payload)]]
<1>1. /\ sent' = sent \cup {s} /\ last' = NoCall
      /\ scene' = scene /\ private' = private /\ signer' = signer /\ key' = key /\ now' = now
      /\ dst' = dst /\ accepted' = accepted
  BY DEF Emit
<1>2. /\ Signature(hdr, payload).hdr = hdr /\ Signature(hdr, payload).payload = payload
      /\ Signature(hdr, payload).scheme = hdr.alg
  BY DEF Signature
<1>3. SentOK(s)
  BY <1>2 DEF SentOK
<1> HIDE DEF s
<1>4. SentInv' /\ SceneInv' /\ KeyInv' /\ DstInv'
  BY <1>1, <1>3 DEF Inv, SentInv, SceneInv, KeyInv, DstInv, S
<1> QED BY <1>1, <1>4, NoOutcome DEF Inv

\* The header has the signer's algorithm and the content type configured.
LEMMA HeaderFields ==
  ASSUME NEW cfg
  PROVE  Header(cfg).alg = signer.alg /\ Header(cfg).cty = cfg.cty
BY DEF Header

\* The media types that the code sets.
LEMMA TypesOfMedia == MediaType(NoType) /\ MediaType(DefaultType) /\ MediaType(CMWContentType)
BY DEF MediaType, NoType, DefaultType, CMWContentType

\* The configurations that Sign and SignCMW start from are well formed.
LEMMA StartConfig ==
  /\ HeaderTypes(zeroSign)
  /\ HeaderTypes([zeroSign EXCEPT !.typ = DefaultType])
<1>1. MediaType(NoType) /\ MediaType(DefaultType)
  BY TypesOfMedia
<1>2. [zeroSign EXCEPT !.typ = DefaultType] = [typ |-> DefaultType, cty |-> NoType]
  BY DEF zeroSign
<1> QED BY <1>1, <1>2 DEF zeroSign, HeaderTypes

\* Sign of a claims struct sends its encoding.
LEMMA SignStructStep ==
  ASSUME Inv, NEW c \in S.claims, NEW opts \in S.signOpts, SignStruct(c.type, c.claims, opts)
  PROVE  Inv'
<1> DEFINE cfg == SignConfigured([zeroSign EXCEPT !.typ = DefaultType], opts)
           src == [type |-> c.type, claims |-> c.claims]
<1>1. /\ c.type \in DOMAIN Fields /\ ClaimsType(c.claims)
      /\ Listed(opts) /\ \A i \in DOMAIN opts : SignOptionType(opts[i])
  BY SceneAssumption DEF Inv, SceneInv, S
<1>2. /\ CanMarshal(c.type, c.claims)
      /\ Emit("claims", src, Header(cfg), Marshal(c.type, c.claims))
  BY DEF SignStruct
<1>3. HeaderTypes(cfg)
  BY <1>1, StartConfig, SignConfiguredType
<1>4. src.type = c.type /\ src.claims = c.claims
  OBVIOUS
<1> HIDE DEF cfg, src
<1>5. Header(cfg).alg = signer.alg /\ MediaType(Header(cfg).cty)
  BY <1>3, HeaderFields DEF HeaderTypes
<1>6. Contains("claims", src, Header(cfg), Marshal(c.type, c.claims))
  BY <1>1, <1>2, <1>4 DEF Contains
<1> QED BY <1>2, <1>5, <1>6, EmitStep

\* Sign of another value sends it.
LEMMA SignValueStep ==
  ASSUME Inv, NEW j \in S.values, NEW opts \in S.signOpts, SignValue(j, opts) PROVE Inv'
<1> DEFINE cfg == SignConfigured([zeroSign EXCEPT !.typ = DefaultType], opts)
<1>1. j \in Documents /\ Listed(opts) /\ \A i \in DOMAIN opts : SignOptionType(opts[i])
  BY SceneAssumption DEF Inv, SceneInv, S
<1>2. Emit("value", j, Header(cfg), j)
  BY DEF SignValue
<1>3. HeaderTypes(cfg)
  BY <1>1, StartConfig, SignConfiguredType
<1> HIDE DEF cfg
<1>4. Header(cfg).alg = signer.alg /\ MediaType(Header(cfg).cty)
  BY <1>3, HeaderFields DEF HeaderTypes
<1>5. Contains("value", j, Header(cfg), j)
  BY <1>1 DEF Contains
<1> QED BY <1>2, <1>4, <1>5, EmitStep

\* SignCMW sends the encoding of a valid CMW under its own content type.
LEMMA SignCMWStep ==
  ASSUME Inv, NEW c, NEW opts \in S.signOpts, SignCMW(c, opts) PROVE Inv'
<1> DEFINE cfg == [SignConfigured(zeroSign, opts) EXCEPT !.cty = CMWContentType]
<1>1. Listed(opts) /\ \A i \in DOMAIN opts : SignOptionType(opts[i])
  BY SceneAssumption DEF Inv, SceneInv, S
<1>2. Validate(c) /\ Emit("cmw", c, Header(cfg), marshal(c))
  BY DEF SignCMW
<1>3. HeaderTypes(SignConfigured(zeroSign, opts))
  BY <1>1, StartConfig, SignConfiguredType
<1>4. cfg.cty = CMWContentType
  BY <1>3 DEF HeaderTypes
<1> HIDE DEF cfg
<1>5. Header(cfg).alg = signer.alg /\ Header(cfg).cty = CMWContentType
  BY <1>4, HeaderFields
<1>6. MediaType(CMWContentType)
  BY TypesOfMedia
<1>7. Contains("cmw", c, Header(cfg), marshal(c))
  BY <1>2, <1>5 DEF Contains
<1> QED BY <1>2, <1>5, <1>6, <1>7, EmitStep

\* Time passes; the last call is not judged by a later clock.
LEMMA TickStep == ASSUME Inv, Tick PROVE Inv'
<1>1. /\ now' = now + 1 /\ last' = NoCall /\ scene' = scene /\ private' = private
      /\ signer' = signer /\ key' = key /\ sent' = sent /\ dst' = dst /\ accepted' = accepted
  BY DEF Tick
<1>2. SceneInv' /\ KeyInv' /\ SentInv' /\ DstInv'
  BY <1>1 DEF Inv, SceneInv, KeyInv, SentInv, DstInv, S
<1> QED BY <1>1, <1>2, NoOutcome DEF Inv

\* The steps of the consumer.  Its calls leave all but dst, accepted and
\* last alone.
Consumed == /\ scene' = scene /\ private' = private /\ signer' = signer /\ key' = key
            /\ sent' = sent /\ now' = now

\* A call of the consumer changes nothing of the issuer's.
LEMMA ConsumedParts ==
  ASSUME Inv, Consumed
  PROVE  /\ SceneInv' /\ KeyInv' /\ SentInv' /\ S' = S /\ Arriving' = Arriving
         /\ (dst' = dst /\ accepted' = accepted => DstInv')
<1>1. S' = S /\ Arriving' = Arriving
  BY DEF Consumed, S, Arriving
<1>2. SceneInv' /\ KeyInv' /\ SentInv'
  BY DEF Consumed, Inv, SceneInv, KeyInv, SentInv
<1>3. dst' = dst /\ accepted' = accepted => DstInv'
  BY <1>1 DEF Consumed, Inv, DstInv
<1> QED BY <1>1, <1>2, <1>3

\* A segment that arrives was sent.
LEMMA ArrivingSegments ==
  ASSUME NEW t \in Arriving
  PROVE  \E a, b, c \in sent : /\ t = [hdr |-> a.tok.hdr, payload |-> b.tok.payload, sig |-> c.tok.sig]
                               /\ t.hdr = a.tok.hdr /\ t.payload = b.tok.payload /\ t.sig = c.tok.sig
<1>1. PICK a, b, c \in sent : t = [hdr |-> a.tok.hdr, payload |-> b.tok.payload, sig |-> c.tok.sig]
  BY DEF Arriving
<1> QED BY <1>1

\* What a successful call leaves in dst is the content of a payload that was sent.
LEMMA ReturnDst ==
  ASSUME Inv, Consumed, NEW t \in Arriving, NEW err,
         err = {} => CanUnmarshal(S.type, t.payload),
         dst' = IF err = {} THEN decodeFreshObject(t) ELSE dst,
         accepted' = IF err = {} THEN t.payload ELSE accepted
  PROVE  DstInv'
<1>1. CASE err = {}
  <2>1. PICK b \in sent : b.tok.payload = t.payload
    BY ArrivingSegments
  <2>2. /\ CanUnmarshal(S.type, t.payload) /\ accepted' = t.payload
        /\ dst' = Unmarshal(S.type, t.payload, ZeroClaims)
    BY <1>1 DEF decodeFreshObject
  <2>3. t.payload # Null
    BY <2>2, NullKind DEF CanUnmarshal, IsObject
  <2>4. S' = S /\ sent' = sent
    BY DEF Consumed, S
  <2> QED BY <2>1, <2>2, <2>3, <2>4 DEF DstInv
<1>2. CASE err # {}
  BY <1>2, ConsumedParts
<1> QED BY <1>1, <1>2

\* A call without an error has decoded its payload.
LEMMA DecodeErrorMeans ==
  ASSUME NEW t
  PROVE  /\ decodeError(t) = {} => CanUnmarshal(S.type, t.payload)
         /\ \A cfg : parseError(t, cfg) = {} => CanUnmarshal(S.type, t.payload)
<1>1. decodeError(t) = {} => CanUnmarshal(S.type, t.payload)
  BY DEF decodeError
<1>2. \A cfg : parseError(t, cfg) = {} => decodeError(t) = {}
  BY DEF parseError
<1> QED BY <1>1, <1>2

\* Parse reports what its checks say, and assigns dst only without an error.
LEMMA ParseStep ==
  ASSUME Inv, NEW t \in Arriving, NEW opts \in S.parseOpts, ParseToken(t, opts) PROVE Inv'
<1> DEFINE err == parseError(t, Configured(opts))
<1>1. /\ last' = [op |-> "Parse", tok |-> t, opts |-> opts, err |-> err]
      /\ dst' = IF err = {} THEN decodeFreshObject(t) ELSE dst
      /\ accepted' = IF err = {} THEN t.payload ELSE accepted
      /\ Consumed
  BY DEF ParseToken, Return, Consumed
<1>2. /\ parseError(t, Configured(opts))' = err /\ decodeFreshObject(t)' = decodeFreshObject(t)
  <2>1. PICK cfg : cfg = Configured(opts)
    OBVIOUS
  <2> QED BY <1>1, <2>1, SameOutcome DEF Consumed
<1>3. err = {} => CanUnmarshal(S.type, t.payload)
  BY DecodeErrorMeans
<1> HIDE DEF err
<1>4. DstInv'
  BY <1>1, <1>3, ReturnDst
<1>5. last'.op = "Parse" /\ last'.tok = t /\ last'.opts = opts /\ last'.err = err
  BY <1>1
<1>6. ParseInv'
  BY <1>1, <1>2, <1>5, ConsumedParts DEF ParseInv
<1>7. AccessInv' /\ CMWInv'
  BY <1>5 DEF AccessInv, CMWInv
<1> QED BY <1>1, <1>4, <1>6, <1>7, ConsumedParts DEF Inv

\* ParseInsecure assigns dst the content of a token that was sent.
LEMMA ParseInsecureStep == ASSUME Inv, NEW t \in Arriving, ParseInsecure(t) PROVE Inv'
<1> DEFINE err == decodeError(t)
<1>1. /\ last' = [op |-> "ParseInsecure", tok |-> t, opts |-> <<>>, err |-> err]
      /\ dst' = IF err = {} THEN decodeFreshObject(t) ELSE dst
      /\ accepted' = IF err = {} THEN t.payload ELSE accepted
      /\ Consumed
  BY DEF ParseInsecure, Return, Consumed
<1>2. err = {} => CanUnmarshal(S.type, t.payload)
  BY DecodeErrorMeans
<1> HIDE DEF err
<1>3. DstInv'
  BY <1>1, <1>2, ReturnDst
<1>4. last'.op = "ParseInsecure"
  BY <1>1
<1>5. ParseInv' /\ AccessInv' /\ CMWInv'
  BY <1>4 DEF ParseInv, AccessInv, CMWInv
<1> QED BY <1>1, <1>3, <1>5, ConsumedParts DEF Inv

\* ParseSignedCMW leaves dst alone.
LEMMA ParseSignedCMWStep ==
  ASSUME Inv, NEW t \in Arriving, NEW opts \in S.parseOpts, ParseSignedCMW(t, opts) PROVE Inv'
<1> DEFINE err == cmwError(t, Configured(opts))
           out == IF err = {} THEN ParseCMW(t.payload).v ELSE NoCMW
<1>1. /\ last' = [op |-> "ParseSignedCMW", tok |-> t, opts |-> opts, err |-> err, out |-> out]
      /\ dst' = dst /\ accepted' = accepted
      /\ Consumed
  BY DEF ParseSignedCMW, Consumed
<1>2. cmwError(t, Configured(opts))' = err
  <2>1. PICK cfg : cfg = Configured(opts)
    OBVIOUS
  <2> QED BY <1>1, <2>1, SameOutcome DEF Consumed
<1>3. err = {} => out = ParseCMW(t.payload).v
  OBVIOUS
<1> HIDE DEF err, out
<1>4. last'.op = "ParseSignedCMW" /\ last'.tok = t /\ last'.opts = opts /\ last'.err = err /\ last'.out = out
  BY <1>1
<1>5. CMWInv'
  BY <1>1, <1>2, <1>3, <1>4, ConsumedParts DEF CMWInv
<1>6. ParseInv' /\ AccessInv'
  BY <1>4 DEF ParseInv, AccessInv
<1> QED BY <1>1, <1>5, <1>6, ConsumedParts DEF Inv

\* The access token profile looks at dst as the last Parse left it.
LEMMA ValidateAccessStep == ASSUME Inv, ValidateAccess PROVE Inv'
<1>1. /\ last.op = "Parse" /\ last.err = {} /\ Consumed /\ dst' = dst /\ accepted' = accepted
      /\ last' = [last EXCEPT !.op = "ValidateAccessTokenClaims", !.err = ValidateAccessTokenClaims(dst)]
  BY DEF ValidateAccess, Consumed
<1>2. PICK t \in Arriving : last.tok = t /\ dst = decodeFreshObject(t) /\ {"op", "err"} \subseteq DOMAIN last
  <2>1. PICK t \in Arriving, opts \in S.parseOpts :
          /\ last = [op |-> "Parse", tok |-> t, opts |-> opts, err |-> parseError(t, Configured(opts))]
          /\ last.err = {} => dst = decodeFreshObject(t)
    BY <1>1 DEF Inv, ParseInv
  <2>2. DOMAIN last = {"op", "tok", "opts", "err"} /\ last.tok = t
    BY <2>1
  <2> QED BY <1>1, <2>1, <2>2
<1>3. decodeFreshObject(t)' = decodeFreshObject(t)
  BY <1>1, SameOutcome DEF Consumed
<1>4. /\ last'.op = "ValidateAccessTokenClaims" /\ last'.tok = last.tok
      /\ last'.err = ValidateAccessTokenClaims(dst)
  BY <1>1, <1>2
<1>5. AccessInv'
  BY <1>1, <1>2, <1>3, <1>4, ConsumedParts DEF AccessInv
<1>6. ParseInv' /\ CMWInv'
  BY <1>4 DEF ParseInv, CMWInv
<1> QED BY <1>1, <1>5, <1>6, ConsumedParts DEF Inv

\* A stuttering step keeps everything.
LEMMA InvStutter == ASSUME Inv, UNCHANGED vars PROVE Inv'
<1>1. Consumed /\ dst' = dst /\ accepted' = accepted /\ last' = last
  BY DEF vars, Consumed
<1>2. SceneInv' /\ KeyInv' /\ SentInv' /\ DstInv' /\ S' = S /\ Arriving' = Arriving
  BY <1>1, ConsumedParts
<1>3. \A t, cfg : /\ parseError(t, cfg)' = parseError(t, cfg) /\ cmwError(t, cfg)' = cmwError(t, cfg)
                  /\ decodeFreshObject(t)' = decodeFreshObject(t)
  BY <1>1, SameOutcome DEF Consumed
<1>4. ParseInv'
  BY <1>1, <1>2, <1>3 DEF Inv, ParseInv
<1>5. AccessInv'
  BY <1>1, <1>2, <1>3 DEF Inv, AccessInv
<1>6. CMWInv'
  BY <1>1, <1>2, <1>3 DEF Inv, CMWInv
<1> QED BY <1>2, <1>4, <1>5, <1>6 DEF Inv

\* Every step preserves the invariant.
LEMMA InvNext == Inv /\ [Next]_vars => Inv'
<1> SUFFICES ASSUME Inv, [Next]_vars PROVE Inv'
  OBVIOUS
<1>1. CASE Issue
  BY <1>1, NewSignerStep, CustomSignerStep, PublishStep, SignStructStep, SignValueStep, SignCMWStep
     DEF Issue
<1>2. CASE Consume
  BY <1>2, ParseStep, ParseInsecureStep, ParseSignedCMWStep, ValidateAccessStep DEF Consume
<1>3. CASE Tick
  BY <1>3, TickStep
<1>4. CASE UNCHANGED vars
  BY <1>4, InvStutter
<1> QED BY <1>1, <1>2, <1>3, <1>4 DEF Next

\* What the issuer has sent is the encoding of what it was given under one signature of its
\* own, the consumer's key is the published half of a private key that a parser accepted,
\* and the last call and dst are what those determine.
THEOREM Invariant == Spec => []Inv
<1>1. Init => Inv
  BY InvInit
<1>2. Inv /\ [Next]_vars => Inv'
  BY InvNext
<1> QED BY <1>1, <1>2, PTL DEF Spec

-----------------------------------------------------------------------------
(* Properties                                                              *)

\* A private key that a parser and a constructor accepted makes signatures that the JWK of
\* its public half verifies, unless it is an Ed25519 key put together from two.
THEOREM SignersAreUsable == Spec => []SignerUsable
<1>1. ASSUME Inv PROVE SignerUsable
  <2> DEFINE k == asKey(FromPublicKey(private, signer.kid))
             sig == [signer |-> signer.by, scheme |-> signer.alg]
  <2> SUFFICES ASSUME private # BadKey
               PROVE  /\ verifierForAlg(k, signer.alg) = {}
                      /\ Verify(k, signer.alg, sig) = {} <=>
                           (private.kty = "OKP" => private.priv = private.pub)
    BY DEF SignerUsable
  <2>1. PICK alg, kid : signerError(alg, private) = {} /\ signer = signerFor(alg, private, kid)
    BY <1>1 DEF Inv, KeyInv, PrivateOK
  <2>2. KeyMade(private)
    BY <1>1 DEF Inv, KeyInv, PrivateOK
  <2>3. k.kty = private.kty /\ k.grade = private.grade /\ k.id = private.pub /\ Plain(k)
    <3>1. PICK kid0 : kid0 = signer.kid
      OBVIOUS
    <3>2. LET j == asKey(FromPublicKey(private, kid0)) IN
          /\ j.kty = private.kty /\ j.grade = private.grade /\ j.id = private.pub
          /\ j.use = "" /\ j.ops = {} /\ j.alg = ""
      BY PublishedKey
    <3> QED BY <3>1, <3>2 DEF Plain
  <2> HIDE DEF k
  <2>4. LET a == signer.alg IN
        /\ a \in DOMAIN Family /\ private.kty = Family[a].kty /\ private.grade # 0
        /\ ~(private.grade < Family[a].grade)
        /\ (private.kty = "EC" => private.grade = Family[a].grade)
        /\ (private.kty = "RSA" => ~(private.grade > MaxRSA))
    BY <2>1, <2>2, SignerGrade
  <2>5. verifierForAlg(k, signer.alg) = {}
    BY <2>3, <2>4, PlainVerifies
  <2>6. signer.by = k.id <=> (private.kty = "OKP" => private.priv = private.pub)
    BY <2>1, <2>2, <2>3, SignsAsItself
  <2>7. sig.signer = signer.by /\ sig.scheme = signer.alg
    OBVIOUS
  <2>8. Verify(k, signer.alg, sig) = {} <=> signer.by = k.id
    BY <2>7 DEF Verify, sameAlgorithm
  <2> QED BY <2>5, <2>6, <2>8
<1> QED BY <1>1, Invariant, PTL

\* The token as the checks see it.
LEMMA TokenFields ==
  ASSUME NEW t
  PROVE  /\ asToken(t).defects = {} /\ ~asToken(t).crit
         /\ asToken(t).alg = t.hdr.alg /\ asToken(t).scheme = t.sig.scheme
         /\ asToken(t).signer = IF t.sig.hdr = t.hdr /\ t.sig.payload = t.payload
                                THEN t.sig.by ELSE "nobody"
<1>1. /\ asToken(t).defects = {}
      /\ asToken(t).alg = t.hdr.alg /\ asToken(t).scheme = t.sig.scheme
      /\ asToken(t).signer = IF t.sig.hdr = t.hdr /\ t.sig.payload = t.payload
                             THEN t.sig.by ELSE "nobody"
  BY DEF asToken
<1>2. ~asToken(t).crit
  BY Zenon DEF asToken
<1> QED BY <1>1, <1>2

\* A signature that passes is of the consumer's key over this header and this payload, and
\* under an algorithm that is allowed.
LEMMA SignaturePassed ==
  ASSUME NEW t, NEW cfg, KeyOK(key), signatureError(t, cfg) = {}
  PROVE  /\ key # NoKey /\ t.hdr.alg \in cfg.algs /\ verifierForAlg(key, t.hdr.alg) = {}
         /\ t.sig.hdr = t.hdr /\ t.sig.payload = t.payload
<1> DEFINE tok == asToken(t)
<1>1. precheck(tok, cfg) = {} /\ key # NoKey /\ Lookup(tok.kid) # NoKey
  BY DEF signatureError
<1>2. Lookup(tok.kid) = key
  BY <1>1 DEF Lookup
<1>3. keyError(key, tok, cfg.algs) = {}
  BY <1>1, <1>2 DEF signatureError
<1> HIDE DEF tok
<1>4. tok.alg \in cfg.algs
  BY <1>1 DEF precheck, withoutNone
<1>5. verifierForAlg(key, tok.alg) = {} /\ Verify(key, tok.alg, tok) = {}
  BY <1>3 DEF keyError
<1>6. tok.signer = key.id
  BY <1>5 DEF Verify
<1>7. key.id # "nobody"
  BY <1>1 DEF KeyOK
<1>8. t.sig.hdr = t.hdr /\ t.sig.payload = t.payload
  BY <1>6, <1>7, TokenFields DEF tok
<1> QED BY <1>1, <1>4, <1>5, <1>8, TokenFields DEF tok

\* What else a signature check finds, and what it cannot.
KeyErrors == {{}, {"ErrKeyUsage"}, {"ErrUnsupportedAlgorithm"}, {"ErrAlgorithmNotAllowed"},
              {"ErrMalformedKey"}, {"ErrKeyTypeMismatch"}, {"ErrWeakKey"}, {"ErrInvalidSignature"}}

\* What keyError finds.
LEMMA KeyErrorRange == ASSUME NEW k, NEW tok, NEW A PROVE keyError(k, tok, A) \in KeyErrors
<1>1. requireUnambiguousKeyAlgorithm(k, withoutNone(A)) \in {{}, {"ErrKeyUsage"}}
  BY DEF requireUnambiguousKeyAlgorithm
<1>2. Verify(k, tok.alg, tok) \in {{}, {"ErrInvalidSignature"}}
  BY DEF Verify
<1>3. verifierForAlg(k, tok.alg) \in
        {{}, {"ErrKeyUsage"}, {"ErrUnsupportedAlgorithm"}, {"ErrAlgorithmNotAllowed"},
         {"ErrMalformedKey"}, {"ErrKeyTypeMismatch"}, {"ErrWeakKey"}}
  BY DEF verifierForAlg
<1> QED BY <1>1, <1>2, <1>3 DEF keyError, KeyErrors

\* What the checks as far as the signature find.
LEMMA SignatureErrors ==
  ASSUME NEW t, NEW cfg
  PROVE  signatureError(t, cfg) \in
           KeyErrors \cup {{"ErrNoAllowedAlgorithms"}, {"ErrAlgorithmNotAllowed"}, {"ErrKeyNotFound"}}
<1> DEFINE tok == asToken(t)
<1>1. precheck(tok, cfg) \in {{}, {"ErrNoAllowedAlgorithms"}, {"ErrAlgorithmNotAllowed"}}
  <2>1. tok.defects = {} /\ ~tok.crit
    BY TokenFields
  <2> HIDE DEF tok
  <2> QED BY <2>1 DEF precheck
<1> HIDE DEF tok
<1>2. \A k : keyError(k, tok, cfg.algs) \in KeyErrors
  BY KeyErrorRange
<1>3. \/ signatureError(t, cfg) = precheck(tok, cfg) /\ precheck(tok, cfg) # {}
      \/ signatureError(t, cfg) = {"ErrKeyNotFound"}
      \/ \E k : signatureError(t, cfg) = keyError(k, tok, cfg.algs)
  BY DEF signatureError, tok
<1> QED BY <1>1, <1>2, <1>3

\* Whoever holds the key finds no fault with the signature.
LEMMA HeldSignature ==
  ASSUME NEW t, NEW cfg, key # NoKey, t.sig.by = key.id, t.sig.hdr = t.hdr,
         t.sig.payload = t.payload, t.sig.scheme = t.hdr.alg
  PROVE  signatureError(t, cfg) \cap {"ErrMalformedToken", "ErrInvalidSignature",
                                      "ErrInvalidClaim", "ErrTypeMismatch"} = {}
<1> DEFINE tok == asToken(t)
<1>1. signatureError(t, cfg) # {"ErrInvalidSignature"}
  <2>1. tok.signer = key.id /\ tok.scheme = tok.alg
    BY TokenFields
  <2>2. tok.defects = {} /\ ~tok.crit
    BY TokenFields
  <2>3. signatureError(t, cfg) = IF precheck(tok, cfg) # {} THEN precheck(tok, cfg)
                                 ELSE IF key = NoKey \/ Lookup(tok.kid) = NoKey THEN {"ErrKeyNotFound"}
                                 ELSE keyError(Lookup(tok.kid), tok, cfg.algs)
    BY DEF signatureError
  <2> HIDE DEF tok
  <2>4. precheck(tok, cfg) # {"ErrInvalidSignature"}
    BY DEF precheck
  <2>5. Lookup(tok.kid) # NoKey => Lookup(tok.kid) = key
    BY DEF Lookup
  <2>6. Verify(key, tok.alg, tok) = {}
    BY <2>1 DEF Verify, sameAlgorithm
  <2>7. keyError(key, tok, cfg.algs) # {"ErrInvalidSignature"}
    <3>1. requireUnambiguousKeyAlgorithm(key, withoutNone(cfg.algs)) # {"ErrInvalidSignature"}
      BY DEF requireUnambiguousKeyAlgorithm
    <3>2. verifierForAlg(key, tok.alg) # {"ErrInvalidSignature"}
      BY DEF verifierForAlg
    <3> QED BY <2>6, <3>1, <3>2 DEF keyError
  <2> QED BY <2>3, <2>4, <2>5, <2>7
<1>2. signatureError(t, cfg) \in
        KeyErrors \cup {{"ErrNoAllowedAlgorithms"}, {"ErrAlgorithmNotAllowed"}, {"ErrKeyNotFound"}}
  BY SignatureErrors
<1> QED BY <1>1, <1>2 DEF KeyErrors

\* A token whose signature covers it was sent as it is.
LEMMA SentWhole ==
  ASSUME SentInv, NEW t \in Arriving, t.sig.hdr = t.hdr, t.sig.payload = t.payload
  PROVE  \E s \in sent : s.tok = t
<1>1. PICK a, b, c \in sent :
        /\ t = [hdr |-> a.tok.hdr, payload |-> b.tok.payload, sig |-> c.tok.sig]
        /\ t.hdr = a.tok.hdr /\ t.payload = b.tok.payload /\ t.sig = c.tok.sig
  BY ArrivingSegments
<1>2. SentOK(c)
  BY DEF SentInv
<1>3. c.tok = [hdr |-> c.tok.hdr, payload |-> c.tok.payload, sig |-> c.tok.sig]
  BY <1>2 DEF SentOK
<1>4. c.tok.sig.hdr = c.tok.hdr /\ c.tok.sig.payload = c.tok.payload
  BY <1>2 DEF SentOK
<1> QED BY <1>1, <1>3, <1>4

\* What a successful Parse has passed.
LEMMA ParsePassed ==
  ASSUME NEW t, NEW cfg, parseError(t, cfg) = {}
  PROVE  signatureError(t, cfg) = {} /\ claimsError(t, cfg) = {} /\ decodeError(t) = {}
BY DEF parseError, parseVerified

\* One claim of a token, read into a struct.
LEMMA ReadMember ==
  ASSUME NEW into, NEW type, NEW c, NEW f \in DOMAIN ZeroClaims
  PROVE  Unmarshal(into, Marshal(type, c), ZeroClaims)[f] =
           IF f \in Fields[into] /\ f \in Emitted(type, c) THEN Content(f, Written(f, c))
           ELSE ZeroClaims[f]
<1> DEFINE j == Marshal(type, c)
<1>1. DOMAIN j.obj = Emitted(type, c) /\ \A g \in Emitted(type, c) : j.obj[g] = Written(g, c)
  BY MarshalMembers
<1> HIDE DEF j
<1>2. Unmarshal(into, j, ZeroClaims)[f] =
        IF f \notin Fields[into] \cap DOMAIN j.obj THEN ZeroClaims[f] ELSE Content(f, j.obj[f])
  BY UnmarshalMembers
<1> QED BY <1>1, <1>2 DEF j

\* A token that arrived whole.
LEMMA WholeClaims ==
  ASSUME SentInv, NEW s \in Whole("claims")
  PROVE  /\ s \in sent /\ s.tok = last.tok /\ SentOK(s)
         /\ s.src.type \in DOMAIN Fields /\ ClaimsType(s.src.claims)
         /\ CanMarshal(s.src.type, s.src.claims)
         /\ last.tok.payload = Marshal(s.src.type, s.src.claims)
<1>1. s \in sent /\ s.tok = last.tok /\ s.kind = "claims" /\ SentOK(s)
  BY DEF Whole, SentInv
<1>2. Contains("claims", s.src, s.tok.hdr, s.tok.payload)
  BY <1>1 DEF SentOK
<1> QED BY <1>1, <1>2 DEF Contains

\* A CMW that arrived whole is the encoding of a valid one.
LEMMA WholeCMW ==
  ASSUME SentInv, NEW s \in Whole("cmw")
  PROVE  /\ s \in sent /\ s.tok = last.tok /\ SentOK(s)
         /\ Validate(s.src) /\ last.tok.payload = marshal(s.src) /\ last.tok.hdr.cty = CMWContentType
<1>1. s \in sent /\ s.tok = last.tok /\ s.kind = "cmw" /\ SentOK(s)
  BY DEF Whole, SentInv
<1>2. Contains("cmw", s.src, s.tok.hdr, s.tok.payload)
  BY <1>1 DEF SentOK
<1> QED BY <1>1, <1>2 DEF Contains

\* Claims that pass the profile have each of these.
LEMMA AccessPassed ==
  ASSUME NEW d, ValidateAccessTokenClaims(d) = {}
  PROVE  /\ d["iss"] # "" /\ d["sub"] # "" /\ d["client_id"] # "" /\ d["jti"] # ""
         /\ d["exp"] # NoDate /\ d["iat"] # NoDate /\ d["aud"] # NilAud /\ d["aud"] # <<>>
         /\ \A i \in DOMAIN d["aud"] : d["aud"][i] # ""
BY DEF ValidateAccessTokenClaims

\* They were all in the token.
LEMMA AccessEmitted ==
  ASSUME NEW type, NEW c, ClaimsType(c), NEW into, NEW d,
         d = Unmarshal(into, Marshal(type, c), ZeroClaims), ValidateAccessTokenClaims(d) = {}
  PROVE  /\ {"iss", "sub", "jti", "client_id", "exp", "iat", "aud"} \subseteq Emitted(type, c)
         /\ "" \notin {c.client_id} \cup {c.aud[i] : i \in DOMAIN c.aud}
<1>1. /\ d["iss"] # "" /\ d["sub"] # "" /\ d["client_id"] # "" /\ d["jti"] # ""
      /\ d["exp"] # NoDate /\ d["iat"] # NoDate /\ d["aud"] # NilAud /\ d["aud"] # <<>>
      /\ \A i \in DOMAIN d["aud"] : d["aud"][i] # ""
  BY AccessPassed
<1>2. \A f \in DOMAIN ZeroClaims :
        d[f] = IF f \in Fields[into] /\ f \in Emitted(type, c) THEN Content(f, Written(f, c))
               ELSE ZeroClaims[f]
  BY ReadMember
<1>3. \A f \in DOMAIN ZeroClaims : d[f] # ZeroClaims[f] => f \in Emitted(type, c)
                                                          /\ d[f] = Content(f, Written(f, c))
  BY <1>2
<1>4. /\ {"iss", "sub", "jti", "client_id"} = Strings /\ {"exp", "iat"} \subseteq Dates
      /\ Strings \cup Dates \cup {"aud"} \subseteq DOMAIN ZeroClaims
  BY FieldNames
<1>5. \A f \in Strings : f \in Emitted(type, c) /\ d[f] = c[f]
  <2> SUFFICES ASSUME NEW f \in Strings PROVE f \in Emitted(type, c) /\ d[f] = c[f]
    OBVIOUS
  <2>1. d[f] # ZeroClaims[f]
    BY <1>1, <1>4, ZeroFields
  <2>2. Content(f, Written(f, c)) = c[f]
    BY StringRead
  <2> QED BY <1>3, <1>4, <2>1, <2>2
<1>6. \A f \in {"exp", "iat"} : f \in Emitted(type, c)
  BY <1>1, <1>3, <1>4, ZeroFields
<1>7. "aud" \in Emitted(type, c) /\ d["aud"] = Content("aud", Written("aud", c))
  BY <1>1, <1>3, <1>4, ZeroFields
<1>8. c.aud # <<>> /\ c.aud \in Seq(STRING)
  <2>1. c.aud # <<>>
    BY <1>7 DEF Emitted, Strings, Dates
  <2> QED BY <2>1, ClaimsFields
<1>9. d["aud"] = c.aud
  BY <1>7, <1>8, AudienceRead
<1>10. d["client_id"] = c["client_id"]
  BY <1>4, <1>5
<1>11. "" \notin {c.client_id} \cup {c.aud[i] : i \in DOMAIN c.aud}
  BY <1>1, <1>9, <1>10
<1> QED BY <1>4, <1>5, <1>6, <1>7, <1>11

\* dst is the content of the last token that a call accepted, and claims that pass the access token profile were
\* signed as one token with every claim that RFC 9068 requires.
THEOREM ClaimsHaveOneSource == Spec => []OneSource
<1>1. ASSUME Inv PROVE OneSource
  <2>1. DstInv /\ SentInv /\ AccessInv
    BY <1>1 DEF Inv
  <2>2. ASSUME Accepted("ValidateAccessTokenClaims"), NEW s \in Whole("claims")
        PROVE  LET c == s.src.claims IN
               /\ {"iss", "sub", "jti", "client_id", "exp", "iat", "aud"} \subseteq Emitted(s.src.type, c)
               /\ "" \notin {c.client_id} \cup {c.aud[i] : i \in DOMAIN c.aud}
    <3>1. last.op = "ValidateAccessTokenClaims" /\ last.err = {}
      BY <2>2 DEF Accepted, Called
    <3>2. PICK t \in Arriving : /\ last.tok = t /\ dst = decodeFreshObject(t)
                                /\ last.err = ValidateAccessTokenClaims(dst)
      BY <2>1, <3>1 DEF AccessInv
    <3>3. ClaimsType(s.src.claims) /\ last.tok.payload = Marshal(s.src.type, s.src.claims)
      BY <2>1, <2>2, WholeClaims
    <3>4. dst = Unmarshal(S.type, Marshal(s.src.type, s.src.claims), ZeroClaims)
      BY <3>2, <3>3 DEF decodeFreshObject
    <3>5. ValidateAccessTokenClaims(dst) = {}
      BY <3>1, <3>2
    <3>6. PICK type, c, into, d : type = s.src.type /\ c = s.src.claims /\ into = S.type /\ d = dst
      OBVIOUS
    <3> QED BY <3>3, <3>4, <3>5, <3>6, AccessEmitted
  <2> QED BY <2>1, <2>2 DEF OneSource, DstInv
<1> QED BY <1>1, Invariant, PTL

\* The one content type that is taken for a CMW's.
LEMMA CMWTypeIs ==
  ASSUME NEW hdr, MediaType(hdr.cty), cmwType(hdr)
  PROVE  hdr.cty = CMWContentType
<1> DEFINE m == hdr.cty
<1>1. normType(m) = normType(CMWContentType) /\ m.top # ""
  BY DEF cmwType, typeMatches
<1>2. m = [top |-> m.top, sub |-> m.sub]
  BY DEF MediaType
<1> HIDE DEF m
<1>3. normType(m).top = m.top /\ normType(m).sub = IF m.sub = "JWT" THEN "jwt" ELSE m.sub
  BY <1>1 DEF normType
<1>4. normType(CMWContentType).top = "application" /\ normType(CMWContentType).sub = "cmw+json"
  BY DEF normType, CMWContentType
<1>5. m.top = "application" /\ m.sub = "cmw+json"
  BY <1>1, <1>3, <1>4
<1> QED BY <1>2, <1>5 DEF CMWContentType, m

\* The registered claims have passed what was required of them.
LEMMA ClaimsChecked ==
  ASSUME NEW t, NEW cfg, claimsError(t, cfg) = {}
  PROVE  LET reg == Unmarshal("RegisteredClaims", t.payload, ZeroClaims) IN
         /\ CanUnmarshal("RegisteredClaims", t.payload)
         /\ cfg.required \subseteq present(t.payload)
         /\ cfg.issuer # "" => reg["iss"] = cfg.issuer
         /\ cfg.audience # "" => cfg.audience \in {reg["aud"][i] : i \in DOMAIN reg["aud"]}
<1> DEFINE reg == Unmarshal("RegisteredClaims", t.payload, ZeroClaims)
           tok == [exp |-> Shifted(reg.exp), nbf |-> Shifted(reg.nbf), iss |-> reg.iss,
                   aud |-> {reg.aud[i] : i \in DOMAIN reg.aud}, typ |-> t.hdr.typ,
                   present |-> present(t.payload)]
<1>1. CanUnmarshal("RegisteredClaims", t.payload) /\ validateClaims(tok, cfg, Shifted(now)) = {}
  BY DEF claimsError
<1>2. /\ tok.present = present(t.payload) /\ tok.iss = reg["iss"]
      /\ tok.aud = {reg["aud"][i] : i \in DOMAIN reg["aud"]}
  OBVIOUS
<1> HIDE DEF tok
<1>3. /\ cfg.required \subseteq tok.present /\ (cfg.issuer # "" => tok.iss = cfg.issuer)
      /\ audienceOK(tok.aud, cfg)
  BY <1>1 DEF validateClaims
<1>4. cfg.audience # "" => cfg.audience \in tok.aud
  BY <1>3 DEF audienceOK
<1> QED BY <1>1, <1>2, <1>3, <1>4

\* No member of a CMW can be read as a registered claim but the audience.
LEMMA CMWNotClaims ==
  ASSUME NEW c, Validate(c), NEW f \in registered \ {"aud"}, f \in present(marshal(c))
  PROVE  ~CanUnmarshal("RegisteredClaims", marshal(c))
<1> SUFFICES ASSUME CanUnmarshal("RegisteredClaims", marshal(c)) PROVE FALSE
  OBVIOUS
<1> DEFINE j == marshal(c)
<1>1. IsObject(j) /\ \A g \in Fields["RegisteredClaims"] \cap DOMAIN j.obj : Readable(g, j.obj[g])
  BY CanUnmarshalMembers
<1>2. f \in DOMAIN j.obj
  BY DEF present
<1>3. f \in Strings \cup Dates /\ f \in Fields["RegisteredClaims"]
  BY FieldNames
<1>4. f # collectionTypeKey
  BY <1>3, FieldNames DEF collectionTypeKey
<1>5. ~Is("null", j.obj[f]) /\ ~Is("str", j.obj[f]) /\ ~Is("num", j.obj[f])
  BY <1>1, <1>2, <1>4, MemberNotPlain
<1> HIDE DEF j
<1>6. Readable(f, j.obj[f])
  BY <1>1, <1>2, <1>3
<1>7. ~IsString(j.obj[f]) /\ ~DateOK(j.obj[f])
  BY <1>5 DEF IsString, DateOK
<1> QED BY <1>3, <1>6, <1>7, FieldCases

\* A CMW and a Claims Set are not taken for each other, even when segments are recombined.
THEOREM CMWsAndClaimsAreSeparate == Spec => []Separate
<1>1. ASSUME Inv PROVE Separate
  <2>0. SentInv /\ KeyOK(key) /\ ParseInv /\ CMWInv
    BY <1>1 DEF Inv, KeyInv
  <2>1. ASSUME Accepted("ParseSignedCMW")
        PROVE  \/ Whole("cmw") # {}
               \/ \E s \in Whole("claims") \cup Whole("value") : s.tok.hdr.cty = CMWContentType
    <3>1. last.op = "ParseSignedCMW" /\ last.err = {}
      BY <2>1 DEF Accepted, Called
    <3>2. PICK t \in Arriving, opts \in S.parseOpts :
            last.tok = t /\ last.err = cmwError(t, Configured(opts))
      BY <2>0, <3>1 DEF CMWInv
    <3>3. PICK cfg : cfg = Configured(opts)
      OBVIOUS
    <3>4. signatureError(t, cfg) = {} /\ cmwType(t.hdr)
      BY <3>1, <3>2, <3>3 DEF cmwError
    <3>5. t.sig.hdr = t.hdr /\ t.sig.payload = t.payload
      BY <2>0, <3>4, SignaturePassed
    <3>6. PICK s \in sent : s.tok = t
      BY <2>0, <3>5, SentWhole
    <3>7. SentOK(s) /\ MediaType(t.hdr.cty) /\ s.kind \in {"claims", "value", "cmw"}
      BY <2>0, <3>6 DEF SentInv, SentOK, Contains
    <3>8. s.tok.hdr.cty = CMWContentType
      BY <3>4, <3>6, <3>7, CMWTypeIs
    <3>9. s \in Whole(s.kind)
      BY <3>2, <3>6 DEF Whole
    <3> QED BY <3>7, <3>8, <3>9
  <2>2. ASSUME Accepted("Parse"), Configured(last.opts).required \cap (registered \ {"aud"}) # {}
        PROVE  Whole("cmw") = {}
    <3> SUFFICES ASSUME NEW s \in Whole("cmw") PROVE FALSE
      OBVIOUS
    <3>1. last.op = "Parse" /\ last.err = {}
      BY <2>2 DEF Accepted, Called
    <3>2. PICK t \in Arriving, opts \in S.parseOpts :
            last = [op |-> "Parse", tok |-> t, opts |-> opts, err |-> parseError(t, Configured(opts))]
      BY <2>0, <3>1 DEF ParseInv
    <3>3. last.tok = t /\ last.opts = opts /\ parseError(t, Configured(opts)) = {}
      BY <3>1, <3>2
    <3>4. PICK cfg : cfg = Configured(opts)
      OBVIOUS
    <3>5. claimsError(t, cfg) = {}
      BY <3>3, <3>4, ParsePassed
    <3>6. CanUnmarshal("RegisteredClaims", t.payload) /\ cfg.required \subseteq present(t.payload)
      BY <3>5, ClaimsChecked
    <3>7. Validate(s.src) /\ t.payload = marshal(s.src)
      BY <2>0, <3>3, WholeCMW
    <3>8. PICK f \in registered \ {"aud"} : f \in cfg.required
      BY <2>2, <3>3, <3>4
    <3>9. PICK c : c = s.src
      OBVIOUS
    <3> QED BY <3>6, <3>7, <3>8, <3>9, CMWNotClaims
  <2> QED BY <2>1, <2>2 DEF Separate
<1> QED BY <1>1, Invariant, PTL

\* A value in which a string is written in one way only, by itself and in an array.
Tidy(j) ==
  /\ Is("str", j) => j = Str(j.str)
  /\ Is("arr", j) => \A i \in DOMAIN j.arr : Is("str", j.arr[i]) => j.arr[i] = Str(j.arr[i].str)

\* The JSON values that occur are.
LEMMA DocumentTidy == ASSUME NEW j \in Documents PROVE Tidy(j)
<1>1. ASSUME NEW d \in Documents, Is("str", d) PROVE d = Str(d.str)
  <2>1. DocumentType(d)
    BY ValuesAssumption
  <2>2. ~Is("num", d) /\ ~Is("arr", d) /\ ~Is("obj", d) /\ d # Null
    BY <1>1, NullKind DEF Is
  <2> QED BY <2>1, <2>2 DEF DocumentType
<1>2. ASSUME Is("arr", j) PROVE \A i \in DOMAIN j.arr : j.arr[i] \in Documents
  <2>1. DocumentType(j)
    BY ValuesAssumption
  <2>2. ~Is("num", j) /\ ~Is("str", j) /\ ~Is("obj", j) /\ j # Null
    BY <1>2, NullKind DEF Is
  <2>3. j.arr \in Seq(Documents)
    BY <2>1, <2>2 DEF DocumentType
  <2> QED BY <2>3
<1> QED BY <1>1, <1>2 DEF Tidy

\* So are the members of an object.
LEMMA MemberTidy ==
  ASSUME NEW p \in Documents, IsObject(p), NEW f \in DOMAIN p.obj PROVE Tidy(p.obj[f])
<1>1. DocumentType(p)
  BY ValuesAssumption
<1>2. ~Is("num", p) /\ ~Is("str", p) /\ ~Is("arr", p) /\ p # Null
  BY NullKind DEF IsObject, Is
<1>3. p.obj \in [DOMAIN p.obj -> Documents]
  BY <1>1, <1>2 DEF DocumentType
<1>4. p.obj[f] \in Documents
  BY <1>3
<1> QED BY <1>4, DocumentTidy

\* So are the issuer and the audience as they are written.
LEMMA WrittenTidy ==
  ASSUME NEW f \in {"iss", "aud"}, NEW c PROVE Tidy(Written(f, c))
<1>1. \A x : Tidy(Str(x))
  BY StrKind DEF Tidy
<1>2. ASSUME NEW aud PROVE Tidy(Arr([i \in DOMAIN aud |-> Str(aud[i])]))
  <2> DEFINE arr == [i \in DOMAIN aud |-> Str(aud[i])]
  <2>1. \A i \in DOMAIN arr : arr[i] = Str(aud[i])
    OBVIOUS
  <2> HIDE DEF arr
  <2>2. \A i \in DOMAIN arr : arr[i] = Str(arr[i].str)
    BY <2>1, StrKind
  <2>3. Tidy(Arr(arr))
    BY <2>2, ArrKind DEF Tidy
  <2> QED BY <2>3 DEF arr
<1>3. CASE f = "iss"
  <2>1. Written(f, c) = Str(c["iss"])
    BY <1>3, FieldCases, FieldNames
  <2> QED BY <1>1, <2>1
<1>4. CASE f = "aud"
  <2>1. Written(f, c) = MarshalAudience(c.aud)
    BY <1>4, FieldCases
  <2>2. \/ MarshalAudience(c.aud) = Str(c.aud[1])
        \/ MarshalAudience(c.aud) = Arr([i \in DOMAIN c.aud |-> Str(c.aud[i])])
    BY DEF MarshalAudience
  <2> QED BY <1>1, <1>2, <2>1, <2>2
<1> QED BY <1>3, <1>4

\* So are the issuer and the audience in any token that was sent.
LEMMA SentTidy ==
  ASSUME NEW s, SentOK(s), IsObject(s.tok.payload), NEW f \in {"iss", "aud"},
         f \in DOMAIN s.tok.payload.obj
  PROVE  Tidy(s.tok.payload.obj[f])
<1> DEFINE p == s.tok.payload
<1>1. Contains(s.kind, s.src, s.tok.hdr, p)
  BY DEF SentOK
<1>2. CASE p \in Documents
  BY <1>2, MemberTidy
<1>3. CASE p = Marshal(s.src.type, s.src.claims)
  <2>1. PICK type, c : type = s.src.type /\ c = s.src.claims
    OBVIOUS
  <2>2. p.obj[f] = Written(f, c)
    BY <1>3, <2>1, MarshalMembers
  <2> QED BY <2>2, WrittenTidy
<1>4. ASSUME Validate(s.src), p = marshal(s.src) PROVE p \in Documents
  <2>1. s.src \in CMWs
    BY <1>4, MarshalUnfold
  <2> QED BY <1>4, <2>1, ValuesAssumption
<1> QED BY <1>1, <1>2, <1>3, <1>4 DEF Contains

\* The issuer that was read is in the token.
LEMMA IssuerRead ==
  ASSUME NEW j, CanUnmarshal("RegisteredClaims", j), NEW issuer, issuer # "",
         Unmarshal("RegisteredClaims", j, ZeroClaims)["iss"] = issuer,
         "iss" \in DOMAIN j.obj => Tidy(j.obj["iss"])
  PROVE  "iss" \in DOMAIN j.obj /\ j.obj["iss"] = Str(issuer)
<1>0. "iss" \in Strings /\ "iss" \in Fields["RegisteredClaims"] /\ "iss" \in DOMAIN ZeroClaims
  BY FieldNames
<1>1. issuer = IF "iss" \notin Fields["RegisteredClaims"] \cap DOMAIN j.obj THEN ZeroClaims["iss"]
               ELSE Content("iss", j.obj["iss"])
  BY <1>0, UnmarshalMembers
<1>2. "iss" \in DOMAIN j.obj /\ issuer = Content("iss", j.obj["iss"])
  BY <1>0, <1>1, ZeroFields
<1>3. issuer = AsString(j.obj["iss"])
  BY <1>0, <1>2, FieldCases
<1>4. IsString(j.obj["iss"])
  BY <1>0, <1>2, CanUnmarshalMembers, FieldCases
<1>5. Is("str", j.obj["iss"]) /\ j.obj["iss"].str = issuer
  BY <1>3, <1>4 DEF IsString, AsString
<1> QED BY <1>2, <1>5 DEF Tidy

\* A sequence of one element.
LEMMA OneElement == ASSUME NEW x PROVE \A i \in DOMAIN <<x>> : <<x>>[i] = x
<1>1. DOMAIN <<x>> = 1..1
  OBVIOUS
<1>2. \A i \in 1..1 : i = 1
  OBVIOUS
<1> QED BY <1>1, <1>2

\* So is the audience.
LEMMA AudienceReadIn ==
  ASSUME NEW j, CanUnmarshal("RegisteredClaims", j), NEW audience, audience # "",
         audience # NilAud[1], NEW aud, aud = Unmarshal("RegisteredClaims", j, ZeroClaims)["aud"],
         \E i \in DOMAIN aud : audience = aud[i],
         "aud" \in DOMAIN j.obj => Tidy(j.obj["aud"])
  PROVE  /\ "aud" \in DOMAIN j.obj
         /\ \/ j.obj["aud"] = Str(audience)
            \/ Is("arr", j.obj["aud"]) /\ \E i \in DOMAIN j.obj["aud"].arr :
                                             j.obj["aud"].arr[i] = Str(audience)
<1>0. "aud" \in Fields["RegisteredClaims"] /\ "aud" \in DOMAIN ZeroClaims
  BY FieldNames
<1>1. aud = IF "aud" \notin Fields["RegisteredClaims"] \cap DOMAIN j.obj THEN ZeroClaims["aud"]
            ELSE Content("aud", j.obj["aud"])
  BY <1>0, UnmarshalMembers
<1>2. aud # NilAud
  <2>1. \A i \in DOMAIN NilAud : NilAud[i] = NilAud[1]
    BY OneElement DEF NilAud
  <2> QED BY <2>1
<1>3. "aud" \in DOMAIN j.obj /\ aud = UnmarshalAudience(j.obj["aud"])
  BY <1>0, <1>1, <1>2, ZeroFields, FieldCases
<1>4. AudienceOK(j.obj["aud"])
  BY <1>0, <1>3, CanUnmarshalMembers, FieldCases
<1> DEFINE m == j.obj["aud"]
<1>5. Tidy(m)
  BY <1>3
<1> HIDE DEF m
<1>6. CASE Is("arr", m)
  <2>1. aud = [i \in DOMAIN m.arr |-> AsString(m.arr[i])]
    BY <1>3, <1>6 DEF UnmarshalAudience, m, Is
  <2>2. PICK i \in DOMAIN m.arr : audience = AsString(m.arr[i])
    BY <2>1
  <2>3. IsString(m.arr[i])
    BY <1>4, <1>6 DEF AudienceOK, IsString, Is, m
  <2>4. Is("str", m.arr[i]) /\ m.arr[i].str = audience
    BY <2>2, <2>3 DEF IsString, AsString
  <2>5. m.arr[i] = Str(audience)
    BY <1>5, <1>6, <2>4 DEF Tidy
  <2> QED BY <1>3, <1>6, <2>5 DEF m
<1>7. CASE ~Is("arr", m)
  <2>1. Is("str", m) /\ aud = <<m.str>>
    BY <1>2, <1>3, <1>4, <1>7 DEF AudienceOK, IsString, UnmarshalAudience, m
  <2>2. audience = m.str
    BY <2>1, OneElement
  <2> QED BY <1>3, <1>5, <2>1, <2>2 DEF Tidy, m
<1> QED BY <1>6, <1>7

\* An accepted token meets what the options say together: the last issuer and the last
\* audience that were set, every claim that is required, an algorithm that is allowed; and
\* the key was published for signatures, if it was fetched.
THEOREM OptionsAreHonoured == Spec => []PolicyHolds
<1>1. ASSUME Inv PROVE PolicyHolds
  <2> SUFFICES ASSUME Accepted("Parse") PROVE PolicyHolds
    BY DEF PolicyHolds
  <2>0. SentInv /\ KeyOK(key) /\ ParseInv /\ SceneInv
    BY <1>1 DEF Inv, KeyInv
  <2>1. last.op = "Parse" /\ last.err = {}
    BY DEF Accepted, Called
  <2>2. PICK t \in Arriving, opts \in S.parseOpts :
          last = [op |-> "Parse", tok |-> t, opts |-> opts, err |-> parseError(t, Configured(opts))]
    BY <2>0, <2>1 DEF ParseInv
  <2>3. last.tok = t /\ last.opts = opts /\ parseError(t, Configured(opts)) = {}
    BY <2>1, <2>2
  <2>4. OptionsType(opts)
    BY <2>0, SceneAssumption DEF SceneInv, S, OptionsType
  <2>5. PICK cfg : cfg = Configured(opts)
    OBVIOUS
  <2>6. signatureError(t, cfg) = {} /\ claimsError(t, cfg) = {}
    BY <2>3, <2>5, ParsePassed
  <2>7. ConfigSummary(opts, Len(opts), cfg)
    BY <2>4, <2>5, ConfiguredSummary
  <2>8. Effective(opts, "issuer") = cfg.issuer /\ Effective(opts, "audience") = cfg.audience
    <3>1. Said(opts, Len(opts), "issuer", cfg["issuer"]) /\ Said(opts, Len(opts), "audience", cfg["audience"])
      BY <2>7 DEF ConfigSummary
    <3> QED BY <2>4, <3>1, EffectiveSaid
  <2>9. Merged(opts, "required") \subseteq cfg.required
    <3>1. Gathered(opts, Len(opts), "required", cfg["required"])
      BY <2>7 DEF ConfigSummary
    <3> QED BY <2>4, <3>1, MergedInConfig
  <2>10. cfg.algs \subseteq Merged(opts, "algs")
    <3>1. Gathered(opts, Len(opts), "algs", cfg["algs"])
      BY <2>7 DEF ConfigSummary
    <3> QED BY <2>4, <3>1, MergedGathered
  <2>11. /\ key # NoKey /\ t.hdr.alg \in cfg.algs /\ verifierForAlg(key, t.hdr.alg) = {}
         /\ t.sig.hdr = t.hdr /\ t.sig.payload = t.payload
    BY <2>0, <2>6, SignaturePassed
  <2>12. PICK s \in sent : s.tok = t
    BY <2>0, <2>11, SentWhole
  <2> DEFINE j == t.payload
             reg == Unmarshal("RegisteredClaims", j, ZeroClaims)
  <2>13. /\ CanUnmarshal("RegisteredClaims", j) /\ cfg.required \subseteq present(j)
         /\ cfg.issuer # "" => reg["iss"] = cfg.issuer
         /\ cfg.audience # "" => cfg.audience \in {reg["aud"][i] : i \in DOMAIN reg["aud"]}
    BY <2>6, ClaimsChecked
  <2>14. \A f \in {"iss", "aud"} : f \in DOMAIN j.obj => Tidy(j.obj[f])
    <3>1. SentOK(s) /\ IsObject(j)
      BY <2>0, <2>13, CanUnmarshalMembers DEF SentInv
    <3> QED BY <2>12, <3>1, SentTidy
  <2> HIDE DEF j
  <2>15. cfg.issuer # "" => "iss" \in DOMAIN j.obj /\ j.obj["iss"] = Str(cfg.issuer)
    BY <2>13, <2>14, IssuerRead
  <2>16. cfg.audience # "" =>
           /\ "aud" \in DOMAIN j.obj
           /\ \/ j.obj["aud"] = Str(cfg.audience)
              \/ Is("arr", j.obj["aud"]) /\ \E i \in DOMAIN j.obj["aud"].arr :
                                               j.obj["aud"].arr[i] = Str(cfg.audience)
    <3>1. cfg.audience # NilAud[1]
      BY <2>7 DEF ConfigSummary
    <3>2. PICK aud, audience : aud = reg["aud"] /\ audience = cfg.audience
      OBVIOUS
    <3>3. audience # "" => \E i \in DOMAIN aud : audience = aud[i]
      BY <2>13, <3>2
    <3>4. "aud" \in DOMAIN j.obj => Tidy(j.obj["aud"])
      BY <2>14
    <3>5. aud = Unmarshal("RegisteredClaims", j, ZeroClaims)["aud"] /\ CanUnmarshal("RegisteredClaims", j)
      BY <2>13, <3>2
    <3> HIDE DEF reg
    <3>6. audience # "" =>
            /\ "aud" \in DOMAIN j.obj
            /\ \/ j.obj["aud"] = Str(audience)
               \/ Is("arr", j.obj["aud"]) /\ \E i \in DOMAIN j.obj["aud"].arr :
                                                j.obj["aud"].arr[i] = Str(audience)
      BY <3>1, <3>2, <3>3, <3>4, <3>5, AudienceReadIn
    <3> QED BY <3>2, <3>6
  <2>17. key.kty # "oct" => /\ key.use # "enc"
                            /\ {classOf(op) : op \in key.ops} \cap {"enc", "derive"} = {}
    <3> SUFFICES ASSUME key.kty # "oct"
                 PROVE  /\ key.use # "enc"
                        /\ {classOf(op) : op \in key.ops} \cap {"enc", "derive"} = {}
      OBVIOUS
    <3>1. PICK k : CanServe(k) /\ key = asKey(k)
      BY <2>0, <2>11 DEF KeyOK
    <3>2. permitsVerify(key, t.hdr.alg)
      BY <2>11 DEF verifierForAlg
    <3> QED BY <3>1, <3>2, ServedForOnePurpose
  <2>18. Merged(opts, "required") \subseteq present(j) /\ t.hdr.alg \in Merged(opts, "algs")
    BY <2>9, <2>10, <2>11, <2>13
  <2> QED BY <2>3, <2>8, <2>15, <2>16, <2>17, <2>18 DEF PolicyHolds, j
<1> QED BY <1>1, Invariant, PTL

\* Moving times so that 0 is free for a missing claim keeps them apart.
LEMMA ShiftedIs ==
  ASSUME NEW t \in Int
  PROVE  Shifted(t) \in Int /\ Shifted(t) = t - NoDate /\ (Shifted(t) = None <=> t = NoDate)
BY DateRange DEF Shifted, None

\* A date of the token, as it is checked.
LEMMA DateAsRead ==
  ASSUME NEW type \in DOMAIN Fields, NEW c, ClaimsType(c), NEW f \in Dates,
         CanUnmarshal("RegisteredClaims", Marshal(type, c)),
         NEW d, d = Unmarshal("RegisteredClaims", Marshal(type, c), ZeroClaims)[f]
  PROVE  /\ c[f] \in Int /\ d \in Int
         /\ c[f] = NoDate => d = NoDate
         /\ c[f] # NoDate => d = Float(c[f]) /\ d # NoDate
<1>0. /\ f \in Fields[type] /\ f \in Fields["RegisteredClaims"] /\ f \in DOMAIN ZeroClaims
      /\ f \notin Strings /\ f # "aud" /\ f # "cmw"
  <2>1. /\ Dates \subseteq Fields[type] /\ Dates \subseteq Fields["RegisteredClaims"]
        /\ Dates \subseteq DOMAIN ZeroClaims
    BY FieldNames
  <2>2. f \notin Strings /\ f # "aud" /\ f # "cmw"
    BY DEF Dates, Strings
  <2> QED BY <2>1, <2>2
<1>1. c[f] \in Int
  BY ClaimsFields
<1>2. f \in Emitted(type, c) <=> c[f] # NoDate
  BY <1>0 DEF Emitted
<1>3. d = IF f \in Emitted(type, c) THEN Content(f, Written(f, c)) ELSE ZeroClaims[f]
  BY <1>0, ReadMember
<1>4. c[f] = NoDate => d = NoDate
  BY <1>2, <1>3, ZeroFields
<1>5. c[f] # NoDate => d = Float(c[f])
  BY <1>1, <1>2, <1>3, DateRead
<1>6. ASSUME c[f] # NoDate PROVE d # NoDate
  <2>1. f \in Emitted(type, c)
    BY <1>2, <1>6
  <2>2. Readable(f, Marshal(type, c).obj[f]) /\ Marshal(type, c).obj[f] = Written(f, c)
    BY <1>0, <2>1, CanUnmarshalMembers, MarshalMembers
  <2>3. MinDate * Second <= Float(c[f])
    BY <1>1, <2>2, DateRead
  <2>4. Float(c[f]) \in Int
    BY <1>1, FloatNear
  <2>5. NoDate < MinDate * Second /\ NoDate \in Int /\ MinDate * Second \in Int
    BY DateRange
  <2>6. PICK m \in Int, x \in Int : m = MinDate * Second /\ x = Float(c[f])
    BY <2>4, <2>5
  <2>7. NoDate # x
    BY <2>3, <2>5, <2>6
  <2> QED BY <1>5, <1>6, <2>6, <2>7
<1>7. d \in Int
  BY <1>1, <1>4, <1>5, FloatNear, DateRange
<1> QED BY <1>1, <1>4, <1>5, <1>6, <1>7

\* What the two checks of time say about what was read.
LEMMA TimeChecked ==
  ASSUME NEW tok, NEW cfg, NEW n \in Int, cfg.leeway \in Int, tok.exp \in Int, tok.nbf \in Int
  PROVE  /\ validateClaims(tok, cfg, n) = {} =>
              /\ tok.exp # None => n - cfg.leeway < tok.exp
              /\ tok.nbf # None => tok.nbf <= n + cfg.leeway
         /\ validateClaims(tok, cfg, n) = {"ErrExpired"} =>
              tok.exp # None /\ tok.exp <= n - cfg.leeway
<1>1. /\ validateClaims(tok, cfg, n) = {} => (tok.exp # None => n - cfg.leeway < tok.exp)
                                             /\ (tok.nbf # None => ~(n + cfg.leeway < tok.nbf))
      /\ validateClaims(tok, cfg, n) = {"ErrExpired"} => tok.exp # None /\ ~(n - cfg.leeway < tok.exp)
  BY DEF validateClaims
<1>2. /\ ~(n + cfg.leeway < tok.nbf) => tok.nbf <= n + cfg.leeway
      /\ ~(n - cfg.leeway < tok.exp) => tok.exp <= n - cfg.leeway
  OBVIOUS
<1> QED BY <1>1, <1>2

\* The comparison of shifted times is the comparison of times.
LEMMA ShiftedCompare ==
  ASSUME NEW n \in Int, NEW e \in Int, NEW l \in Int
  PROVE  /\ Shifted(n) - l < Shifted(e) <=> n - l < e
         /\ Shifted(e) <= Shifted(n) + l <=> e <= n + l
         /\ Shifted(e) <= Shifted(n) - l <=> e <= n - l
<1>1. Shifted(n) = n - NoDate /\ Shifted(e) = e - NoDate /\ NoDate \in Int
  BY ShiftedIs, DateRange
<1> HIDE DEF NoDate
<1> QED BY <1>1

\* What the claims checks say about the times in the payload.
LEMMA ClaimsTime ==
  ASSUME NEW t, NEW cfg, cfg.leeway \in Int, now \in Int, NEW exp \in Int, NEW nbf \in Int,
         exp = Unmarshal("RegisteredClaims", t.payload, ZeroClaims)["exp"],
         nbf = Unmarshal("RegisteredClaims", t.payload, ZeroClaims)["nbf"]
  PROVE  /\ claimsError(t, cfg) = {} => /\ exp # NoDate => now - cfg.leeway < exp
                                        /\ nbf # NoDate => nbf <= now + cfg.leeway
         /\ claimsError(t, cfg) = {"ErrExpired"} => exp # NoDate /\ exp <= now - cfg.leeway
<1> DEFINE reg == Unmarshal("RegisteredClaims", t.payload, ZeroClaims)
           tok == [exp |-> Shifted(reg.exp), nbf |-> Shifted(reg.nbf), iss |-> reg.iss,
                   aud |-> {reg.aud[i] : i \in DOMAIN reg.aud}, typ |-> t.hdr.typ,
                   present |-> present(t.payload)]
<1>1. claimsError(t, cfg) = IF ~CanUnmarshal("RegisteredClaims", t.payload) THEN {"ErrMalformedToken"}
                            ELSE validateClaims(tok, cfg, Shifted(now))
  BY DEF claimsError
<1>2. tok.exp = Shifted(exp) /\ tok.nbf = Shifted(nbf)
  OBVIOUS
<1> HIDE DEF tok, reg
<1>3. /\ Shifted(now) \in Int /\ Shifted(exp) \in Int /\ Shifted(nbf) \in Int
      /\ (Shifted(exp) = None <=> exp = NoDate) /\ (Shifted(nbf) = None <=> nbf = NoDate)
  BY ShiftedIs
<1>4. PICK n \in Int : n = Shifted(now)
  BY <1>3
<1>5. /\ validateClaims(tok, cfg, n) = {} =>
           /\ tok.exp # None => n - cfg.leeway < tok.exp
           /\ tok.nbf # None => tok.nbf <= n + cfg.leeway
      /\ validateClaims(tok, cfg, n) = {"ErrExpired"} =>
           tok.exp # None /\ tok.exp <= n - cfg.leeway
  BY <1>2, <1>3, TimeChecked
<1>6. /\ claimsError(t, cfg) = {} => validateClaims(tok, cfg, n) = {}
      /\ claimsError(t, cfg) = {"ErrExpired"} => validateClaims(tok, cfg, n) = {"ErrExpired"}
  BY <1>1, <1>4
<1>7. PICK l \in Int : l = cfg.leeway
  OBVIOUS
<1>8. /\ Shifted(now) - l < Shifted(exp) <=> now - l < exp
      /\ Shifted(nbf) <= Shifted(now) + l <=> nbf <= now + l
      /\ Shifted(exp) <= Shifted(now) - l <=> exp <= now - l
  BY ShiftedCompare
<1> QED BY <1>2, <1>3, <1>4, <1>5, <1>6, <1>7, <1>8

\* Only the claims can be expired.
LEMMA ExpiredClaims ==
  ASSUME NEW t, NEW cfg, parseError(t, cfg) = {"ErrExpired"}
  PROVE  claimsError(t, cfg) = {"ErrExpired"}
<1>1. signatureError(t, cfg) # {"ErrExpired"}
  <2>1. signatureError(t, cfg) \in
          KeyErrors \cup {{"ErrNoAllowedAlgorithms"}, {"ErrAlgorithmNotAllowed"}, {"ErrKeyNotFound"}}
    BY SignatureErrors
  <2> QED BY <2>1 DEF KeyErrors
<1>2. decodeError(t) # {"ErrExpired"}
  BY DEF decodeError
<1>3. parseVerified(t, cfg) \in {signatureError(t, cfg), claimsError(t, cfg)}
  BY DEF parseVerified
<1>4. parseError(t, cfg) \in {parseVerified(t, cfg), decodeError(t)}
  BY DEF parseError
<1> QED BY <1>1, <1>2, <1>3, <1>4

\* float64 moves a time by no more than Blur says, so neither does what is decided from it.
LEMMA BlurredCompare ==
  ASSUME NEW e \in Int, e # NoDate, NEW n \in Int
  PROVE  /\ n < Float(e) => n < e + Blur(e)
         /\ Float(e) <= n => e - Blur(e) <= n
<1>1. Float(e) \in Int /\ Blur(e) \in Nat /\ e - Blur(e) <= Float(e) /\ Float(e) <= e + Blur(e)
  BY FloatNear
<1>2. PICK x \in Int, b \in Int : x = Float(e) /\ b = Blur(e)
  BY <1>1
<1> QED BY <1>1, <1>2

\* exp and nbf are kept to the instant the issuer gave, as far as float64 goes.
THEOREM TimesAreKept == Spec => []SameInstant
<1>1. ASSUME Inv PROVE SameInstant
  <2> SUFFICES ASSUME Called("Parse"), NEW s \in Whole("claims")
               PROVE  LET c == s.src.claims
                          leeway == Configured(last.opts).leeway
                      IN /\ last.err = {} => /\ c.exp = NoDate \/ now - leeway < c.exp + Blur(c.exp)
                                             /\ c.nbf = NoDate \/ c.nbf - Blur(c.nbf) <= now + leeway
                         /\ last.err = {"ErrExpired"} => c.exp - Blur(c.exp) <= now - leeway
    BY DEF SameInstant
  <2>0. SentInv /\ ParseInv /\ SceneInv /\ now \in Int
    BY <1>1 DEF Inv, SceneInv
  <2>1. PICK t \in Arriving, opts \in S.parseOpts :
          last = [op |-> "Parse", tok |-> t, opts |-> opts, err |-> parseError(t, Configured(opts))]
    BY <2>0 DEF ParseInv, Called
  <2>2. last.tok = t /\ last.opts = opts /\ last.err = parseError(t, Configured(opts))
    BY <2>1
  <2>3. PICK cfg : cfg = Configured(opts)
    OBVIOUS
  <2>4. cfg.leeway \in Int
    <3>1. OptionsType(opts)
      BY <2>0, SceneAssumption DEF SceneInv, S, OptionsType
    <3> QED BY <2>3, <3>1, ConfiguredSummary DEF ConfigSummary
  <2>5. PICK type, c : type = s.src.type /\ c = s.src.claims
    OBVIOUS
  <2>6. type \in DOMAIN Fields /\ ClaimsType(c) /\ t.payload = Marshal(type, c)
    BY <2>0, <2>2, <2>5, WholeClaims
  <2>7. CASE ~CanUnmarshal("RegisteredClaims", t.payload)
    <3>1. claimsError(t, cfg) = {"ErrMalformedToken"}
      BY <2>7 DEF claimsError
    <3>2. last.err # {} /\ last.err # {"ErrExpired"}
      BY <2>2, <2>3, <3>1, ParsePassed, ExpiredClaims
    <3> QED BY <3>2
  <2>8. CASE CanUnmarshal("RegisteredClaims", t.payload)
    <3>1. PICK exp, nbf : /\ exp = Unmarshal("RegisteredClaims", t.payload, ZeroClaims)["exp"]
                          /\ nbf = Unmarshal("RegisteredClaims", t.payload, ZeroClaims)["nbf"]
      OBVIOUS
    <3>2. /\ c.exp \in Int /\ exp \in Int /\ (c.exp = NoDate => exp = NoDate)
          /\ c.exp # NoDate => exp = Float(c.exp) /\ exp # NoDate
      <4>1. "exp" \in Dates
        BY DEF Dates
      <4> QED BY <2>6, <2>8, <3>1, <4>1, DateAsRead
    <3>3. /\ c.nbf \in Int /\ nbf \in Int /\ (c.nbf = NoDate => nbf = NoDate)
          /\ c.nbf # NoDate => nbf = Float(c.nbf) /\ nbf # NoDate
      <4>1. "nbf" \in Dates
        BY DEF Dates
      <4> QED BY <2>6, <2>8, <3>1, <4>1, DateAsRead
    <3>4. /\ claimsError(t, cfg) = {} => /\ exp # NoDate => now - cfg.leeway < exp
                                         /\ nbf # NoDate => nbf <= now + cfg.leeway
          /\ claimsError(t, cfg) = {"ErrExpired"} => exp # NoDate /\ exp <= now - cfg.leeway
      BY <2>0, <2>4, <3>1, <3>2, <3>3, ClaimsTime
    <3>5. PICK before \in Int, after \in Int : before = now - cfg.leeway /\ after = now + cfg.leeway
      BY <2>0, <2>4
    <3>6. ASSUME last.err = {}
          PROVE  /\ c.exp = NoDate \/ before < c.exp + Blur(c.exp)
                 /\ c.nbf = NoDate \/ c.nbf - Blur(c.nbf) <= after
      <4>1. claimsError(t, cfg) = {}
        BY <2>2, <2>3, <3>6, ParsePassed
      <4>2. /\ exp # NoDate => before < exp
            /\ nbf # NoDate => nbf <= after
        BY <3>4, <3>5, <4>1
      <4>3. c.exp = NoDate \/ before < c.exp + Blur(c.exp)
        BY <3>2, <4>2, BlurredCompare
      <4>4. c.nbf = NoDate \/ c.nbf - Blur(c.nbf) <= after
        BY <3>3, <4>2, BlurredCompare
      <4> QED BY <4>3, <4>4
    <3>7. ASSUME last.err = {"ErrExpired"} PROVE c.exp - Blur(c.exp) <= before
      <4>1. claimsError(t, cfg) = {"ErrExpired"}
        BY <2>2, <2>3, <3>7, ExpiredClaims
      <4>2. exp # NoDate /\ exp <= before
        BY <3>4, <3>5, <4>1
      <4> QED BY <3>2, <4>2, BlurredCompare
    <3> QED BY <2>2, <2>3, <2>5, <3>5, <3>6, <3>7
  <2> QED BY <2>7, <2>8
<1> QED BY <1>1, Invariant, PTL

\* Which members are there: those that are not zero, and client_id.
LEMMA EmittedIs ==
  ASSUME NEW type, NEW c
  PROVE  /\ Emitted(type, c) \subseteq Fields[type]
         /\ \A f \in Strings : f \in Fields[type] /\ c[f] # "" => f \in Emitted(type, c)
         /\ \A f \in Dates : f \in Emitted(type, c) <=> f \in Fields[type] /\ c[f] # NoDate
         /\ "aud" \in Emitted(type, c) <=> "aud" \in Fields[type] /\ c.aud # NilAud /\ c.aud # <<>>
         /\ "cmw" \in Emitted(type, c) <=> "cmw" \in Fields[type] /\ c.cmw # NoCMW
<1>0. Strings \cap Dates = {} /\ {"aud", "cmw"} \cap (Strings \cup Dates) = {} /\ "aud" # "cmw"
  BY DEF Strings, Dates
<1> QED BY <1>0 DEF Emitted

\* Claims that are not among the unreadable ones can be decoded.
LEMMA ReadableClaims ==
  ASSUME NEW type \in DOMAIN Fields, NEW c, ClaimsType(c), CanMarshal(type, c), ~Unreadable(c),
         NEW into \in DOMAIN Fields
  PROVE  /\ CanUnmarshal(into, Marshal(type, c))
         /\ \A f \in Dates : c[f] # NoDate => Content(f, Written(f, c)) = Float(c[f])
         /\ "cmw" \in Emitted(type, c) => Content("cmw", Written("cmw", c)) = c.cmw
<1> DEFINE j == Marshal(type, c)
<1>1. /\ IsObject(j) /\ DOMAIN j.obj = Emitted(type, c)
      /\ \A f \in Emitted(type, c) : j.obj[f] = Written(f, c)
  BY MarshalMembers
<1> HIDE DEF j
<1>2. /\ \A f \in Dates : c[f] # NoDate =>
           MinDate * Second <= Float(c[f]) /\ Float(c[f]) <= MaxDate * Second
      /\ c.cmw # NoCMW => ~Hollow(c.cmw)
  BY DEF Unreadable
<1>3. /\ \A f \in Dates : c[f] \in Int
      /\ c.aud \in Seq(STRING)
  BY ClaimsFields
<1>4. \A f \in Dates : c[f] # NoDate => /\ Readable(f, Written(f, c))
                                        /\ Content(f, Written(f, c)) = Float(c[f])
  BY <1>2, <1>3, DateRead
<1>5. "cmw" \in Emitted(type, c) => /\ Readable("cmw", Written("cmw", c))
                                    /\ Content("cmw", Written("cmw", c)) = c.cmw
  <2>1. "cmw" \in Emitted(type, c) => c.cmw # NoCMW /\ Validate(c.cmw)
    BY EmittedIs DEF CanMarshal
  <2> QED BY <1>2, <2>1, CMWRead
<1>6. "aud" \in Emitted(type, c) => Readable("aud", Written("aud", c))
  BY <1>3, EmittedIs, AudienceRead
<1>7. \A f \in Strings : Readable(f, Written(f, c))
  BY StringRead
<1>8. \A f \in Fields[into] : f \in Strings \cup Dates \cup {"aud", "cmw"}
  BY FieldNames
<1>9. ASSUME NEW f \in Fields[into] \cap Emitted(type, c) PROVE Readable(f, Written(f, c))
  <2>1. CASE f \in Strings
    BY <1>7, <2>1
  <2>2. CASE f \in Dates
    BY <1>4, <1>9, <2>2, EmittedIs
  <2>3. CASE f = "aud"
    BY <1>6, <1>9, <2>3
  <2>4. CASE f = "cmw"
    BY <1>5, <1>9, <2>4
  <2> QED BY <1>8, <2>1, <2>2, <2>3, <2>4
<1>10. CanUnmarshal(into, j)
  BY <1>1, <1>9, CanUnmarshalMembers
<1> QED BY <1>4, <1>5, <1>10 DEF j

\* What the signed claims are to the consumer's struct.
LEMMA Viewed ==
  ASSUME NEW type \in DOMAIN Fields, NEW into \in DOMAIN Fields, NEW c, ClaimsType(c),
         NEW v, v = View(View(c, type), into)
  PROVE  /\ DOMAIN v = DOMAIN ZeroClaims
         /\ \A f \in DOMAIN ZeroClaims :
              f \notin Fields[into] \/ f \notin Fields[type] => v[f] = ZeroClaims[f]
         /\ \A f \in DOMAIN ZeroClaims :
              f \in Fields[into] /\ f \in Fields[type] /\ f # "aud" => v[f] = c[f]
         /\ v["aud"] = IF c.aud = <<>> THEN NilAud ELSE c.aud
<1>0. DOMAIN c = DOMAIN ZeroClaims /\ "aud" \in DOMAIN ZeroClaims
      /\ "aud" \in Fields[into] /\ "aud" \in Fields[type]
  BY ClaimsFields, FieldNames
<1>1. PICK u : u = View(c, type)
  OBVIOUS
<1>2. /\ DOMAIN u = DOMAIN ZeroClaims
      /\ \A f \in DOMAIN ZeroClaims :
           u[f] = IF f \notin Fields[type] THEN ZeroClaims[f]
                  ELSE IF f = "aud" /\ c.aud = <<>> THEN NilAud ELSE c[f]
  BY <1>0, <1>1 DEF View
<1>3. /\ DOMAIN v = DOMAIN ZeroClaims
      /\ \A f \in DOMAIN ZeroClaims :
           v[f] = IF f \notin Fields[into] THEN ZeroClaims[f]
                  ELSE IF f = "aud" /\ u.aud = <<>> THEN NilAud ELSE u[f]
  BY <1>1, <1>2 DEF View
<1>4. u["aud"] = IF c.aud = <<>> THEN NilAud ELSE c.aud
  BY <1>0, <1>2
<1>5. v["aud"] = IF u["aud"] = <<>> THEN NilAud ELSE u["aud"]
  BY <1>0, <1>3
<1>6. u["aud"] # <<>>
  BY <1>4 DEF NilAud
<1>7. v["aud"] = IF c.aud = <<>> THEN NilAud ELSE c.aud
  BY <1>4, <1>5, <1>6
<1>8. \A f \in DOMAIN ZeroClaims :
        f \notin Fields[into] \/ f \notin Fields[type] => v[f] = ZeroClaims[f]
  BY <1>0, <1>2, <1>3
<1>9. \A f \in DOMAIN ZeroClaims :
        f \in Fields[into] /\ f \in Fields[type] /\ f # "aud" => v[f] = c[f]
  BY <1>2, <1>3
<1> QED BY <1>3, <1>7, <1>8, <1>9

\* A date as it is decoded is within its blur of the date that was signed.
LEMMA InBlur ==
  ASSUME NEW t \in Int, NEW d, t = NoDate => d = NoDate, t # NoDate => d = Float(t)
  PROVE  d \in t - Blur(t) .. t + Blur(t)
<1>1. CASE t = NoDate
  <2>1. Blur(t) = 0 /\ d = t
    BY <1>1 DEF Blur
  <2> QED BY <2>1
<1>2. CASE t # NoDate
  <2>1. Float(t) \in Int /\ Blur(t) \in Nat /\ t - Blur(t) <= Float(t) /\ Float(t) <= t + Blur(t)
    BY <1>2, FloatNear
  <2>2. PICK b \in Nat : b = Blur(t)
    BY <2>1
  <2>3. d \in Int /\ t - b <= d /\ d <= t + b
    BY <1>2, <2>1, <2>2
  <2>4. d \in t - b .. t + b
    BY <2>3
  <2> QED BY <2>2, <2>4
<1> QED BY <1>1, <1>2

\* What is read of a token are the claims that were signed.
LEMMA SameAsSigned ==
  ASSUME NEW type \in DOMAIN Fields, NEW c, ClaimsType(c), CanMarshal(type, c), ~Unreadable(c),
         NEW into \in DOMAIN Fields
  PROVE  SameClaims(View(View(c, type), into), Unmarshal(into, Marshal(type, c), ZeroClaims))
<1>1. PICK v, d : v = View(View(c, type), into) /\ d = Unmarshal(into, Marshal(type, c), ZeroClaims)
  OBVIOUS
<1>2. /\ DOMAIN v = DOMAIN ZeroClaims
      /\ \A f \in DOMAIN ZeroClaims :
           f \notin Fields[into] \/ f \notin Fields[type] => v[f] = ZeroClaims[f]
      /\ \A f \in DOMAIN ZeroClaims :
           f \in Fields[into] /\ f \in Fields[type] /\ f # "aud" => v[f] = c[f]
      /\ v["aud"] = IF c.aud = <<>> THEN NilAud ELSE c.aud
  BY <1>1, Viewed
<1>3. \A f \in DOMAIN ZeroClaims :
        d[f] = IF f \in Fields[into] /\ f \in Emitted(type, c) THEN Content(f, Written(f, c))
               ELSE ZeroClaims[f]
  BY <1>1, ReadMember
<1>4. /\ \A f \in Dates : c[f] # NoDate => Content(f, Written(f, c)) = Float(c[f])
      /\ "cmw" \in Emitted(type, c) => Content("cmw", Written("cmw", c)) = c.cmw
  BY ReadableClaims
<1>5. DOMAIN ZeroClaims = Strings \cup Dates \cup {"aud", "cmw"} /\ Strings \cap Dates = {}
      /\ "aud" \notin Strings \cup Dates /\ "cmw" \notin Strings \cup Dates /\ "cmw" # "aud"
  BY FieldNames
<1>6. Dates \subseteq Fields[type] /\ Dates \subseteq Fields[into]
      /\ "aud" \in Fields[type] /\ "aud" \in Fields[into]
  BY FieldNames
<1>7. ASSUME NEW f \in Dates PROVE d[f] \in v[f] - Blur(v[f]) .. v[f] + Blur(v[f])
  <2>1. v[f] = c[f] /\ c[f] \in Int
    BY <1>2, <1>5, <1>6, ClaimsFields
  <2>2. f \in Emitted(type, c) <=> c[f] # NoDate
    BY <1>6, EmittedIs
  <2>3. c[f] = NoDate => d[f] = NoDate
    BY <1>3, <1>5, <2>2, ZeroFields
  <2>4. c[f] # NoDate => d[f] = Float(c[f])
    BY <1>3, <1>4, <1>5, <1>6, <2>2
  <2>5. PICK t, x : t \in Int /\ t = c[f] /\ x = d[f]
    BY <2>1
  <2>6. x \in t - Blur(t) .. t + Blur(t)
    BY <2>3, <2>4, <2>5, InBlur
  <2> QED BY <2>1, <2>5, <2>6
<1>8. ASSUME NEW f \in Strings PROVE v[f] = d[f]
  <2>1. CASE f \notin Fields[into] \/ f \notin Fields[type]
    BY <1>2, <1>3, <1>5, <2>1, EmittedIs
  <2>2. CASE f \in Fields[into] /\ f \in Fields[type]
    <3>1. v[f] = c[f]
      BY <1>2, <1>5, <2>2
    <3>2. f \notin Emitted(type, c) => c[f] = ""
      BY <2>2, EmittedIs
    <3>3. Content(f, Written(f, c)) = c[f]
      BY StringRead
    <3> QED BY <1>3, <1>5, <2>2, <3>1, <3>2, <3>3, ZeroFields
  <2> QED BY <2>1, <2>2
<1>9. v["aud"] = d["aud"]
  <2>1. "aud" \in Emitted(type, c) <=> c.aud # NilAud /\ c.aud # <<>>
    BY <1>6, EmittedIs
  <2>2. c.aud \in Seq(STRING)
    BY ClaimsFields
  <2>3. c.aud # <<>> => Content("aud", Written("aud", c)) = c.aud
    BY <2>2, AudienceRead
  <2>4. d["aud"] = IF "aud" \in Emitted(type, c) THEN Content("aud", Written("aud", c)) ELSE NilAud
    BY <1>3, <1>5, <1>6, ZeroFields
  <2> QED BY <1>2, <2>1, <2>3, <2>4
<1>10. v["cmw"] = d["cmw"]
  <2>1. "cmw" \in Emitted(type, c) <=> "cmw" \in Fields[type] /\ c.cmw # NoCMW
    BY EmittedIs
  <2>2. d["cmw"] = IF "cmw" \in Fields[into] /\ "cmw" \in Emitted(type, c) THEN c.cmw ELSE NoCMW
    BY <1>3, <1>4, <1>5, ZeroFields
  <2>3. "cmw" \notin Fields[into] \/ "cmw" \notin Fields[type] => v["cmw"] = NoCMW
    BY <1>2, <1>5, ZeroFields
  <2>4. "cmw" \in Fields[into] /\ "cmw" \in Fields[type] => v["cmw"] = c.cmw
    BY <1>2, <1>5
  <2> QED BY <2>1, <2>2, <2>3, <2>4
<1>11. SameClaims(v, d)
  BY <1>2, <1>5, <1>7, <1>8, <1>9, <1>10 DEF SameClaims
<1> QED BY <1>1, <1>11

\* Nothing that Parse finds in readable claims says that the token is malformed.
LEMMA NeverMalformed ==
  ASSUME NEW t, NEW cfg, CanUnmarshal("RegisteredClaims", t.payload), CanUnmarshal(S.type, t.payload),
         signatureError(t, cfg) \cap {"ErrMalformedToken", "ErrInvalidSignature"} = {}
  PROVE  parseError(t, cfg) \cap {"ErrMalformedToken", "ErrInvalidSignature"} = {}
<1>1. decodeError(t) = {}
  BY DEF decodeError
<1>2. claimsError(t, cfg) \cap {"ErrMalformedToken", "ErrInvalidSignature"} = {}
  <2>1. \A tok, n : validateClaims(tok, cfg, n) \in
           {{}, {"ErrExpired"}, {"ErrNotYetValid"}, {"ErrIssuerMismatch"},
            {"ErrAudienceMismatch"}, {"ErrTypeMismatch"}, {"ErrMissingClaim"}}
    BY DEF validateClaims
  <2>2. \E tok, n : claimsError(t, cfg) = validateClaims(tok, cfg, n)
    BY DEF claimsError
  <2> QED BY <2>1, <2>2
<1>3. parseVerified(t, cfg) \in {signatureError(t, cfg), claimsError(t, cfg)}
  BY DEF parseVerified
<1>4. parseError(t, cfg) \in {parseVerified(t, cfg), decodeError(t)}
  BY DEF parseError
<1> QED BY <1>1, <1>2, <1>3, <1>4

\* What was signed, Parse and ParseSignedCMW read back for whoever holds the published key:
\* claims with the values they had, and CMWs of any depth that is allowed.
THEOREM TokensReadAsSigned == Spec => []ReadsAsSigned
<1>1. ASSUME Inv PROVE ReadsAsSigned
  <2>0. SentInv /\ ParseInv /\ CMWInv /\ SceneInv
    BY <1>1 DEF Inv
  <2>1. ASSUME Called("Parse"), HeldItsKey, NEW s \in Whole("claims"), ~Unreadable(s.src.claims)
        PROVE  /\ last.err \cap {"ErrMalformedToken", "ErrInvalidSignature"} = {}
               /\ last.err = {} => SameClaims(View(View(s.src.claims, s.src.type), S.type), dst)
    <3>1. PICK t \in Arriving, opts \in S.parseOpts :
            /\ last = [op |-> "Parse", tok |-> t, opts |-> opts, err |-> parseError(t, Configured(opts))]
            /\ last.err = {} => dst = decodeFreshObject(t)
      BY <2>0, <2>1 DEF ParseInv, Called
    <3>2. last.tok = t /\ last.err = parseError(t, Configured(opts))
      BY <3>1
    <3>3. PICK cfg, type, c, into :
            cfg = Configured(opts) /\ type = s.src.type /\ c = s.src.claims /\ into = S.type
      OBVIOUS
    <3>4. /\ s.tok = t /\ SentOK(s) /\ type \in DOMAIN Fields /\ ClaimsType(c) /\ CanMarshal(type, c)
          /\ t.payload = Marshal(type, c) /\ ~Unreadable(c)
      BY <2>0, <2>1, <3>2, <3>3, WholeClaims
    <3>5. into \in DOMAIN Fields /\ "RegisteredClaims" \in DOMAIN Fields
      BY <2>0, <3>3, SceneAssumption, FieldNames DEF SceneInv, S
    <3>6. t.sig.hdr = t.hdr /\ t.sig.payload = t.payload /\ t.sig.scheme = t.hdr.alg
      BY <3>4 DEF SentOK
    <3>7. key # NoKey /\ t.sig.by = key.id
      BY <2>1, <3>2 DEF HeldItsKey
    <3>8. signatureError(t, cfg) \cap {"ErrMalformedToken", "ErrInvalidSignature"} = {}
      BY <3>6, <3>7, HeldSignature
    <3>9. CanUnmarshal("RegisteredClaims", t.payload) /\ CanUnmarshal(S.type, t.payload)
      BY <3>3, <3>4, <3>5, ReadableClaims
    <3>10. parseError(t, cfg) \cap {"ErrMalformedToken", "ErrInvalidSignature"} = {}
      BY <3>8, <3>9, NeverMalformed
    <3>11. SameClaims(View(View(c, type), into), Unmarshal(into, Marshal(type, c), ZeroClaims))
      BY <3>4, <3>5, SameAsSigned
    <3>12. last.err = {} => dst = Unmarshal(into, Marshal(type, c), ZeroClaims)
      BY <3>1, <3>3, <3>4 DEF decodeFreshObject
    <3> QED BY <3>2, <3>3, <3>10, <3>11, <3>12
  <2>2. ASSUME Called("ParseSignedCMW"), HeldItsKey, NEW s \in Whole("cmw"), ~Hollow(s.src)
        PROVE  /\ last.err \cap {"ErrInvalidClaim", "ErrTypeMismatch", "ErrMalformedToken",
                                 "ErrInvalidSignature"} = {}
               /\ last.err = {} => last.out = s.src
    <3>1. PICK t \in Arriving, opts \in S.parseOpts :
            /\ last.tok = t /\ last.err = cmwError(t, Configured(opts))
            /\ last.err = {} => last.out = ParseCMW(t.payload).v
      BY <2>0, <2>2 DEF CMWInv, Called
    <3>2. PICK cfg, c : cfg = Configured(opts) /\ c = s.src
      OBVIOUS
    <3>3. /\ s.tok = t /\ SentOK(s) /\ Validate(c) /\ t.payload = marshal(c)
          /\ t.hdr.cty = CMWContentType /\ ~Hollow(c)
      BY <2>0, <2>2, <3>1, <3>2, WholeCMW
    <3>4. t.sig.hdr = t.hdr /\ t.sig.payload = t.payload /\ t.sig.scheme = t.hdr.alg
      BY <3>3 DEF SentOK
    <3>5. key # NoKey /\ t.sig.by = key.id
      BY <2>2, <3>1 DEF HeldItsKey
    <3>6. signatureError(t, cfg) \cap {"ErrMalformedToken", "ErrInvalidSignature",
                                       "ErrInvalidClaim", "ErrTypeMismatch"} = {}
      BY <3>4, <3>5, HeldSignature
    <3>7. ParseCMW(t.payload).ok /\ ParseCMW(t.payload).v = c
      BY <3>3, CMWRoundTrip, ReadFields
    <3>8. cmwType(t.hdr)
      <4>1. CMWContentType # NoType /\ CMWContentType.top # ""
        BY DEF CMWContentType, NoType
      <4> QED BY <3>3, <4>1 DEF cmwType, typeMatches
    <3>9. cmwError(t, cfg) = signatureError(t, cfg)
      BY <3>7, <3>8 DEF cmwError
    <3> QED BY <3>1, <3>2, <3>6, <3>7, <3>9
  <2> QED BY <2>1, <2>2 DEF ReadsAsSigned
<1> QED BY <1>1, Invariant, PTL

===============================================================================
