--------------------------------- MODULE CMW ---------------------------------
(***************************************************************************)
(* Conceptual Message Wrappers (cmw.go): how a CMW is validated, encoded   *)
(* as JSON and decoded again.                                              *)
(*                                                                         *)
(* A JSON value is a record with one field, named for its kind.  Duplicate *)
(* member names and bad UTF-8, which decoding refuses (strictjson.go),     *)
(* cannot be written down this way: they are defects of the text.          *)
(***************************************************************************)
EXTENDS Integers, Sequences

CONSTANTS MaxDepth,         \* maxCMWDepth
          MaxIndicator,     \* the largest uint32
          MediaTypes,       \* the strings that validateCMWMediaType accepts
          CollectionTypes,  \* the absolute URIs and OIDs
          Base64,           \* bytes -> their unpadded base64url
          CMWs,             \* the CMW values that occur, and their members
          Documents         \* the JSON values that occur, and their parts

-----------------------------------------------------------------------------
(* JSON                                                                    *)

Str(s) == [str |-> s]
Num(sign, whole, frac) == [num |-> [sign |-> sign, whole |-> whole, frac |-> frac]]
Arr(seq) == [arr |-> seq]
Obj(members) == [obj |-> members]
Null == [null |-> TRUE]

Is(kind, j) == DOMAIN j = {kind}

\* base64.RawURLEncoding; a text that is not canonical decodes as well and is left out.
Encode(bytes) == Str(Base64[bytes])
Encoded == {Base64[bytes] : bytes \in DOMAIN Base64}
Decode(text) == CHOOSE bytes \in DOMAIN Base64 : Base64[bytes] = text

\* decodeStrict into a string: null is the zero value.
IsString(j) == Is("str", j) \/ Is("null", j)
AsString(j) == IF Is("null", j) THEN "" ELSE j.str

\* decodeObject.
IsObject(j) == Is("obj", j)

-----------------------------------------------------------------------------
(* The values                                                              *)

NoIndicator == -1
NoRecord == [Type |-> "nil", Value |-> "", Indicator |-> NoIndicator]
NoCollection == [Type |-> "nil", Members |-> <<>>]
NoCMW == [Record |-> NoRecord, Collection |-> NoCollection]
collectionTypeKey == "__cmwc_t"

RecordCMW(type, value, ind) ==
  [NoCMW EXCEPT !.Record = [Type |-> type, Value |-> value, Indicator |-> ind]]
CollectionCMW(type, members) ==
  [NoCMW EXCEPT !.Collection = [Type |-> type, Members |-> members]]

\* Members nest: what a function says of a CMW rests on what it says of the members, with
\* one level less to go.
Levels == 0..(MaxDepth + 1)

\* The struct itself, its members being among the valid ones.
validateCMW(c, valid) ==
  /\ (c.Record = NoRecord) # (c.Collection = NoCollection)
  /\ c.Record # NoRecord => c.Record.Type \in MediaTypes
  /\ c.Collection # NoCollection =>
       LET members == c.Collection.Members IN
       /\ c.Collection.Type \in CollectionTypes \cup {""}
       /\ DOMAIN members # {}
       /\ collectionTypeKey \notin DOMAIN members
       /\ \A label \in DOMAIN members : members[label] \in valid

\* The CMWs that pass with so many levels left.
validate[left \in Levels] ==
  IF left = 0 THEN {} ELSE {c \in CMWs : validateCMW(c, validate[left-1])}
validCMWs == validate[MaxDepth+1]
Validate(c) == c \in validCMWs

\* CMW.marshal.  A member is encoded by its MarshalJSON, whose Validate is part of the
\* one that its collection has passed.
marshalCMW(c, encoded) ==
  IF c.Record # NoRecord THEN
    LET type == Str(c.Record.Type)
        value == Encode(c.Record.Value)
    IN Arr(IF c.Record.Indicator = NoIndicator THEN <<type, value>>
           ELSE <<type, value, Num(1, c.Record.Indicator, 0)>>)
  ELSE LET col == c.Collection
           typed == IF col.Type = "" THEN {} ELSE {collectionTypeKey}
       IN Obj([label \in DOMAIN col.Members \cup typed |->
                 IF label \in typed THEN Str(col.Type) ELSE encoded[col.Members[label]]])

encode[left \in Levels] ==
  IF left = 0 THEN [c \in CMWs |-> Null] ELSE [c \in CMWs |-> marshalCMW(c, encode[left-1])]
marshal(c) == encode[MaxDepth+1][c]

-----------------------------------------------------------------------------
(* Decoding.  A result has ok and, when it is TRUE, the value v.           *)

Refused == [ok |-> FALSE, v |-> NoCMW]
Read(c) == [ok |-> TRUE, v |-> c]

isUint32(j) ==
  \/ Is("null", j)
  \/ Is("num", j) /\ j.num.sign = 1 /\ j.num.frac = 0 /\ j.num.whole <= MaxIndicator

parseCMWRecord(fields) ==
  IF /\ Len(fields) \in 2..3
     /\ IsString(fields[1]) /\ AsString(fields[1]) \in MediaTypes
     /\ IsString(fields[2]) /\ AsString(fields[2]) \in Encoded \ {""}
     /\ Len(fields) = 3 => isUint32(fields[3])
  THEN Read(RecordCMW(fields[1].str, Decode(fields[2].str),
                      IF Len(fields) = 2 THEN NoIndicator
                      ELSE IF Is("null", fields[3]) THEN 0 ELSE fields[3].num.whole))
  ELSE Refused

parseCMWCollection(members, parsed) ==
  LET labels == DOMAIN members \ {collectionTypeKey}
      type == IF collectionTypeKey \in DOMAIN members THEN members[collectionTypeKey] ELSE Str("")
  IN IF /\ collectionTypeKey \in DOMAIN members =>
             IsString(type) /\ AsString(type) \in CollectionTypes
        /\ labels # {}
        /\ \A label \in labels : parsed[members[label]].ok
     THEN Read(CollectionCMW(AsString(type), [l \in labels |-> parsed[members[l]].v]))
     ELSE Refused

\* The members have been parsed; none is when no level is left for this one.
parseCMW(j, parsed) ==
  IF Is("arr", j) THEN parseCMWRecord(j.arr)
  ELSE IF Is("obj", j) THEN parseCMWCollection(j.obj, parsed)
  ELSE Refused

parse[left \in Levels] ==
  IF left = 0 THEN [j \in Documents |-> Refused]
  ELSE [j \in Documents |-> parseCMW(j, parse[left-1])]
ParseCMW(j) == parse[MaxDepth+1][j]

-----------------------------------------------------------------------------
(* The two sets are of values that Go can hold and JSON can write, with    *)
(* everything inside them; a valid CMW can be written.                     *)

CMWType(c) ==
  /\ c = [Record |-> c.Record, Collection |-> c.Collection]
  /\ c.Record \in [Type : STRING, Value : DOMAIN Base64, Indicator : {NoIndicator} \cup (0..MaxIndicator)]
  /\ c.Collection = [Type |-> c.Collection.Type, Members |-> c.Collection.Members]
  /\ c.Collection.Type \in STRING
  /\ c.Collection.Members \in [DOMAIN c.Collection.Members -> CMWs]

DocumentType(j) ==
  \/ j = Null
  \/ Is("str", j) /\ j = Str(j.str) /\ j.str \in STRING
  \/ Is("num", j) /\ j = Num(j.num.sign, j.num.whole, j.num.frac)
       /\ j.num.sign \in {-1, 1} /\ {j.num.whole, j.num.frac} \subseteq Nat
  \/ Is("arr", j) /\ j = Arr(j.arr) /\ j.arr \in Seq(Documents)
  \/ Is("obj", j) /\ j = Obj(j.obj) /\ j.obj \in [DOMAIN j.obj -> Documents]

ASSUME CMWAssumption ==
  MaxDepth \in Nat /\ MaxIndicator \in Nat /\ "" \notin MediaTypes /\ "" \notin CollectionTypes

ASSUME Base64Assumption ==
  /\ Base64 \in [DOMAIN Base64 -> STRING]
  /\ \A a, b \in DOMAIN Base64 : Base64[a] = Base64[b] => a = b
  /\ "" \in DOMAIN Base64 /\ Base64[""] = ""

ASSUME ValuesAssumption ==
  /\ \A c \in CMWs : CMWType(c)
  /\ \A j \in Documents : DocumentType(j)
  /\ \A c \in CMWs : Validate(c) => marshal(c) \in Documents
=============================================================================
