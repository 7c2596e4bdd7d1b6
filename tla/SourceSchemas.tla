--------------------------- MODULE SourceSchemas ----------------------------
(***************************************************************************)
(* What the discovery runners read of a source: a relational database, a   *)
(* MongoDB database, a REST API or a directory of files.  Each runner      *)
(* lists the objects of its scope and then reflects them one by one, from  *)
(* a declared schema where the source has one and from a sample of the     *)
(* values where it has not.  The source may change in between.             *)
(*                                                                         *)
(* An object is followed through one of its columns.                       *)
(***************************************************************************)
EXTENDS Integers, FiniteSets

CONSTANTS Object,      \* names the scope of the asset includes
          Varied,      \* those of every kind; the others are tables with text
          MaxRewrites, \* changes of the source explored
          MaxScans     \* scans explored

ASSUME ScanBounds == Varied \subseteq Object /\ {MaxRewrites, MaxScans} \subseteq Nat

VARIABLES kind,      \* kind of the endpoint
          held,      \* each object as the source has it
          rewrites,  \* changes of the source so far
          scans,     \* scans begun
          todo,      \* objects listed and not yet reflected
          listing,   \* what the listing brought of each object
          now,       \* snapshots of the scan in progress
          last,      \* latest snapshot recorded of each object
          reading    \* a scan is in progress

scanVars == <<kind, held, rewrites, scans, todo, listing, now, last, reading>>

-----------------------------------------------------------------------------
(* The sources.                                                            *)

Logical == {"int", "long", "text", "timestamp", "decimal", "document"}

(* "absent": the item has no such key; "null": the key has no value.       *)
Values == Logical \cup {"absent", "null"}

Gone == [place |-> "nowhere", form |-> "none", kinds |-> {}]

(* A declared column has one type; a sampled one has the values of the     *)
(* rows in reach of the sample, at most two kinds of them here.  A table   *)
(* is in the schema the secret names or in the default one.                *)
Contents ==
  LET Declared == {{l} : l \in Logical}
      Sampled == {k \in SUBSET Values : Cardinality(k) <= 2}
      Here(form, kinds) == [place : {"schema"}, form : form, kinds : kinds]
  IN  [database |-> [place : {"schema", "default"}, form : {"table"}, kinds : Declared],
       mongodb |-> Here({"validated"}, Declared) \cup Here({"documents"}, Sampled),
       rest_api |-> Here({"documented"}, Declared) \cup Here({"undocumented"}, Sampled),
       file_system |-> Here({"parquet"}, Declared) \cup Here({"csv", "json"}, Sampled)
                         \cup Here({"other"}, {{}})]

Possible(o) == {Gone} \cup {c \in Contents[kind] :
                         o \in Varied \/ (c.form = "table" /\ c.kinds = {"text"})}

-----------------------------------------------------------------------------
(* The runners' type maps, composed with the type the driver, the decoder  *)
(* or DuckDB gives the value.  A type no map has becomes a string.         *)

Relational == [int |-> "integer", long |-> "bigint", text |-> "string",
               timestamp |-> "datetime", decimal |-> "float", document |-> "json"]
Validator  == [Relational EXCEPT !.timestamp = "timestamp", !.decimal = "decimal"]
OpenApi    == Validator
Parquet    == Validator

(* bson's Int64, Decimal128, datetime and None are no key of the map.      *)
Bson == [int |-> "integer", long |-> "string", text |-> "string", timestamp |-> "string",
         decimal |-> "string", document |-> "json", null |-> "string"]
Payload == [Bson EXCEPT !.long = "integer", !.decimal = "float"]

CsvCell == [int |-> "bigint", long |-> "bigint", text |-> "string",
            timestamp |-> "timestamp", decimal |-> "float", document |-> "string"]
JsonCell == [CsvCell EXCEPT !.document = "json"]

Only(S) == CHOOSE x \in S : TRUE
Bare == "bare"    \* a snapshot without the column

(* Documents of a random sample: two Python types widen to string.         *)
MongoSample(kinds) ==
  LET Typed(S) == CASE S = {} -> Bare
                    [] Cardinality(S) = 1 -> Bson[Only(S)]
                    [] OTHER -> "string"
  IN  IF kinds = {} THEN {Bare} ELSE {Typed(S \ {"absent"}) : S \in (SUBSET kinds) \ {{}}}

(* The first item of the page, whichever the server puts first.            *)
PayloadSample(kinds) ==
  IF kinds = {} THEN {Bare}
  ELSE {IF v = "absent" THEN Bare ELSE Payload[v] : v \in kinds}

(* The first rows of the latest file.                                      *)
FileColumn(form, kinds) ==
  LET cells == kinds \ {"absent", "null"}
      map == IF form = "csv" THEN CsvCell ELSE JsonCell
      types == {map[c] : c \in cells}
  IN  IF form = "parquet" THEN Parquet[Only(kinds)]
      ELSE IF form = "json" /\ kinds \subseteq {"absent"} THEN Bare
      ELSE IF Cardinality(types) = 1 THEN Only(types)
      ELSE IF types = {"bigint", "float"} THEN "float"
      ELSE IF form = "csv" THEN "string" ELSE "json"

-----------------------------------------------------------------------------
(* A scan.                                                                 *)

Snap(type, method, origin) == [type |-> type, method |-> method, origin |-> origin]
Unseen == Snap("unseen", "none", Gone)
There == {o \in Object : held[o].place # "nowhere"}

ScanInit ==
  /\ kind \in DOMAIN Contents
  /\ held \in [Object -> UNION {Possible(o) : o \in Object}]
  /\ \A o \in Object : held[o] \in Possible(o)
  /\ rewrites = 0 /\ scans = 0
  /\ todo = {} /\ reading = FALSE
  /\ listing = held
  /\ now = [o \in Object |-> Unseen]
  /\ last = now

Rewrite(o) ==
  /\ rewrites < MaxRewrites
  /\ \E c \in Possible(o) \ {held[o]} : held' = [held EXCEPT ![o] = c]
  /\ rewrites' = rewrites + 1
  /\ UNCHANGED <<kind, scans, todo, listing, now, last, reading>>

(* The names of the schema the secret names or, when it has none, those of *)
(* the default schema.                                                     *)
Tables ==
  LET inSchema == {o \in Object : held[o].place = "schema"}
  IN  IF inSchema # {} THEN inSchema ELSE There

(* A resource as the API's document describes it.                          *)
Described(o) == Snap(OpenApi[Only(held[o].kinds)], "declared", held[o])

(* The listing.  A database that refuses it has no tables, a directory     *)
(* that is not mounted no files.  An API that answers /openapi.json        *)
(* describes the documented resources at once; every other name of the     *)
(* scope is sampled.                                                       *)
List ==
  /\ ~reading /\ scans < MaxScans
  /\ scans' = scans + 1
  /\ reading' = TRUE
  /\ listing' = held
  /\ \E answered \in BOOLEAN :
       LET documented == {o \in Object : answered /\ held[o].form = "documented"}
       IN  /\ todo' = CASE kind = "database" -> IF answered THEN Tables ELSE {}
                        [] kind = "mongodb" -> There
                        [] kind = "rest_api" -> Object \ documented
                        [] kind = "file_system" -> IF answered THEN There ELSE {}
           /\ now' = [o \in Object |-> IF o \in documented THEN Described(o) ELSE Unseen]
  /\ UNCHANGED <<kind, held, rewrites, last>>

(* A table that is not in the schema: an empty snapshot.                   *)
ReflectTable(o) ==
  {Snap(IF held[o].place = "schema" THEN Relational[Only(held[o].kinds)] ELSE Bare,
        "declared", held[o])}

(* A collection as its $jsonSchema describes it.                           *)
Validated(o) == Snap(Validator[Only(listing[o].kinds)], "declared", listing[o])

(* The validator came with the listing; the sample is taken now.           *)
ReflectCollection(o) ==
  IF listing[o].form = "validated"
  THEN {Validated(o)}
  ELSE {Snap(t, "sampled", held[o]) : t \in MongoSample(held[o].kinds)}

(* Mutant: a failed request yields an empty snapshot.                      *)
SampleOrEmpty(o) ==
  {Snap(Bare, "sampled", held[o])} \cup {Snap(t, "sampled", held[o]) : t \in PayloadSample(held[o].kinds)}

(* An error or a missing resource leaves no snapshot.                      *)
SampleResource(o) ==
  {Unseen} \cup (IF held[o] = Gone THEN {}
                 ELSE {Snap(t, "sampled", held[o]) : t \in PayloadSample(held[o].kinds)})

InspectFile(o) ==
  {Unseen} \cup (IF held[o].form \in {"none", "other"} THEN {}
                 ELSE {Snap(FileColumn(held[o].form, held[o].kinds), "first rows", held[o])})

Reflect(o) ==
  /\ o \in todo
  /\ todo' = todo \ {o}
  /\ \E s \in CASE kind = "database" -> ReflectTable(o)
                [] kind = "mongodb" -> ReflectCollection(o)
                [] kind = "rest_api" -> SampleResource(o)
                [] kind = "file_system" -> InspectFile(o) :
       now' = [now EXCEPT ![o] = s]
  /\ UNCHANGED <<kind, held, rewrites, scans, listing, last, reading>>

(* Any other error of the database's driver ends the scan with nothing,    *)
(* and so does an answer of the API, to /openapi.json or to a sample, that *)
(* is a 200 without JSON.                                                  *)
ScanRaises ==
  /\ \/ todo # {} /\ kind \in {"database", "mongodb"}
     \/ reading /\ kind = "rest_api"
  /\ todo' = {} /\ reading' = FALSE
  /\ now' = [o \in Object |-> Unseen]
  /\ UNCHANGED <<kind, held, rewrites, scans, listing, last>>

RecordSnapshots ==
  /\ reading /\ todo = {}
  /\ reading' = FALSE
  /\ last' = [o \in Object |-> IF now[o] = Unseen THEN last[o] ELSE now[o]]
  /\ now' = [o \in Object |-> Unseen]
  /\ UNCHANGED <<kind, held, rewrites, scans, todo, listing>>

ScanNext ==
  \/ List \/ ScanRaises \/ RecordSnapshots
  \/ \E o \in Object : Rewrite(o) \/ Reflect(o)
ScanSpec == ScanInit /\ [][ScanNext]_scanVars

-----------------------------------------------------------------------------
(* Two snapshots of one object differ in a column only for a reason: the   *)
(* object changed, one was declared and the other sampled (an API that did *)
(* not answer /openapi.json, a validator added during the scan), or the    *)
(* sample met another of several kinds of values.  And a column is missing *)
(* from a snapshot only if the object has it not or not in every item, or  *)
(* is not in the schema: never because a request failed.                   *)
DriftHasAReason ==
  \A o \in Object :
    LET before == last[o]
        after == now[o]
        several == Cardinality(after.origin.kinds) > 1
        columnless == \/ after.origin.kinds \subseteq {"absent"}
                      \/ "absent" \in after.origin.kinds /\ after.method = "sampled"
                      \/ after.origin.place # "schema"
    IN  /\ before # Unseen /\ after # Unseen /\ before.type # after.type =>
             \/ before.origin # after.origin
             \/ before.method # after.method
             \/ after.method = "sampled" /\ several
        /\ after.type = Bare => columnless
=============================================================================
