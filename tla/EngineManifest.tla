--------------------------- MODULE EngineManifest ---------------------------
(***************************************************************************)
(* What a compute engine is told to read: the target a job's configuration *)
(* names, and what OmniBeam's manifest, DuckDB's query and the REST        *)
(* engine's request make of it.  Dictionaries are functions on the keys    *)
(* they hold.                                                              *)
(***************************************************************************)
EXTENDS Naturals, Sequences, Functions

CONSTANTS Secret,      \* what the secret manager holds, by credential_ref
          DefaultRef,  \* settings.default_postgres_credential_ref
          MongoRefs    \* the references with "mongo" in their text

Payload == [driver : STRING, database : BOOLEAN, uri : BOOLEAN,
            base_url : BOOLEAN, auth_type : STRING]
ASSUME SecretsAreTyped == \A ref \in DOMAIN Secret : Secret[ref] \in Payload

NoSecret == [driver |-> "", database |-> FALSE, uri |-> FALSE,
             base_url |-> FALSE, auth_type |-> ""]

(* A watermark: its declared type and its place in the order of values.    *)
NoMark == [type |-> "", n |-> 0]

Get(dict, key) == IF key \in DOMAIN dict THEN dict[key] ELSE ""
Or(text, other) == IF text # "" THEN text ELSE other
NoObject == [object_name |-> ""]
First(objects) == IF objects = <<>> THEN NoObject ELSE objects[1]

(* Mutant: the first object's credential wins over the configured one.     *)
ObjectCredentialFirst(config, objects, default) ==
  LET o == First(objects)
  IN [source |-> Or(Get(config, "source_type"), default),
      object |-> Get(o, "object_name"),
      credential |-> Or(Get(o, "credential_ref"), Get(config, "credential_ref")),
      query |-> Get(o, "extraction_query"),
      column |-> Get(o, "watermark_column")]

(* PipelineExecutionTargetDTO: only the first source object is looked at,  *)
(* and only for what the configuration leaves open.  A resolved watermark  *)
(* has the first object's column.                                          *)
Target(config, objects, default) ==
  LET o == First(objects)
  IN [source |-> Or(Get(config, "source_type"), default),
      object |-> Get(o, "object_name"),
      credential |-> Or(Get(config, "credential_ref"), Get(o, "credential_ref")),
      query |-> Get(o, "extraction_query"),
      column |-> Get(o, "watermark_column")]

(* The names of the conditions that hold; each is an exception.            *)
Holding(conditions) == {c \in DOMAIN conditions : conditions[c]}

(* A job: why it failed before it read anything, and else what it reads,   *)
(* under which credential, by which query, above which watermark, and      *)
(* whether the manifest has a watermark block.                             *)
Refusal(causes) == [causes |-> causes, reads |-> "nothing", object |-> "",
                    credential |-> "", query |-> "", above |-> NoMark, block |-> FALSE]
JobFrom(causes, job) == IF causes = {} THEN job ELSE Refusal(causes)

Identifier(column) == column # "odd column"
Invalid(column) == ~Identifier(column)
Unbound(query, mark) == query = "marked" /\ mark = NoMark

(* normalize_resource_path.                                                *)
ResourcePath(name) == IF name = "transactions" THEN "orders" ELSE name

-----------------------------------------------------------------------------
(* OmniBeam.  The object's extraction_query does not reach the manifest:   *)
(* the configuration holds none of its own.                                *)

Mongo == {"mongo", "mongodb"}
OmniBeamDrivers == {"postgres", "pgx", "cockroach", "mysql", "mariadb"} \cup Mongo
OmniBeamFormats == {"csv", "txt", "tsv", "json", "jsonl", "jsonlines", "parquet"}
OmniBeamAuth == {"bearer_token", "api_key", "basic_auth", "oauth2_client_credentials"}
NoCredential == {"", "None"}

(* The manifest has the connection itself, or else only the configured     *)
(* reference, whichever reference was resolved.                            *)
Handed(config, t, complete) == IF complete THEN t.credential ELSE Get(config, "credential_ref")

(* The manifest: one source, with or without a watermark block.            *)
Manifest(reads, object, credential, above, block) ==
  [causes |-> {}, reads |-> reads, object |-> object, credential |-> credential,
   query |-> "", above |-> above, block |-> block]

DatabaseLacks(t, creds) ==
  Holding([object |-> t.object = "", driver |-> creds.driver = "",
           database |-> ~creds.database /\ ~creds.uri])
TableManifest(config, t, creds, mark) ==
  Manifest("table", t.object, Handed(config, t, creds.uri), mark, mark # NoMark)
DatabaseSource(config, t, creds, mark) ==
  JobFrom(DatabaseLacks(t, creds)
            \cup Holding([driver |-> creds.driver \notin OmniBeamDrivers,
                          column |-> mark # NoMark /\ Invalid(t.column)]),
          TableManifest(config, t, creds, mark))

(* No watermark and no filter.                                             *)
MongoLacks(t, creds) ==
  Holding([object |-> t.object = "", database |-> ~creds.database /\ ~creds.uri])
CollectionManifest(config, t, creds) ==
  Manifest("collection", t.object, Handed(config, t, creds.uri), NoMark, FALSE)
MongoSource(config, t, creds) == JobFrom(MongoLacks(t, creds), CollectionManifest(config, t, creds))

(* The engine applies the block's value itself.                            *)
Endpoint(config, t) == Or(Get(config, "endpoint"), ResourcePath(t.object))
AuthType(creds) == IF creds.auth_type = "bearer" THEN "bearer_token" ELSE creds.auth_type
ResourceManifest(config, t, creds, mark) ==
  Manifest("resource", Endpoint(config, t),
           Handed(config, t, AuthType(creds) # "bearer_token"), mark, mark # NoMark)
RestSource(config, t, creds, mark) ==
  JobFrom(Holding([base_url |-> ~creds.base_url, object |-> Endpoint(config, t) = "",
                   auth |-> AuthType(creds) \notin {""} \cup OmniBeamAuth]),
          ResourceManifest(config, t, creds, mark))

FilesLack(config) == Holding([format |-> Get(config, "format") \notin OmniBeamFormats])
FilesManifest(t) == Manifest("files", t.object, t.credential, NoMark, FALSE)
StorageSource(config, t, mark) ==
  JobFrom(Holding([mark |-> mark # NoMark]) \cup FilesLack(config), FilesManifest(t))

(* _build_manifest_for_job, behind the shortcut for a batch without files. *)
OmniBeamJob(config, objects, mark, pending) ==
  LET t == Target(config, objects, "")
      creds == IF t.credential \in DOMAIN Secret THEN Secret[t.credential] ELSE NoSecret
      source == IF t.source = "database" /\ {Get(config, "driver"), creds.driver} \cap Mongo # {}
                THEN "mongodb" ELSE t.source
  IN IF Get(config, "source_type") = "storage" /\ ~pending
     THEN [Refusal({}) EXCEPT !.object = t.object]
     ELSE IF t.credential \notin NoCredential \cup DOMAIN Secret THEN Refusal({"secret"})
     ELSE CASE source = "database" -> DatabaseSource(config, t, creds, mark)
            [] source = "mongodb" -> MongoSource(config, t, creds)
            [] source = "rest_api" -> RestSource(config, t, creds, mark)
            [] source = "storage" -> StorageSource(config, t, mark)
            [] OTHER -> Refusal({"source type"})

-----------------------------------------------------------------------------
(* DuckDB reads tables over a complete connection.  A collection, known by *)
(* its secret's driver or by its reference, is copied too, but a variable  *)
(* its metrics need is never bound: the job fails.                         *)
DuckDBJob(config, objects, mark) ==
  LET t == Target(config, objects, "database")
      ref == Or(t.credential, DefaultRef)
      creds == IF ref \in DOMAIN Secret THEN Secret[ref] ELSE NoSecret
      asked == IF t.query = "" THEN t.column # "" ELSE t.query = "marked"
  IN JobFrom(Holding([object |-> t.object = "" /\ t.query = "",
                      secret |-> ref \notin DOMAIN Secret,
                      unbound |-> creds.driver = "mongodb" \/ ref \in MongoRefs,
                      database |-> ~(creds.database /\ creds.uri),
                      column |-> t.query = "" /\ Invalid(t.column),
                      value |-> Unbound(t.query, mark)]),
             [causes |-> {}, reads |-> "table", object |-> t.object, credential |-> ref,
              query |-> t.query, above |-> IF asked THEN mark ELSE NoMark, block |-> FALSE])

(* The REST engine: extraction_query holds the request's parameters; the   *)
(* configured endpoint and records_path are not looked at here.            *)
RestJob(config, objects, mark) ==
  LET t == Target(config, objects, "rest_api")
      creds == IF t.credential \in DOMAIN Secret THEN Secret[t.credential] ELSE NoSecret
  IN JobFrom(Holding([secret |-> t.credential \notin DOMAIN Secret,
                      base_url |-> ~creds.base_url,
                      placeholder |-> t.column # "" /\ t.query # "marked",
                      value |-> Unbound(t.query, mark)]),
             [causes |-> {}, reads |-> "resource", object |-> ResourcePath(t.object),
              credential |-> t.credential, query |-> t.query,
              above |-> IF t.query = "marked" THEN mark ELSE NoMark, block |-> FALSE])

(* get_compute_adapter: an engine without an adapter is refused.           *)
EngineJob(name, config, objects, mark, pending) ==
  CASE name = "omnibeam" -> OmniBeamJob(config, objects, mark, pending)
    [] name = "duckdb" -> DuckDBJob(config, objects, mark)
    [] name = "rest_api" -> RestJob(config, objects, mark)
    [] OTHER -> Refusal({"engine"})
=============================================================================
