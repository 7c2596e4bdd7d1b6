--------------------------- MODULE MCDefinitions ----------------------------
(* Requests for each kind of source and engine: every text given, one of   *)
(* them left out, or all but the source's type in the nested section, with *)
(* the objects a pipeline may declare.                                     *)
EXTENDS MCPipelineDags, PipelineDefinition, TLC

MCSecret ==
  [pg |-> [driver |-> "postgres", database |-> TRUE, uri |-> TRUE, base_url |-> FALSE, auth_type |-> ""],
   pglocal |-> [driver |-> "postgres", database |-> TRUE, uri |-> FALSE, base_url |-> FALSE, auth_type |-> ""],
   mongopg |-> [driver |-> "postgresql", database |-> TRUE, uri |-> TRUE, base_url |-> FALSE, auth_type |-> ""],
   mongo |-> [driver |-> "mongodb", database |-> TRUE, uri |-> FALSE, base_url |-> FALSE, auth_type |-> ""],
   bearer |-> [driver |-> "", database |-> FALSE, uri |-> FALSE, base_url |-> TRUE, auth_type |-> "bearer"],
   basic |-> [driver |-> "", database |-> FALSE, uri |-> FALSE, base_url |-> TRUE, auth_type |-> "basic"]]

Blank == [k \in Texts |-> ""]
TextsOf == [
  database |-> {[source_type |-> "database", credential_ref |-> ref] : ref \in {"pg", "mongopg", "unknown"}},
  mongodb |-> {[source_type |-> t, credential_ref |-> "mongo"] : t \in {"database", "mongodb"}},
  rest_api |-> {[source_type |-> "rest_api", credential_ref |-> ref, endpoint |-> "path"]
                  : ref \in {"bearer", "basic"}},
  storage |-> {[source_type |-> "storage", format |-> "csv"]}]
EnginesOf == [database |-> {"omnibeam", "duckdb", "default", "spark", "dataflow", "unknown"},
              mongodb |-> {"omnibeam", "duckdb"},
              rest_api |-> {"omnibeam", "rest_api"},
              storage |-> {"omnibeam"}]
OwnRefs == [database |-> {"", "pglocal"}, mongodb |-> {""}, rest_api |-> {"", "bearer"}, storage |-> {""}]

(* The texts in the compute section and in its nested config.              *)
Places(texts) ==
  LET keys == DOMAIN texts
      without(k) == Restrict(texts, keys \ {k})
  IN {[compute |-> texts @@ Blank, config |-> <<>>],
      [compute |-> texts, config |-> <<>>],
      [compute |-> Restrict(texts, {"source_type"}), config |-> without("source_type")]}
     \cup {[compute |-> without(k), config |-> <<>>] : k \in keys}

Whole(q) == [object_name |-> "orders", load_strategy |-> "full_load", extraction_query |-> q]
Increments == [object_name : {"orders"}, load_strategy : {"incremental"},
               watermark_column : {"updated_at", "odd column"}, watermark_type : {"integer", "timestamp"},
               watermark_initial_value : {"", "ok"}, extraction_query : {"", "plain", "marked"}]
Increment == CHOOSE o \in Increments : o.watermark_initial_value = ""
ObjectLists ==
  {<<>>, <<[object_name |-> "transactions"]>>, <<Whole(""), Increment>>, <<Increment, Increment>>,
   <<[Increment EXCEPT !.watermark_initial_value = "bad"]>>,
   <<[object_name |-> "orders", load_strategy |-> "incremental"]>>,
   <<[object_name |-> "orders", watermark_column |-> "updated_at"]>>}
  \cup {<<Whole(q)>> : q \in {"", "plain", "marked"}}
  \cup {<<o>> : o \in Increments}

WithRef(objects, ref) ==
  [i \in DOMAIN objects |-> IF ref = "" THEN objects[i] ELSE objects[i] @@ [credential_ref |-> ref]]

Requests(kd) ==
  UNION {[origin : {"portal", "script"}, engine : EnginesOf[kd],
          compute : {p.compute}, config : {p.config},
          objects : {WithRef(os, ref) : os \in ObjectLists, ref \in OwnRefs[kd]}, cron : {TRUE}]
           : p \in UNION {Places(t) : t \in TextsOf[kd]}}
MCRequest ==
  UNION {Requests(kd) : kd \in DOMAIN TextsOf}
  \cup [origin : {"bare"}, engine : {""}, compute : {<<>>}, config : {<<>>},
        objects : ObjectLists, cron : BOOLEAN]

(* The two parts share no variable: each moves only while the other rests  *)
(* in an initial state.                                                    *)
DagsRest == run = 0 /\ kind = "etl" /\ source = <<>>
DefinitionsRest ==
  /\ phase = "new" /\ request.origin = "bare" /\ request.objects = <<>> /\ ~request.cron
MCInit == Init /\ DefInit /\ (DagsRest \/ DefinitionsRest)
MCNext ==
  \/ DefinitionsRest /\ Next /\ UNCHANGED defVars
  \/ DagsRest /\ DefNext /\ UNCHANGED vars
MCSpec == MCInit /\ [][MCNext]_<<vars, defVars>> /\ WF_vars(Work)
=============================================================================
