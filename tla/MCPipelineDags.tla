--------------------------- MODULE MCPipelineDags ---------------------------
(* Each template with the engines its callbacks submit to.                 *)
EXTENDS PipelineDags

MCCases == {<<"etl", "dataform">>, <<"cosmos", "dbt">>,
            <<"export", "omnibeam">>, <<"export", "rest_api">>,
            <<"transformation", "dbt">>, <<"transformation", "dataform">>}
=============================================================================
