------------------------------ MODULE MCSetup ------------------------------
(* Pairs of scripts that share assets, pipelines or files, and a script    *)
(* beside itself.                                                          *)
EXTENDS SetupScripts

CONSTANTS c1, c2

MCEndpoint == {"e2e-db-prod", "ep-landing-platform", "platform-landing-storage",
               "landing-filesystem"}
MCAsset == {"postgres_asset", "platform_bronze", "platform_silver", "e2e-postgres-asset",
            "file_asset_bronze", "transactions_csv_asset"}
MCObject == {"customers", "sales_summary", "players", "slv_players", "transactions"}
MCPipeline == {"Ingest_Customers_Table", "Ingest Customers Table",
               "ETL_Sales_and_Customer_Analytics", "Ingest_players_Platform_Bronze",
               "Platform_Silver_ETL", "ingest_transactions_landing"}

(* safe_name: a space and an underscore give the same file.                *)
MCFileOf(p) == IF p = "Ingest Customers Table" THEN "dag_p_Ingest_Customers_Table"
               ELSE p

MCSourceOf(e) ==
  CASE e = "e2e-db-prod" -> {"customers"}
    [] e = "landing-filesystem" -> {"transactions"}
    [] OTHER -> {"players"}

MCFilled == MCEndpoint \ {"e2e-db-prod"}

Beside(s, t) == [c \in {c1, c2} |-> IF c = c1 THEN s ELSE t]

MCTeam ==
  {Beside("demo", "e2e"), Beside("demo", "portal"), Beside("e2e", "portal"),
   Beside("e2e", "e2e"), Beside("bronze", "execute"),
   Beside("bronze", "edit"), Beside("execute", "transformation"),
   Beside("execute", "generate"), Beside("validate", "validate"),
   Beside("bronze", "bronze")}
=============================================================================
