--------------------------- MODULE MCDestinations ---------------------------
(***************************************************************************)
(* Three files over two business keys.  The first writes both keys; the    *)
(* second updates one and deletes the other; the third has no rows.        *)
(***************************************************************************)
EXTENDS Destinations

MCPuts == [f \in File |-> CASE f = 1 -> Key
                            [] f = 2 -> {CHOOSE k \in Key : TRUE}
                            [] OTHER -> {}]

MCDeletes == [f \in File |-> IF f = 2 THEN Key \ MCPuts[2] ELSE {}]

AllSetups == {"sql", "databricks", "bigquery"} \X {"append", "truncate", "cdc"}

BigQueryCdc == {<<"bigquery", "cdc">>}
=============================================================================
