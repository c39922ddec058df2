---------------------------- MODULE MCQueryWindow ----------------------------
EXTENDS QueryWindow

(* Two tables that share the name of a column. *)
MCColumns == [t \in Tables |-> IF t = "orders" THEN <<"id", "total">> ELSE <<"id">>]

(* A drag and a lost highlighting are not followed in the same behaviour:    *)
(* the page and the query have only the tables in common (bound).           *)
NotBoth == "faded" \in did => drag.from = "none"
=============================================================================
