------------------------------- MODULE MCBRSet ------------------------------
(* Items whose buckets are the same or next to each other in tables of 3   *)
(* and 7, around the end of the table: and two pointers that are equal.    *)
EXTENDS BRSet

MCHash == ("a1" :> 6) @@ ("a2" :> 6) @@ ("b" :> 13) @@ ("c" :> 5) @@ ("d" :> 0)
MCItems == DOMAIN MCHash
MCKey == [x \in MCItems |-> IF x \in {"a1", "a2"} THEN "a" ELSE x]
MCTableSizes == <<1, 3, 7, 13>>

=============================================================================
