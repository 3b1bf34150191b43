----------------------------- MODULE MCSettings ------------------------------
(* A small instance of Settings. *)
EXTENDS Settings

MCDefaults == [k \in Keys |-> IF k = "mode" THEN "DAB" ELSE "a"]
=============================================================================
