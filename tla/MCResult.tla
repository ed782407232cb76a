------------------------------ MODULE MCResult ------------------------------
(* Result with two names for one column and one for another.                *)
EXTENDS Result

MCNames   == {"id", "ID", "v"}
MCtolower == [n \in MCNames |-> IF n = "ID" THEN "id" ELSE n]
=============================================================================
