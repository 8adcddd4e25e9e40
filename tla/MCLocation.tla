------------------------------ MODULE MCLocation -------------------------------
EXTENDS Location

(* Two addresses in one ZIP, which has a centroid, and one in a ZIP that     *)
(* has none.                                                                 *)
Zips == [a \in Address |-> IF a = "far" THEN "unknown" ELSE "known"]
===============================================================================
