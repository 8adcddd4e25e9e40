------------------------------- MODULE MCAlerts --------------------------------
EXTENDS Alerts

(* One search that shows every job and one that shows the later ones only.   *)
Filters == [s \in Search |-> IF s = "all" THEN Job ELSE Job \ {1}]
===============================================================================
