------------------------------- MODULE MCPaging --------------------------------
EXTENDS Paging

FirstTimes == [r \in Row |-> IF r = 1 THEN 1 ELSE 2]

Ask(surface, sort, q, near, radius) ==
  [surface |-> surface, sort |-> sort, q |-> q, near |-> near, radius |-> radius]

(* One query string for every ordering of every surface, and a refused one.  *)
OneOfEach ==
  {Ask("board", "absent", FALSE, FALSE, FALSE), Ask("board", "budget", FALSE, FALSE, FALSE),
   Ask("board", "best", TRUE, FALSE, FALSE), Ask("board", "distance", FALSE, TRUE, FALSE),
   Ask("board", "distance", FALSE, FALSE, FALSE),
   Ask("feed", "absent", FALSE, FALSE, FALSE),
   Ask("directory", "absent", FALSE, FALSE, FALSE), Ask("directory", "best", TRUE, FALSE, FALSE),
   Ask("directory", "name", FALSE, FALSE, FALSE),
   Ask("directory", "distance", FALSE, TRUE, FALSE), Ask("directory", "distance", FALSE, TRUE, TRUE)}

ByBudget == {Ask("board", "budget", FALSE, FALSE, FALSE)}
===============================================================================
