------------------------------ MODULE MCAccounts -------------------------------
EXTENDS Accounts

(* Ann reads one inbox, Bob the other; Ann has an identity.                  *)
Inboxes == [e \in Address |-> IF e = "a" THEN "ann" ELSE "bob"]
Owners == [s \in Subject |-> "ann"]
Providers == [s \in Subject |-> "google"]
===============================================================================
