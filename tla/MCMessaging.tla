------------------------------ MODULE MCMessaging ------------------------------
(* Messaging for a few people and requests, alike among themselves.          *)
EXTENDS Messaging, TLC

Symmetry == Permutations(Requests) \cup Permutations(Homeowners)
===============================================================================
