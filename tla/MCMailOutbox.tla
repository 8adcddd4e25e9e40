----------------------------- MODULE MCMailOutbox ------------------------------
(* MailOutbox on a few messages and workers, alike among themselves.         *)
EXTENDS MailOutbox, TLC

Symmetry == Permutations(Message) \cup Permutations(Worker)
===============================================================================
