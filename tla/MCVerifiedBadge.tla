---------------------------- MODULE MCVerifiedBadge ----------------------------
(* VerifiedBadge for two listings.  The second is not in the register as the *)
(* model begins; each file names both.  badge.cfg takes the file that makes  *)
(* both licences run to a date; with the others a listing goes inactive.     *)
EXTENDS VerifiedBadge, TLC

FirstRegister == <<"active", "absent">>
TwoFiles == {<<"inactive", "dated">>, <<"dated", "active">>}
OneFile == {<<"inactive", "dated">>}
DatedFile == {<<"dated", "dated">>}

Symmetry == Permutations(Users) \cup Permutations(Requests) \cup Permutations(Imports)
===============================================================================
