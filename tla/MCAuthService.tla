---------------------------- MODULE MCAuthService -----------------------------
(* AuthService on a few requests.  The requests after the first are alike,   *)
(* and so are the passwords.                                                 *)
EXTENDS AuthService, TLC

Symmetry == Permutations(Request \ {FirstRequest}) \cup Permutations(Password)
===============================================================================
