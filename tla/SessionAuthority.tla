--------------------------- MODULE SessionAuthority ---------------------------
(***************************************************************************)
(* What the password half of the authentication service promises, with no  *)
(* requests, locks or hashes in sight: an account has one current password *)
(* and a session that a password opened carries that password for as long  *)
(* as it is live.                                                          *)
(*                                                                         *)
(* A password is replaced together with the end of every session opened so *)
(* far, a session is born with the password that is current, and an ended  *)
(* session never comes back.  AuthService implements this specification.   *)
(***************************************************************************)
CONSTANTS
  SessionId,   \* identities of sessions; each is used once
  Password,    \* the passwords an account can have
  NoPassword   \* the account, or the session, has no password behind it

VARIABLES
  current,     \* the account's password
  opened,      \* session -> the password it was opened with
  ended        \* the sessions that are over

avars == <<current, opened, ended>>

AbstractInit ==
  /\ current \in Password \cup {NoPassword}
  /\ opened = [s \in SessionId |-> NoPassword]
  /\ ended = {}

(* A session opens on the current password and on no other. *)
Open(s) ==
  /\ opened[s] = NoPassword /\ s \notin ended
  /\ current # NoPassword
  /\ opened' = [opened EXCEPT ![s] = current]
  /\ UNCHANGED <<current, ended>>

(* Sessions end: logout, logout everywhere, expiry. *)
End(S) ==
  /\ S \subseteq {s \in SessionId : opened[s] # NoPassword}
  /\ ended' = ended \cup S
  /\ UNCHANGED <<current, opened>>

(* The password is replaced: whatever was open is over, and at most one      *)
(* session, the one the change rotates to, opens on the new password.       *)
Replace(p, fresh) ==
  /\ current' = p
  /\ ended' = ended \cup {s \in SessionId : opened[s] # NoPassword}
  /\ fresh \subseteq {s \in SessionId : opened[s] = NoPassword /\ s \notin ended}
  /\ \A s, t \in fresh : s = t
  /\ opened' = [s \in SessionId |-> IF s \in fresh THEN p ELSE opened[s]]

AbstractNext ==
  \/ \E s \in SessionId : Open(s)
  \/ \E S \in SUBSET SessionId : End(S)
  \/ \E p \in Password : \E fresh \in SUBSET SessionId : Replace(p, fresh)

AbstractSpec == AbstractInit /\ [][AbstractNext]_avars
===============================================================================
