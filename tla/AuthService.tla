----------------------------- MODULE AuthService ------------------------------
(***************************************************************************)
(* Password sign-in, sign-in codes, password change and password reset of  *)
(* one account (crates/cm-auth/src/service.rs over the repositories        *)
(* passwords, sessions and auth_tokens).                                   *)
(*                                                                         *)
(* Every handler runs as a request, and a request is cut where the code    *)
(* gives up the database: between the phases of login, change_password and *)
(* confirm_password_reset, between the two connections of                  *)
(* verify_login_code, and inside a transaction between the row lock (or    *)
(* the UPDATE's snapshot) and the commit.  Argon2 runs between two steps,  *)
(* holding nothing.  PostgreSQL runs at READ COMMITTED: a statement sees   *)
(* what was committed when it started, a row lock is held to the end of    *)
(* the transaction, and a transaction that fails leaves nothing behind.    *)
(*                                                                         *)
(* Each request makes at most one session and at most one token, so a      *)
(* session or a token is named by the request that made it.  A token row   *)
(* and the outbox row of its mail are written by one transaction, so the   *)
(* token stands for both.  Audit rows, which nothing reads back, are left  *)
(* out, and so is the rate limiter, which can only end a request early.  A *)
(* request refused before it has changed anything is no step at all.       *)
(***************************************************************************)
EXTENDS Integers, FiniteSets

CONSTANTS
  Request,            \* requests, hence also sessions and tokens
  NoRequest,
  FirstRequest,       \* the request whose session exists at the start
  Password,
  NoPassword,
  MaxFailedAttempts,  \* failed logins before the account is locked
  MaxCodeAttempts     \* wrong guesses before a challenge dies

ASSUME RequestAssumption == FirstRequest \in Request /\ NoRequest \notin Request
ASSUME PasswordAssumption == NoPassword \notin Password
ASSUME LimitAssumption == MaxFailedAttempts \in Nat \ {0} /\ MaxCodeAttempts \in Nat \ {0}

VARIABLES
  status,         \* users.status
  emailVerified,  \* users.email_verified_at IS NOT NULL
  device,         \* a remembered-device cookie exists for the account
  cred,           \* the password_credentials row
  pwLock,         \* the transaction holding that row's lock
  session,        \* the sessions table
  token,          \* the auth_tokens table
  req,            \* the requests in flight
  hashes          \* how many hashes have been computed: salts never repeat

vars == <<status, emailVerified, device, cred, pwLock, session, token, req, hashes>>

-------------------------------------------------------------------------------
(* A stored hash: the password it verifies, its salt, and whether its        *)
(* parameters are below the current ones.  NoHash: no credential row.        *)
Hash == [pw : Password, salt : Nat, weak : BOOLEAN]
NoHash == [pw |-> NoPassword, salt |-> 0, weak |-> FALSE]

Credential ==
  [hash : Hash \cup {NoHash}, failed : Nat, lock : {"none", "running", "elapsed"}]

Session ==
  [state : {"none", "live", "revoked", "expired"},
   pw    : Password \cup {NoPassword},    \* the password that opened it, if one did
   code  : Request \cup {NoRequest}]      \* the challenge that opened it, if one did

Token ==
  [purpose  : {"none", "login_code", "password_reset"},
   state    : {"none", "open", "consumed", "expired"},
   attempts : Nat]

Pc == {"idle", "clear", "verify", "revalidate", "commit_login", "upgrade",
       "change", "commit_change", "reset_link", "commit_reset_link", "peeked", "matched",
       "resend", "commit_resend", "done", "changed", "reset"}

RequestState ==
  [pc         : Pc,
   pw         : Password \cup {NoPassword},  \* the password presented, or the new one
   hash       : Hash \cup {NoHash},          \* verified_hash, as read in phase 1
   remembered : BOOLEAN,                     \* the device cookie remembers the account
   target     : Request \cup {NoRequest},    \* the token presented
   seen       : SUBSET Request]              \* the open tokens issue's UPDATE saw

TypeOK ==
  /\ status \in {"active", "suspended"}
  /\ emailVerified \in BOOLEAN /\ device \in BOOLEAN
  /\ cred \in Credential
  /\ pwLock \in Request \cup {NoRequest}
  /\ session \in [Request -> Session]
  /\ token \in [Request -> Token]
  /\ req \in [Request -> RequestState]
  /\ hashes \in Nat

Blank == [pc |-> "idle", pw |-> NoPassword, hash |-> NoHash, remembered |-> FALSE,
          target |-> NoRequest, seen |-> {}]
NoSession == [state |-> "none", pw |-> NoPassword, code |-> NoRequest]
NoToken == [purpose |-> "none", state |-> "none", attempts |-> 0]

(* An account that exists: registered with a password, whose first code has  *)
(* been completed and opened a session, or federated, with no password.      *)
Init ==
  /\ status = "active"
  /\ emailVerified \in BOOLEAN
  /\ \E known \in BOOLEAN, weak \in BOOLEAN, p \in Password :
       /\ device = known
       /\ cred = [hash |-> IF known THEN [pw |-> p, salt |-> 0, weak |-> weak] ELSE NoHash,
                  failed |-> 0, lock |-> "none"]
  /\ pwLock = NoRequest
  /\ session = [r \in Request |->
                  IF r = FirstRequest THEN [NoSession EXCEPT !.state = "live"] ELSE NoSession]
  /\ token = [r \in Request |-> NoToken]
  /\ req = [r \in Request |->
              IF r = FirstRequest THEN [Blank EXCEPT !.pc = "done"] ELSE Blank]
  /\ hashes = 1

-------------------------------------------------------------------------------
(* The repositories.                                                         *)

can_authenticate == status = "active"
is_locked == cred.lock = "running"
find_live == {s \in Request : session[s].state = "live"}
OpenTokens(purpose) == {t \in Request : token[t].state = "open" /\ token[t].purpose = purpose}

\* Mutant: hashes are not salted.
UnsaltedHash(p) == [pw |-> p, salt |-> 0, weak |-> FALSE]
NewHash(p) == [pw |-> p, salt |-> hashes, weak |-> FALSE]
Cleared(c) == [hash |-> c.hash, failed |-> 0, lock |-> "none"]

\* Mutant: the lock is tested on the value before the increment.
RecordFailureLate(c) ==
  [hash |-> c.hash, failed |-> c.failed + 1,
   lock |-> IF c.failed >= MaxFailedAttempts THEN "running" ELSE c.lock]
record_failure(c) ==
  [hash |-> c.hash, failed |-> c.failed + 1,
   lock |-> IF c.failed + 1 >= MaxFailedAttempts THEN "running" ELSE c.lock]

SessionFor(p, challenge) == [state |-> "live", pw |-> p, code |-> challenge]

\* Mutant: expired instead of live sessions are revoked.
RevokeNone(s) ==
  [r \in Request |-> IF s[r].state = "expired" THEN [s[r] EXCEPT !.state = "revoked"] ELSE s[r]]
revoke_all(s) ==
  [r \in Request |-> IF s[r].state = "live" THEN [s[r] EXCEPT !.state = "revoked"] ELSE s[r]]

(* issue: the UPDATE consumes what it saw, the INSERT adds the new token.    *)
Issued(r, purpose, seen) ==
  [t \in Request |->
     IF t = r THEN [purpose |-> purpose, state |-> "open", attempts |-> 0]
     ELSE IF t \in seen /\ token[t].state = "open" THEN [token[t] EXCEPT !.state = "consumed"]
     ELSE token[t]]

(* verify_code: one UPDATE counts the guess and consumes the token on a      *)
(* match or on the last attempt.                                             *)
Counted(t, dies) ==
  [token EXCEPT ![t] = [purpose  |-> @.purpose,
                        state    |-> IF dies THEN "consumed" ELSE @.state,
                        attempts |-> @.attempts + 1]]
\* Mutant: the cap is tested on the value before the increment.
GuessedOnceMore(t, matches) == Counted(t, matches \/ token[t].attempts >= MaxCodeAttempts)
\* Mutant: a match does not consume the challenge.
GuessedUnspent(t, matches) == Counted(t, token[t].attempts + 1 >= MaxCodeAttempts)
Guessed(t, matches) == Counted(t, matches \/ token[t].attempts + 1 >= MaxCodeAttempts)

Goto(r, where) == req' = [req EXCEPT ![r].pc = where]
Finish(r, how) == req' = [req EXCEPT ![r] = [Blank EXCEPT !.pc = how]]

(* A transaction that only issues a token: its UPDATE sees the open ones.    *)
IssueSees(r, from, purpose, to) ==
  /\ req[r].pc = from
  /\ req' = [req EXCEPT ![r] = [Blank EXCEPT !.pc = to, !.seen = OpenTokens(purpose)]]
  /\ UNCHANGED <<status, emailVerified, device, cred, pwLock, session, token, hashes>>

-------------------------------------------------------------------------------
(* login                                                                     *)

(* Phase 1 refuses an inactive account, one with no password and a locked    *)
(* one; otherwise it reads the credential and lets the connection go.  A     *)
(* lock that has elapsed is cleared by a second statement.                   *)
LoginPrecheck(r, p, remembered) ==
  /\ req[r].pc = "idle"
  /\ can_authenticate /\ cred.hash # NoHash /\ ~is_locked
  /\ remembered => device
  /\ req' = [req EXCEPT ![r] =
               [Blank EXCEPT !.pc = IF cred.lock = "elapsed" THEN "clear" ELSE "verify",
                             !.pw = p, !.hash = cred.hash, !.remembered = remembered]]
  /\ UNCHANGED <<status, emailVerified, device, cred, pwLock, session, token, hashes>>

ClearElapsedLock(r) ==
  /\ req[r].pc = "clear"
  /\ pwLock = NoRequest
  /\ cred' = Cleared(cred)
  /\ Goto(r, "verify")
  /\ UNCHANGED <<status, emailVerified, device, pwLock, session, token, hashes>>

(* Phase 2: the hash read in phase 1 does not verify the password.           *)
LoginFails(r) ==
  /\ req[r].pc = "verify" /\ req[r].pw # req[r].hash.pw
  /\ pwLock = NoRequest
  /\ cred' = record_failure(cred)
  /\ Finish(r, "done")
  /\ UNCHANGED <<status, emailVerified, device, pwLock, session, token, hashes>>

LoginVerified(r) ==
  /\ req[r].pc = "verify" /\ req[r].pw = req[r].hash.pw
  /\ Goto(r, "revalidate")
  /\ UNCHANGED <<status, emailVerified, device, cred, pwLock, session, token, hashes>>

\* Mutant: the hash is not compared again.
RevalidateStatusOnly(r) == can_authenticate /\ ~is_locked

(* Phase 3, under the row lock: what revalidate accepts.                     *)
revalidate(r) ==
  /\ cred.hash # NoHash
  /\ can_authenticate
  /\ cred.hash = req[r].hash
  /\ ~is_locked

(* The lock is taken and the credential is still the one that was verified.  *)
LoginRevalidated(r) ==
  /\ req[r].pc = "revalidate"
  /\ pwLock = NoRequest
  /\ revalidate(r)
  /\ pwLock' = r
  /\ req' = [req EXCEPT ![r] =
               [@ EXCEPT !.pc = "commit_login",
                         !.seen = IF req[r].remembered THEN {} ELSE OpenTokens("login_code")]]
  /\ UNCHANGED <<status, emailVerified, device, cred, session, token, hashes>>

(* Something moved while Argon2 ran: the login is refused and rolled back.   *)
LoginStale(r) ==
  /\ req[r].pc = "revalidate"
  /\ pwLock = NoRequest
  /\ ~revalidate(r)
  /\ Finish(r, "done")
  /\ UNCHANGED <<status, emailVerified, device, cred, pwLock, session, token, hashes>>

(* The commit: a session in a remembered browser, a code challenge in any    *)
(* other; then the hash is brought to current parameters if it is weak.      *)
LoginCommit(r) ==
  /\ req[r].pc = "commit_login"
  /\ cred' = Cleared(cred)
  /\ \/ /\ req[r].remembered
        /\ session' = [session EXCEPT ![r] = SessionFor(req[r].pw, NoRequest)]
        /\ UNCHANGED token
     \/ /\ ~req[r].remembered
        /\ token' = Issued(r, "login_code", req[r].seen)
        /\ UNCHANGED session
  /\ pwLock' = NoRequest
  /\ IF req[r].hash.weak THEN Goto(r, "upgrade") ELSE Finish(r, "done")
  /\ UNCHANGED <<status, emailVerified, device, hashes>>

(* upgrade_hash: a compare-and-swap, outside any transaction.                *)
UpgradeHash(r) ==
  /\ req[r].pc = "upgrade"
  /\ pwLock = NoRequest
  /\ cred' = IF cred.hash = req[r].hash THEN [cred EXCEPT !.hash = NewHash(req[r].pw)] ELSE cred
  /\ hashes' = hashes + 1
  /\ Finish(r, "done")
  /\ UNCHANGED <<status, emailVerified, device, pwLock, session, token>>

-------------------------------------------------------------------------------
(* Sign-in codes                                                             *)

(* verify_login_code, first half: the guess is spent on its own connection.  *)
VerifyCode(r, t, matches) ==
  /\ req[r].pc = "idle"
  /\ t \in OpenTokens("login_code")
  /\ token' = Guessed(t, matches)
  /\ IF matches
     THEN req' = [req EXCEPT ![r] = [Blank EXCEPT !.pc = "matched", !.target = t]]
     ELSE Finish(r, "done")
  /\ UNCHANGED <<status, emailVerified, device, cred, pwLock, session, hashes>>

(* Second half, a transaction: the address is proved and the session opens.  *)
CodeSession(r) ==
  /\ req[r].pc = "matched"
  /\ \/ /\ can_authenticate
        /\ emailVerified' = TRUE
        /\ device' = TRUE
        /\ session' = [session EXCEPT ![r] = SessionFor(NoPassword, req[r].target)]
     \/ /\ ~can_authenticate
        /\ UNCHANGED <<emailVerified, device, session>>
  /\ Finish(r, "done")
  /\ UNCHANGED <<status, cred, pwLock, token, hashes>>

(* resend_login_code: the challenge is read, then a transaction issues anew. *)
ResendCode(r, t) ==
  /\ req[r].pc = "idle"
  /\ t \in OpenTokens("login_code")
  /\ req' = [req EXCEPT ![r] = [Blank EXCEPT !.pc = "resend"]]
  /\ UNCHANGED <<status, emailVerified, device, cred, pwLock, session, token, hashes>>

ResendIssue(r) == IssueSees(r, "resend", "login_code", "commit_resend")

ResendCommit(r) ==
  /\ req[r].pc = "commit_resend"
  /\ token' = Issued(r, "login_code", req[r].seen)
  /\ Finish(r, "done")
  /\ UNCHANGED <<status, emailVerified, device, cred, pwLock, session, hashes>>

-------------------------------------------------------------------------------
(* Password reset                                                            *)

(* request_password_reset: the account is found active, then a transaction   *)
(* issues the link.                                                          *)
RequestReset(r) ==
  /\ req[r].pc = "idle"
  /\ can_authenticate
  /\ req' = [req EXCEPT ![r] = [Blank EXCEPT !.pc = "reset_link"]]
  /\ UNCHANGED <<status, emailVerified, device, cred, pwLock, session, token, hashes>>

ResetLinkIssue(r) == IssueSees(r, "reset_link", "password_reset", "commit_reset_link")

ResetLinkCommit(r) ==
  /\ req[r].pc = "commit_reset_link"
  /\ token' = Issued(r, "password_reset", req[r].seen)
  /\ Finish(r, "done")
  /\ UNCHANGED <<status, emailVerified, device, cred, pwLock, session, hashes>>

(* confirm_password_reset: the link is peeked, the new password hashed ...   *)
PeekLink(r, t, p) ==
  /\ req[r].pc = "idle"
  /\ t \in OpenTokens("password_reset")
  /\ can_authenticate
  /\ req' = [req EXCEPT ![r] = [Blank EXCEPT !.pc = "peeked", !.pw = p, !.target = t]]
  /\ UNCHANGED <<status, emailVerified, device, cred, pwLock, session, token, hashes>>

(* ... and one transaction spends it, sets the password, ends every session  *)
(* and marks the address proved.  A link spent meanwhile ends the request.   *)
ConfirmReset(r) ==
  /\ req[r].pc = "peeked"
  /\ pwLock = NoRequest
  /\ token[req[r].target].state = "open"
  /\ token' = [token EXCEPT ![req[r].target].state = "consumed"]
  /\ cred' = [hash |-> NewHash(req[r].pw), failed |-> 0, lock |-> "none"]
  /\ hashes' = hashes + 1
  /\ session' = revoke_all(session)
  /\ emailVerified' = TRUE
  /\ req' = [req EXCEPT ![r].pc = "reset"]
  /\ UNCHANGED <<status, device, pwLock>>

ResetLinkGone(r) ==
  /\ req[r].pc = "peeked"
  /\ token[req[r].target].state # "open"
  /\ Finish(r, "done")
  /\ UNCHANGED <<status, emailVerified, device, cred, pwLock, session, token, hashes>>

-------------------------------------------------------------------------------
(* Password change and logout, from a live session of an active account      *)

Authenticated == can_authenticate /\ find_live # {}

(* change_password, phases 1 and 2: the credential read verifies the current *)
(* password, and the new one differs from it.                                *)
ChangeRequest(r, p, new) ==
  /\ req[r].pc = "idle"
  /\ Authenticated
  /\ cred.hash # NoHash /\ p = cred.hash.pw /\ p # new
  /\ req' = [req EXCEPT ![r] = [Blank EXCEPT !.pc = "change", !.pw = new, !.hash = cred.hash]]
  /\ UNCHANGED <<status, emailVerified, device, cred, pwLock, session, token, hashes>>

ChangeRevalidated(r) ==
  /\ req[r].pc = "change"
  /\ pwLock = NoRequest
  /\ revalidate(r)
  /\ pwLock' = r
  /\ Goto(r, "commit_change")
  /\ UNCHANGED <<status, emailVerified, device, cred, session, token, hashes>>

ChangeConflict(r) ==
  /\ req[r].pc = "change"
  /\ pwLock = NoRequest
  /\ ~revalidate(r)
  /\ Finish(r, "done")
  /\ UNCHANGED <<status, emailVerified, device, cred, pwLock, session, token, hashes>>

(* The swap, the end of every session and the session it rotates to.         *)
ChangeCommit(r) ==
  /\ req[r].pc = "commit_change"
  /\ IF cred.hash = req[r].hash
     THEN /\ cred' = [hash |-> NewHash(req[r].pw), failed |-> 0, lock |-> "none"]
          /\ hashes' = hashes + 1
          /\ session' = [revoke_all(session) EXCEPT ![r] = SessionFor(req[r].pw, NoRequest)]
          /\ Goto(r, "changed")
     ELSE /\ Finish(r, "done")
          /\ UNCHANGED <<cred, hashes, session>>
  /\ pwLock' = NoRequest
  /\ UNCHANGED <<status, emailVerified, device, token>>

Logout(r, s) ==
  /\ req[r].pc = "idle"
  /\ can_authenticate /\ s \in find_live
  /\ session' = [session EXCEPT ![s].state = "revoked"]
  /\ Finish(r, "done")
  /\ UNCHANGED <<status, emailVerified, device, cred, pwLock, token, hashes>>

LogoutAll(r) ==
  /\ req[r].pc = "idle"
  /\ Authenticated
  /\ session' = revoke_all(session)
  /\ Finish(r, "done")
  /\ UNCHANGED <<status, emailVerified, device, cred, pwLock, token, hashes>>

-------------------------------------------------------------------------------
(* What happens around the requests                                          *)

\* Mutant: the transaction of an abandoned request stays open.
AbandonHoldingLock(r) ==
  /\ req[r].pc \notin {"idle", "done", "changed", "reset"}
  /\ Finish(r, "done")
  /\ UNCHANGED <<status, emailVerified, device, cred, pwLock, session, token, hashes>>

(* A request ends early: rate limited, client gone, database error, crash.   *)
(* Its open transaction rolls back and its row lock is released.             *)
Abandon(r) ==
  /\ req[r].pc \notin {"idle", "done", "changed", "reset"}
  /\ pwLock' = IF pwLock = r THEN NoRequest ELSE pwLock
  /\ Finish(r, "done")
  /\ UNCHANGED <<status, emailVerified, device, cred, session, token, hashes>>

(* Support suspends, deletes or restores the account in the database: all    *)
(* that is read of a status is whether it is active.                         *)
SupportSetsStatus(s) ==
  /\ status # s
  /\ status' = s
  /\ UNCHANGED <<emailVerified, device, cred, pwLock, session, token, req, hashes>>

(* A lock lasts fifteen minutes and a request thirty seconds, so the logins  *)
(* that passed their precheck before the lock began are over by then.        *)
LockElapses ==
  /\ cred.lock = "running"
  /\ \A r \in Request :
       req[r].pc \notin {"clear", "verify", "revalidate", "commit_login", "upgrade"}
  /\ cred' = [cred EXCEPT !.lock = "elapsed"]
  /\ UNCHANGED <<status, emailVerified, device, pwLock, session, token, req, hashes>>

TokenExpires(t) ==
  /\ token[t].state = "open"
  /\ token' = [token EXCEPT ![t].state = "expired"]
  /\ UNCHANGED <<status, emailVerified, device, cred, pwLock, session, req, hashes>>

SessionExpires(s) ==
  /\ session[s].state = "live"
  /\ session' = [session EXCEPT ![s].state = "expired"]
  /\ UNCHANGED <<status, emailVerified, device, cred, pwLock, token, req, hashes>>

-------------------------------------------------------------------------------
(* The steps a request takes once it has begun ...                           *)
Proceed(r) ==
  \/ ClearElapsedLock(r) \/ LoginFails(r) \/ LoginVerified(r)
  \/ LoginRevalidated(r) \/ LoginStale(r) \/ LoginCommit(r) \/ UpgradeHash(r)
  \/ CodeSession(r) \/ ResendIssue(r) \/ ResendCommit(r)
  \/ ResetLinkIssue(r) \/ ResetLinkCommit(r)
  \/ ConfirmReset(r) \/ ResetLinkGone(r)
  \/ ChangeRevalidated(r) \/ ChangeConflict(r) \/ ChangeCommit(r)

(* ... and how it begins. *)
Begin(r) ==
  \/ \E p \in Password, remembered \in BOOLEAN : LoginPrecheck(r, p, remembered)
  \/ \E t \in Request, matches \in BOOLEAN : VerifyCode(r, t, matches)
  \/ \E t \in Request : ResendCode(r, t)
  \/ RequestReset(r)
  \/ \E t \in Request, p \in Password : PeekLink(r, t, p)
  \/ \E p, new \in Password : ChangeRequest(r, p, new)
  \/ \E s \in Request : Logout(r, s)
  \/ LogoutAll(r)

Environment ==
  \/ \E s \in {"active", "suspended"} : SupportSetsStatus(s)
  \/ LockElapses
  \/ \E t \in Request : TokenExpires(t)
  \/ \E s \in Request : SessionExpires(s)

Next ==
  \/ \E r \in Request : Begin(r) \/ Proceed(r) \/ Abandon(r)
  \/ Environment

Spec == Init /\ [][Next]_vars

(* A handler that has begun runs on: tokio keeps polling it, Argon2 and      *)
(* every statement end, and PostgreSQL grants a row lock in turn.            *)
FairSpec == Spec /\ \A r \in Request : WF_vars(Proceed(r))

-------------------------------------------------------------------------------
(* Properties                                                                *)

(* The account's password and the sessions it opened, as SessionAuthority    *)
(* sees them.                                                                *)
Authority ==
  INSTANCE SessionAuthority WITH
    SessionId <- Request,
    current   <- cred.hash.pw,
    opened    <- [s \in Request |-> session[s].pw],
    ended     <- {s \in Request : session[s].pw # NoPassword /\ session[s].state # "live"}

(* Login, change, reset, upgrade and logout, interleaved in any way and       *)
(* abandoned anywhere, implement SessionAuthority: a session opens only on    *)
(* the current password (login, change_password) and a password is replaced   *)
(* only together with the end of every session (change, reset).              *)
ImplementsAuthority == Authority!AbstractSpec

(* A live session that a password opened was opened with the account's       *)
(* current password: login's three phases and the revocation in              *)
(* change_password and confirm_password_reset leave no other.                *)
PasswordSessionsCurrent ==
  \A s \in Request :
    session[s].state = "live" /\ session[s].pw # NoPassword => session[s].pw = cred.hash.pw

(* What revalidate established under the row lock is still so when the       *)
(* transaction commits: same hash, not locked, lock still held.              *)
RevalidatedStillTrue ==
  \A r \in Request :
    req[r].pc \in {"commit_login", "commit_change"} =>
      pwLock = r /\ cred.hash = req[r].hash /\ ~is_locked

(* Two password changes that verified the same stored hash do not both       *)
(* succeed (replace_hash's compare-and-swap).                                *)
ChangeWinsOnce ==
  \A r1, r2 \in Request :
    req[r1].pc = "changed" /\ req[r2].pc = "changed" /\ req[r1].hash = req[r2].hash => r1 = r2

(* The account is locked, or its lock has elapsed and awaits clearing,       *)
(* exactly when the failure counter has run out, however failures,           *)
(* successes, clears and resets interleave (record_failure, clear_failures). *)
LockIffExhausted == cred.lock # "none" <=> cred.failed >= MaxFailedAttempts

(* The requests that got something for a token: a code matched, the session  *)
(* a code opened, a password reset.                                          *)
Spenders(t) ==
  {r \in Request : req[r].pc \in {"matched", "reset"} /\ req[r].target = t}
    \cup {r \in Request : session[r].code = t}

(* A challenge or a reset link is spent at most once, and is no longer open  *)
(* then (verify_code, consume_link).                                         *)
TokenSpentOnce ==
  \A t \in Request :
    /\ \A r1, r2 \in Spenders(t) : r1 = r2
    /\ Spenders(t) # {} => token[t].state # "open"

(* No code is guessed at more than MaxCodeAttempts times, no matter how       *)
(* requests race, and the last guess closes the challenge (verify_code).     *)
CodeGuessesBounded ==
  \A t \in Request :
    /\ token[t].attempts <= MaxCodeAttempts
    /\ token[t].state = "open" => token[t].attempts < MaxCodeAttempts

(* Every request that has begun is answered: nobody waits for ever on the    *)
(* credential row (login, change_password, confirm_password_reset).          *)
EveryRequestAnswered ==
  \A r \in Request :
    req[r].pc # "idle" ~> req[r].pc \in {"done", "changed", "reset"}

(* What one step of a request leaves for the next, the facts the invariants  *)
(* above rest on: the password it holds; the hash that verified it; the      *)
(* token it was shown; the session and the token it has not made yet; and    *)
(* hashes no other than the one replaced, since salts are fresh.             *)
PasswordHeld(r) ==
  req[r].pc \in {"clear", "verify", "revalidate", "commit_login", "upgrade", "peeked",
                 "change", "commit_change"} => req[r].pw \in Password
PasswordVerified(r) ==
  req[r].pc \in {"revalidate", "commit_login", "upgrade"} => req[r].hash.pw = req[r].pw
TargetIssued(r) ==
  /\ req[r].pc \in {"peeked", "matched", "reset"} => req[r].target \in Request
  /\ \A t \in Request :
       (req[r].pc \in {"peeked", "matched", "reset"} /\ req[r].target = t) \/ session[r].code = t =>
         token[t].state # "none"
NothingMadeYet(r) ==
  req[r].pc \notin {"upgrade", "done", "changed", "reset"} =>
    session[r] = NoSession /\ token[r] = NoToken
FreshSalts(r) ==
  /\ cred.hash.salt < hashes /\ req[r].hash.salt < hashes
  /\ req[r].pc = "changed" => req[r].hash # cred.hash

Coherent(r) ==
  PasswordHeld(r) /\ PasswordVerified(r) /\ TargetIssued(r) /\ NothingMadeYet(r) /\ FreshSalts(r)

(* Each of these holds of every request, through every step of the others    *)
(* (the state login, change_password and confirm_password_reset keep across  *)
(* their phases).                                                            *)
RequestsCoherent == \A r \in Request : Coherent(r)

-------------------------------------------------------------------------------
(* What comments and documents say and the code does not keep                *)

(* auth_tokens::issue: "at most one is ever live per (user, purpose)".       *)
AtMostOneLiveToken ==
  \A purpose \in {"login_code", "password_reset"} :
    \A t1, t2 \in OpenTokens(purpose) : t1 = t2

(* auth-state-machine.md, B.6 and the Lock row: a running lock ends by time   *)
(* (or by a completed reset), not by a login's clear_failures.               *)
LockRunsItsTime ==
  [][is_locked /\ cred'.lock = "none" => \E r \in Request : ConfirmReset(r)]_vars
===============================================================================
