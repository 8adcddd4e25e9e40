-------------------------- MODULE AuthServiceProofs ---------------------------
(* Proofs about AuthService, for any number of requests and passwords and    *)
(* any limits.                                                               *)
EXTENDS AuthService, TLAPS

(* The pieces of state keep their shape.                                     *)
LEMMA BlankType == Blank \in RequestState /\ NoSession \in Session /\ NoToken \in Token
  BY DEF Blank, RequestState, Pc, NoSession, Session, NoToken, Token

(* Finish ends the request and forgets what it carried.                      *)
LEMMA FinishType ==
  ASSUME req \in [Request -> RequestState], NEW r \in Request, NEW how \in Pc, Finish(r, how)
  PROVE  /\ req' \in [Request -> RequestState]
         /\ \A q \in Request \ {r} : req'[q] = req[q]
         /\ req'[r].pc = how /\ req'[r].target = NoRequest /\ req'[r].hash = NoHash
  BY BlankType DEF Finish, RequestState, Blank

(* Goto moves the request on and keeps everything it carries.                *)
LEMMA GotoType ==
  ASSUME req \in [Request -> RequestState], NEW r \in Request, NEW where \in Pc, Goto(r, where)
  PROVE  /\ req' \in [Request -> RequestState]
         /\ \A q \in Request \ {r} : req'[q] = req[q]
         /\ req'[r].pc = where /\ req'[r].pw = req[r].pw /\ req'[r].hash = req[r].hash
         /\ req'[r].target = req[r].target /\ req'[r].seen = req[r].seen
         /\ req'[r].remembered = req[r].remembered
  BY DEF Goto, RequestState

(* LoginRevalidated moves the request to its commit; only pc and seen change. *)
LEMMA RevalidatedType ==
  ASSUME TypeOK, NEW r \in Request, LoginRevalidated(r)
  PROVE  /\ req' \in [Request -> RequestState]
         /\ \A q \in Request \ {r} : req'[q] = req[q]
         /\ req'[r].pc = "commit_login" /\ req'[r].pw = req[r].pw /\ req'[r].hash = req[r].hash
         /\ req'[r].target = req[r].target /\ req'[r].remembered = req[r].remembered
<1> DEFINE seen == IF req[r].remembered THEN {} ELSE OpenTokens("login_code")
<1>1. req' = [req EXCEPT ![r] = [@ EXCEPT !.pc = "commit_login", !.seen = seen]]
  BY DEF LoginRevalidated
<1>2. seen \in SUBSET Request
  BY DEF OpenTokens
<1> HIDE DEF seen
<1>3. req[r] \in RequestState /\ req \in [Request -> RequestState]
  BY DEF TypeOK
<1>4. [req[r] EXCEPT !.pc = "commit_login", !.seen = seen] \in RequestState
  BY <1>2, <1>3 DEF RequestState, Pc
<1>5. req' \in [Request -> RequestState] /\ \A q \in Request \ {r} : req'[q] = req[q]
  BY <1>1, <1>3, <1>4
<1> QED
  BY <1>1, <1>3, <1>5 DEF RequestState

(* What a request that is about to issue a token keeps.                      *)
LEMMA IssueSeesType ==
  ASSUME TypeOK, NEW r \in Request, NEW from, NEW purpose, NEW to \in Pc, IssueSees(r, from, purpose, to)
  PROVE  /\ req' \in [Request -> RequestState] /\ req'[r] \in RequestState
         /\ req' = [req EXCEPT ![r] = req'[r]]
         /\ req'[r].pc = to /\ req'[r].hash = NoHash
         /\ \A q \in Request \ {r} : req'[q] = req[q]
<1> DEFINE b == [Blank EXCEPT !.pc = to, !.seen = OpenTokens(purpose)]
<1>1. b \in RequestState /\ b.pc = to /\ b.hash = NoHash
  BY BlankType DEF RequestState, Blank, OpenTokens
<1>2. req' = [req EXCEPT ![r] = b]
  BY DEF IssueSees
<1> HIDE DEF b
<1>3. req'[r] = b
  BY <1>2 DEF TypeOK
<1> QED
  BY <1>1, <1>2, <1>3 DEF TypeOK

(* clear_failures and record_failure keep the hash; what they do to the rest. *)
LEMMA CredentialType ==
  ASSUME NEW c \in Credential
  PROVE  /\ Cleared(c) \in Credential
         /\ Cleared(c).hash = c.hash /\ Cleared(c).failed = 0 /\ Cleared(c).lock = "none"
         /\ record_failure(c) \in Credential
         /\ record_failure(c).hash = c.hash
         /\ record_failure(c).failed = c.failed + 1
         /\ record_failure(c).lock =
              IF c.failed + 1 >= MaxFailedAttempts THEN "running" ELSE c.lock
  BY LimitAssumption DEF Cleared, record_failure, Credential

(* issue leaves a table of tokens.                                           *)
LEMMA IssuedType ==
  ASSUME token \in [Request -> Token], NEW r \in Request, NEW seen,
         NEW purpose \in {"login_code", "password_reset"}
  PROVE  Issued(r, purpose, seen) \in [Request -> Token]
  BY DEF Issued, Token

(* verify_code counts the guess on one token and closes it on a match or on   *)
(* the last attempt.                                                         *)
LEMMA GuessedType ==
  ASSUME token \in [Request -> Token], NEW t \in Request, NEW matches \in BOOLEAN
  PROVE  /\ Guessed(t, matches) \in [Request -> Token]
         /\ \A u \in Request \ {t} : Guessed(t, matches)[u] = token[u]
         /\ Guessed(t, matches)[t].attempts = token[t].attempts + 1
         /\ Guessed(t, matches)[t].purpose = token[t].purpose
         /\ Guessed(t, matches)[t].state =
              IF matches \/ token[t].attempts + 1 >= MaxCodeAttempts
              THEN "consumed" ELSE token[t].state
  BY DEF Guessed, Counted, Token

(* revoke_all ends every live session and touches nothing else of any.       *)
LEMMA RevokeType ==
  ASSUME NEW s \in [Request -> Session]
  PROVE  /\ revoke_all(s) \in [Request -> Session]
         /\ \A q \in Request :
              /\ revoke_all(s)[q].code = s[q].code /\ revoke_all(s)[q].pw = s[q].pw
              /\ revoke_all(s)[q].state # "live"
              /\ s[q].state # "live" => revoke_all(s)[q] = s[q]
  BY DEF revoke_all, Session

(* A new hash is a hash of its password, and never the absent one.           *)
LEMMA NewHashType ==
  ASSUME hashes \in Nat, NEW p \in Password
  PROVE  NewHash(p) \in Hash /\ NewHash(p) # NoHash /\ NewHash(p).pw = p
  BY PasswordAssumption DEF NewHash, Hash, NoHash

(* A session issued on a password or on a challenge is a session.            *)
LEMMA SessionForType ==
  ASSUME NEW p \in Password \cup {NoPassword}, NEW c \in Request \cup {NoRequest}
  PROVE  SessionFor(p, c) \in Session
  BY DEF SessionFor, Session

(* Init gives every variable its type.                                       *)
LEMMA InitType == Init => TypeOK
<1> SUFFICES ASSUME Init PROVE TypeOK
  OBVIOUS
<1>1. cred \in Credential
  BY DEF Init, Credential, Hash, NoHash
<1>2. session \in [Request -> Session] /\ token \in [Request -> Token]
  BY BlankType DEF Init, Session, NoSession
<1>3. req \in [Request -> RequestState]
  BY BlankType DEF Init, RequestState, Blank, Pc
<1> QED
  BY <1>1, <1>2, <1>3 DEF Init, TypeOK

(* No step, of any request or around them, takes a variable out of its type: *)
(* the new hashes are of passwords because PasswordHeld.                     *)
LEMMA StepType == TypeOK /\ RequestsCoherent /\ [Next]_vars => TypeOK'
<1> SUFFICES ASSUME TypeOK, RequestsCoherent, [Next]_vars PROVE TypeOK'
  OBVIOUS
<1> USE DEF TypeOK
<1>t. {"done", "verify", "revalidate", "upgrade", "commit_change", "changed", "reset"} \subseteq Pc
  BY DEF Pc
<1>1. ASSUME NEW r \in Request, Begin(r) PROVE TypeOK'
  <2>1. ASSUME NEW p \in Password, NEW remembered \in BOOLEAN, LoginPrecheck(r, p, remembered)
        PROVE  TypeOK'
    <3>1. cred.hash \in Hash \cup {NoHash}
      BY DEF Credential
    <3>2. req' \in [Request -> RequestState]
      BY <2>1, <3>1 DEF LoginPrecheck, RequestState, Blank, Pc
    <3> QED
      BY <2>1, <3>2 DEF LoginPrecheck
  <2>2. ASSUME NEW t \in Request, NEW matches \in BOOLEAN, VerifyCode(r, t, matches)
        PROVE  TypeOK'
    <3>1. token' \in [Request -> Token]
      BY <2>2, GuessedType DEF VerifyCode
    <3>2. req' \in [Request -> RequestState]
      <4>1. CASE matches
        <5>1. req' = [req EXCEPT ![r] = [Blank EXCEPT !.pc = "matched", !.target = t]]
          BY <2>2, <4>1 DEF VerifyCode
        <5> QED
          BY <5>1 DEF RequestState, Blank, Pc
      <4>2. CASE ~matches
        BY <2>2, <4>2, FinishType, <1>t DEF VerifyCode
      <4> QED
        BY <4>1, <4>2
    <3> QED
      BY <2>2, <3>1, <3>2 DEF VerifyCode
  <2>3. ASSUME NEW t \in Request, ResendCode(r, t) PROVE TypeOK'
    <3>1. req' \in [Request -> RequestState]
      BY <2>3 DEF ResendCode, RequestState, Blank, Pc
    <3> QED
      BY <2>3, <3>1 DEF ResendCode
  <2>4. CASE RequestReset(r)
    <3>1. req' \in [Request -> RequestState]
      BY <2>4 DEF RequestReset, RequestState, Blank, Pc
    <3> QED
      BY <2>4, <3>1 DEF RequestReset
  <2>5. ASSUME NEW t \in Request, NEW p \in Password, PeekLink(r, t, p) PROVE TypeOK'
    <3>1. req' \in [Request -> RequestState]
      BY <2>5 DEF PeekLink, RequestState, Blank, Pc
    <3> QED
      BY <2>5, <3>1 DEF PeekLink
  <2>6. ASSUME NEW p \in Password, NEW new \in Password, ChangeRequest(r, p, new) PROVE TypeOK'
    <3>1. cred.hash \in Hash \cup {NoHash}
      BY DEF Credential
    <3>2. req' \in [Request -> RequestState]
      BY <2>6, <3>1 DEF ChangeRequest, RequestState, Blank, Pc
    <3> QED
      BY <2>6, <3>2 DEF ChangeRequest
  <2>7. ASSUME NEW s \in Request, Logout(r, s) PROVE TypeOK'
    <3>1. session' \in [Request -> Session]
      BY <2>7 DEF Logout, Session
    <3> QED
      BY <2>7, <3>1, FinishType, <1>t DEF Logout
  <2>8. CASE LogoutAll(r)
    BY <2>8, RevokeType, FinishType, <1>t DEF LogoutAll
  <2> QED
    BY <1>1, <2>1, <2>2, <2>3, <2>4, <2>5, <2>6, <2>7, <2>8 DEF Begin
<1>2. ASSUME NEW r \in Request, Proceed(r) PROVE TypeOK'
  <2>r. req[r].pw \in Password \cup {NoPassword} /\ req[r].target \in Request \cup {NoRequest}
        /\ req[r].hash \in Hash \cup {NoHash}
    BY DEF RequestState
  <2>p. req[r].pc \in {"upgrade", "peeked", "commit_change"} => req[r].pw \in Password
    BY DEF RequestsCoherent, Coherent, PasswordHeld
  <2>h. req[r].pw \in Password =>
          NewHash(req[r].pw) \in Hash /\ SessionFor(req[r].pw, NoRequest) \in Session
    BY NewHashType, SessionForType
  <2>c. \A h \in Hash : [hash |-> h, failed |-> 0, lock |-> "none"] \in Credential
    BY DEF Credential
  <2>1. CASE ClearElapsedLock(r)
    BY <2>1, CredentialType, GotoType, <1>t DEF ClearElapsedLock
  <2>2. CASE LoginFails(r)
    BY <2>2, CredentialType, FinishType, <1>t DEF LoginFails
  <2>3. CASE LoginVerified(r)
    BY <2>3, GotoType, <1>t DEF LoginVerified
  <2>4. CASE LoginRevalidated(r)
    BY <2>4, RevalidatedType DEF LoginRevalidated
  <2>5. CASE LoginStale(r)
    BY <2>5, FinishType, <1>t DEF LoginStale
  <2>6. CASE LoginCommit(r)
    <3>1. cred' \in Credential
      BY <2>6, CredentialType DEF LoginCommit
    <3>2. session' \in [Request -> Session] /\ token' \in [Request -> Token]
      <4>1. SessionFor(req[r].pw, NoRequest) \in Session
        BY <2>r, SessionForType
      <4>2. Issued(r, "login_code", req[r].seen) \in [Request -> Token]
        BY IssuedType
      <4> QED
        BY <2>6, <4>1, <4>2 DEF LoginCommit
    <3>3. req' \in [Request -> RequestState]
      BY <2>6, FinishType, GotoType, <1>t DEF LoginCommit
    <3> QED
      BY <2>6, <3>1, <3>2, <3>3 DEF LoginCommit
  <2>7. CASE UpgradeHash(r)
    <3>1. cred' \in Credential
      BY <2>7, <2>p, <2>h DEF UpgradeHash, Credential
    <3> QED
      BY <2>7, <3>1, FinishType, <1>t DEF UpgradeHash
  <2>8. CASE CodeSession(r)
    <3>1. SessionFor(NoPassword, req[r].target) \in Session
      BY <2>r, SessionForType
    <3> QED
      BY <2>8, <3>1, FinishType, <1>t DEF CodeSession
  <2>9. CASE ResendCommit(r)
    BY <2>9, IssuedType, FinishType, <1>t DEF ResendCommit
  <2>10. CASE ResetLinkCommit(r)
    BY <2>10, IssuedType, FinishType, <1>t DEF ResetLinkCommit
  <2>11. CASE ConfirmReset(r)
    <3>1. cred' \in Credential
      BY <2>11, <2>p, <2>h, <2>c DEF ConfirmReset
    <3>2. token' \in [Request -> Token]
      BY <2>11 DEF ConfirmReset, Token
    <3>3. req' \in [Request -> RequestState]
      BY <2>11, GotoType, <1>t DEF ConfirmReset, Goto
    <3> QED
      BY <2>11, <3>1, <3>2, <3>3, RevokeType DEF ConfirmReset
  <2>12. CASE ResetLinkGone(r)
    BY <2>12, FinishType, <1>t DEF ResetLinkGone
  <2>13. CASE ChangeRevalidated(r)
    BY <2>13, GotoType, <1>t DEF ChangeRevalidated
  <2>14. CASE ChangeConflict(r)
    BY <2>14, FinishType, <1>t DEF ChangeConflict
  <2>15. CASE ChangeCommit(r)
    <3>1. cred' \in Credential
      BY <2>15, <2>p, <2>h, <2>c DEF ChangeCommit
    <3>2. session' \in [Request -> Session]
      BY <2>15, <2>p, <2>h, RevokeType DEF ChangeCommit
    <3>3. req' \in [Request -> RequestState]
      BY <2>15, GotoType, FinishType, <1>t DEF ChangeCommit
    <3> QED
      BY <2>15, <3>1, <3>2, <3>3 DEF ChangeCommit
  <2>16. CASE ResendIssue(r) \/ ResetLinkIssue(r)
    <3>1. req' \in [Request -> RequestState]
      BY <2>16, IssueSeesType DEF ResendIssue, ResetLinkIssue, Pc
    <3> QED
      BY <2>16, <3>1 DEF ResendIssue, ResetLinkIssue, IssueSees
  <2> QED
    BY <1>2, <2>1, <2>2, <2>3, <2>4, <2>5, <2>6, <2>7, <2>8, <2>9, <2>10, <2>11, <2>12, <2>13,
       <2>14, <2>15, <2>16 DEF Proceed
<1>3. ASSUME NEW r \in Request, Abandon(r) PROVE TypeOK'
  BY <1>3, FinishType, <1>t DEF Abandon
<1>4. CASE Environment
  <2>1. ASSUME NEW s \in {"active", "suspended"}, SupportSetsStatus(s) PROVE TypeOK'
    BY <2>1 DEF SupportSetsStatus
  <2>2. CASE LockElapses
    BY <2>2 DEF LockElapses, Credential
  <2>3. ASSUME NEW t \in Request, TokenExpires(t) PROVE TypeOK'
    BY <2>3 DEF TokenExpires, Token
  <2>4. ASSUME NEW s \in Request, SessionExpires(s) PROVE TypeOK'
    BY <2>4 DEF SessionExpires, Session
  <2> QED
    BY <1>4, <2>1, <2>2, <2>3, <2>4 DEF Environment
<1>5. CASE UNCHANGED vars
  BY <1>5 DEF vars
<1> QED
  BY <1>1, <1>2, <1>3, <1>4, <1>5 DEF Next

-------------------------------------------------------------------------------
(* What a step of request r does to everything that is not its own: other    *)
(* requests are left alone; sessions keep what opened them, and tokens and   *)
(* sessions do not appear from nothing; the hash changes only to a new one.  *)
Effect(r) ==
  /\ \A q \in Request \ {r} :
       /\ req'[q] = req[q]
       /\ session'[q].code = session[q].code /\ session'[q].pw = session[q].pw
       /\ session[q] = NoSession => session'[q] = NoSession
       /\ session'[q].state = "live" => session[q].state = "live"
       /\ token[q].state # "none" => token'[q].state # "none"
       /\ token[q].state # "open" => token'[q].state # "open"
       /\ token[q] = NoToken => token'[q] = NoToken
  /\ \/ cred'.hash = cred.hash /\ hashes' \in {hashes, hashes + 1}
     \/ cred'.hash.salt = hashes /\ hashes' = hashes + 1

(* Every step of a request is like that, and the token of the request itself *)
(* does not vanish.                                                          *)
LEMMA RequestEffect ==
  ASSUME TypeOK, NEW r \in Request, Begin(r) \/ Proceed(r) \/ Abandon(r)
  PROVE  Effect(r) /\ (token[r].state # "none" => token'[r].state # "none")
<1> USE DEF TypeOK
<1>t. {"done", "verify", "revalidate", "upgrade", "commit_change", "changed", "reset"} \subseteq Pc
  BY DEF Pc
<1>f. ASSUME NEW how \in Pc, Finish(r, how) \/ Goto(r, how)
      PROVE  \A q \in Request \ {r} : req'[q] = req[q]
  BY <1>f, FinishType, GotoType
<1>i. ASSUME NEW purpose \in {"login_code", "password_reset"}, NEW seen,
             token' = Issued(r, purpose, seen)
      PROVE  /\ \A t \in Request \ {r} :
                  /\ token[t].state # "none" => token'[t].state # "none"
                  /\ token[t].state # "open" => token'[t].state # "open"
                  /\ token[t] = NoToken => token'[t] = NoToken
             /\ token'[r].state # "none"
  BY <1>i DEF Issued, Token, NoToken
<1>1. CASE Begin(r)
  <2>1. ASSUME NEW p \in Password, NEW remembered \in BOOLEAN, LoginPrecheck(r, p, remembered)
        PROVE  Effect(r) /\ UNCHANGED token
    BY <2>1 DEF LoginPrecheck, Effect
  <2>2. ASSUME NEW t \in Request, NEW matches \in BOOLEAN, VerifyCode(r, t, matches)
        PROVE  Effect(r) /\ (token[r].state # "none" => token'[r].state # "none")
    <3>1. \A q \in Request \ {r} : req'[q] = req[q]
      BY <2>2, <1>f, <1>t DEF VerifyCode
    <3>2. token[t].state = "open"
      BY <2>2 DEF VerifyCode, OpenTokens
    <3>3. token'[t].state \in {"consumed", "open"} /\ \A u \in Request \ {t} : token'[u] = token[u]
      BY <2>2, <3>2, GuessedType DEF VerifyCode
    <3> QED
      BY <2>2, <3>1, <3>2, <3>3 DEF VerifyCode, Effect, NoToken
  <2>3. ASSUME NEW t \in Request, ResendCode(r, t) PROVE Effect(r) /\ UNCHANGED token
    BY <2>3 DEF ResendCode, Effect
  <2>4. CASE RequestReset(r)
    BY <2>4 DEF RequestReset, Effect
  <2>5. ASSUME NEW t \in Request, NEW p \in Password, PeekLink(r, t, p)
        PROVE  Effect(r) /\ UNCHANGED token
    BY <2>5 DEF PeekLink, Effect
  <2>6. ASSUME NEW p \in Password, NEW new \in Password, ChangeRequest(r, p, new)
        PROVE  Effect(r) /\ UNCHANGED token
    BY <2>6 DEF ChangeRequest, Effect
  <2>7. ASSUME NEW s \in Request, Logout(r, s) PROVE Effect(r) /\ UNCHANGED token
    BY <2>7, <1>f, <1>t DEF Logout, find_live, Effect, Session, NoSession
  <2>8. CASE LogoutAll(r)
    BY <2>8, <1>f, <1>t, RevokeType DEF LogoutAll, Effect, NoSession
  <2> QED
    BY <1>1, <2>1, <2>2, <2>3, <2>4, <2>5, <2>6, <2>7, <2>8 DEF Begin, RequestReset, LogoutAll
<1>2. CASE Proceed(r)
  <2>1. CASE ClearElapsedLock(r)
    BY <2>1, <1>f, <1>t, CredentialType DEF ClearElapsedLock, Effect
  <2>2. CASE LoginFails(r)
    BY <2>2, <1>f, <1>t, CredentialType DEF LoginFails, Effect
  <2>3. CASE LoginVerified(r)
    BY <2>3, <1>f, <1>t DEF LoginVerified, Effect
  <2>4. CASE LoginRevalidated(r)
    BY <2>4, RevalidatedType DEF LoginRevalidated, Effect
  <2>5. CASE LoginStale(r)
    BY <2>5, <1>f, <1>t DEF LoginStale, Effect
  <2>6. CASE LoginCommit(r)
    <3>1. \A q \in Request \ {r} : req'[q] = req[q]
      BY <2>6, <1>f, <1>t DEF LoginCommit
    <3>2. cred'.hash = cred.hash
      BY <2>6, CredentialType DEF LoginCommit
    <3>3. CASE req[r].remembered
      BY <2>6, <3>1, <3>2, <3>3 DEF LoginCommit, Effect
    <3>4. CASE ~req[r].remembered
      BY <2>6, <3>1, <3>2, <3>4, <1>i DEF LoginCommit, Effect
    <3> QED
      BY <3>3, <3>4
  <2>7. CASE UpgradeHash(r)
    BY <2>7, <1>f, <1>t DEF UpgradeHash, Effect, NewHash, Credential
  <2>8. CASE CodeSession(r)
    BY <2>8, <1>f, <1>t DEF CodeSession, Effect
  <2>9. CASE ResendCommit(r)
    BY <2>9, <1>f, <1>t, <1>i DEF ResendCommit, Effect
  <2>10. CASE ResetLinkCommit(r)
    BY <2>10, <1>f, <1>t, <1>i DEF ResetLinkCommit, Effect
  <2>11. CASE ConfirmReset(r)
    BY <2>11, RevokeType DEF ConfirmReset, Effect, NewHash, Token, NoToken, NoSession
  <2>12. CASE ResetLinkGone(r)
    BY <2>12, <1>f, <1>t DEF ResetLinkGone, Effect
  <2>13. CASE ChangeRevalidated(r)
    BY <2>13, <1>f, <1>t DEF ChangeRevalidated, Effect
  <2>14. CASE ChangeConflict(r)
    BY <2>14, <1>f, <1>t DEF ChangeConflict, Effect
  <2>15. CASE ChangeCommit(r)
    <3>1. \A q \in Request \ {r} : req'[q] = req[q]
      BY <2>15, <1>f, <1>t DEF ChangeCommit
    <3>2. CASE cred.hash = req[r].hash
      <4>1. \A q \in Request \ {r} : session'[q] = revoke_all(session)[q]
        BY <2>15, <3>2, RevokeType DEF ChangeCommit
      <4>2. \A q \in Request \ {r} :
              /\ session'[q].code = session[q].code /\ session'[q].pw = session[q].pw
              /\ session[q] = NoSession => session'[q] = NoSession
              /\ session'[q].state # "live"
        BY <4>1, RevokeType DEF NoSession
      <4> QED
        BY <2>15, <3>1, <3>2, <4>2 DEF ChangeCommit, Effect, NewHash
    <3>3. CASE cred.hash # req[r].hash
      BY <2>15, <3>1, <3>3 DEF ChangeCommit, Effect
    <3> QED
      BY <3>2, <3>3
  <2>16. CASE ResendIssue(r) \/ ResetLinkIssue(r)
    BY <2>16, IssueSeesType DEF ResendIssue, ResetLinkIssue, IssueSees, Effect
  <2> QED
    BY <1>2, <2>1, <2>2, <2>3, <2>4, <2>5, <2>6, <2>7, <2>8, <2>9, <2>10, <2>11, <2>12, <2>13,
       <2>14, <2>15, <2>16 DEF Proceed
<1>3. CASE Abandon(r)
  BY <1>3, <1>f, <1>t DEF Abandon, Effect
<1> QED
  BY <1>1, <1>2, <1>3

(* What happens around the requests disturbs even less.                      *)
LEMMA EnvironmentEffect ==
  ASSUME TypeOK, Environment
  PROVE  /\ UNCHANGED <<req, pwLock, hashes>> /\ cred'.hash = cred.hash
         /\ \A q \in Request :
              /\ session'[q].code = session[q].code /\ session'[q].pw = session[q].pw
              /\ session[q] = NoSession => session'[q] = NoSession
              /\ session'[q].state = "live" => session[q].state = "live"
              /\ token[q].state # "none" => token'[q].state # "none"
              /\ token[q].state # "open" => token'[q].state # "open"
              /\ token[q] = NoToken => token'[q] = NoToken
              /\ token'[q].attempts = token[q].attempts
<1> USE DEF TypeOK
<1>1. ASSUME NEW s \in {"active", "suspended"}, SupportSetsStatus(s)
      PROVE  UNCHANGED <<req, pwLock, hashes, cred, session, token>>
  BY <1>1 DEF SupportSetsStatus
<1>2. CASE LockElapses
  BY <1>2 DEF LockElapses, Credential
<1>3. ASSUME NEW t \in Request, TokenExpires(t)
      PROVE  /\ UNCHANGED <<req, pwLock, hashes, cred, session>>
             /\ \A q \in Request \ {t} : token'[q] = token[q]
             /\ token[t].state = "open" /\ token'[t].state = "expired"
             /\ token'[t].attempts = token[t].attempts
  BY <1>3 DEF TokenExpires, Token
<1>4. ASSUME NEW s \in Request, SessionExpires(s)
      PROVE  /\ UNCHANGED <<req, pwLock, hashes, cred, token>>
             /\ \A q \in Request \ {s} : session'[q] = session[q]
             /\ session[s].state = "live" /\ session'[s].state = "expired"
             /\ session'[s].code = session[s].code /\ session'[s].pw = session[s].pw
  BY <1>4 DEF SessionExpires, Session
<1> QED
  BY <1>1, <1>2, <1>3, <1>4 DEF Environment, NoSession, NoToken

(* A stored or remembered hash has a natural number for its salt.            *)
LEMMA SaltType ==
  ASSUME TypeOK
  PROVE  cred.hash.salt \in Nat /\ \A q \in Request : req[q].hash.salt \in Nat
<1>1. \A h \in Hash \cup {NoHash} : h.salt \in Nat
  BY DEF Hash, NoHash
<1> QED
  BY <1>1 DEF TypeOK, Credential, RequestState

(* A step of one request leaves every other request coherent: its tokens and *)
(* hashes stay accounted for.                                                *)
LEMMA OthersCoherent ==
  ASSUME TypeOK, RequestsCoherent, NEW r \in Request, Begin(r) \/ Proceed(r) \/ Abandon(r),
         NEW q \in Request \ {r}
  PROVE  Coherent(q)'
<1>1. Effect(r) /\ \A t \in Request : token[t].state # "none" => token'[t].state # "none"
  BY RequestEffect DEF Effect
<1>2. Coherent(q) /\ req'[q] = req[q] /\ session'[q].code = session[q].code
  BY <1>1 DEF RequestsCoherent, Effect
<1>3. PasswordHeld(q)' /\ PasswordVerified(q)'
  BY <1>2 DEF Coherent, PasswordHeld, PasswordVerified
<1>4. TargetIssued(q)'
  BY <1>1, <1>2 DEF Coherent, TargetIssued
<1>5. NothingMadeYet(q)'
  BY <1>1, <1>2 DEF Coherent, NothingMadeYet, Effect
<1>6. FreshSalts(q)'
  BY <1>1, <1>2, SaltType DEF Coherent, FreshSalts, Effect, TypeOK
<1> QED
  BY <1>3, <1>4, <1>5, <1>6 DEF Coherent

(* A step leaves the request that takes it coherent.                         *)
LEMMA OwnCoherent ==
  ASSUME TypeOK, RequestsCoherent, NEW r \in Request, Begin(r) \/ Proceed(r) \/ Abandon(r)
  PROVE  Coherent(r)'
<1> USE DEF TypeOK
<1>t. {"done", "verify", "revalidate", "upgrade", "commit_change", "changed", "reset"} \subseteq Pc
  BY DEF Pc
<1>c. Coherent(r) /\ PasswordHeld(r) /\ PasswordVerified(r) /\ TargetIssued(r)
      /\ NothingMadeYet(r) /\ FreshSalts(r)
  BY DEF RequestsCoherent, Coherent
<1>m. \A t \in Request : token[t].state # "none" => token'[t].state # "none"
  BY RequestEffect DEF Effect
<1>s. cred'.hash.salt < hashes' /\ req[r].hash.salt < hashes' /\ hashes' \in Nat /\ 0 < hashes'
  BY <1>c, RequestEffect, SaltType DEF FreshSalts, Effect
<1>d. ASSUME Finish(r, "done"), session'[r].code \in {session[r].code, NoRequest}
      PROVE  Coherent(r)'
  <2>1. req'[r].pc = "done" /\ req'[r].hash = NoHash
    BY <1>d, <1>t, FinishType
  <2>2. PasswordHeld(r)' /\ PasswordVerified(r)' /\ NothingMadeYet(r)'
    BY <2>1 DEF PasswordHeld, PasswordVerified, NothingMadeYet
  <2>3. TargetIssued(r)'
    BY <1>d, <1>c, <1>m, <2>1, RequestAssumption DEF TargetIssued
  <2>4. FreshSalts(r)'
    BY <2>1, <1>s DEF FreshSalts, NoHash
  <2> QED
    BY <2>2, <2>3, <2>4 DEF Coherent
<1>b. ASSUME req[r].pc \in {"idle", "resend", "reset_link"}, UNCHANGED <<session, token>>,
             NEW b \in RequestState, req' = [req EXCEPT ![r] = b],
             b.pc \in {"clear", "verify", "change", "peeked", "resend", "commit_resend", "reset_link",
                      "commit_reset_link"},
             b.pc \in {"clear", "verify", "change", "peeked"} => b.pw \in Password,
             b.pc = "peeked" => b.target \in Request /\ token[b.target].state = "open",
             b.hash.salt < hashes'
      PROVE  Coherent(r)'
  <2>1. req'[r] = b
    BY <1>b
  <2>2. PasswordHeld(r)' /\ PasswordVerified(r)'
    BY <1>b, <2>1 DEF PasswordHeld, PasswordVerified
  <2>3. TargetIssued(r)'
    BY <1>b, <1>c, <1>m, <2>1 DEF TargetIssued
  <2>4. NothingMadeYet(r)'
    BY <1>b, <1>c, <2>1 DEF NothingMadeYet
  <2>5. FreshSalts(r)'
    BY <1>b, <1>s, <2>1 DEF FreshSalts
  <2> QED
    BY <2>2, <2>3, <2>4, <2>5 DEF Coherent
<1>h. cred.hash \in Hash \cup {NoHash} /\ cred.hash.salt < hashes'
      /\ NoHash.salt < hashes' /\ NoHash \in Hash \cup {NoHash}
  BY <1>c, <1>s, RequestEffect, SaltType DEF Credential, NoHash, FreshSalts, Effect
<1>1. CASE Begin(r)
  <2>1. ASSUME NEW p \in Password, NEW remembered \in BOOLEAN, LoginPrecheck(r, p, remembered)
        PROVE  Coherent(r)'
    <3> DEFINE b == [Blank EXCEPT !.pc = IF cred.lock = "elapsed" THEN "clear" ELSE "verify",
                                  !.pw = p, !.hash = cred.hash, !.remembered = remembered]
    <3>1. b \in RequestState /\ b.pc \in {"clear", "verify"} /\ b.pw = p /\ b.hash = cred.hash
      BY <1>h DEF RequestState, Blank, Pc
    <3>2. req[r].pc = "idle" /\ UNCHANGED <<session, token>> /\ req' = [req EXCEPT ![r] = b]
      BY <2>1 DEF LoginPrecheck
    <3> HIDE DEF b
    <3> QED
      BY <3>1, <3>2, <1>b, <1>h
  <2>2. ASSUME NEW t \in Request, NEW matches \in BOOLEAN, VerifyCode(r, t, matches)
        PROVE  Coherent(r)'
    <3>1. CASE ~matches
      BY <2>2, <3>1, <1>d DEF VerifyCode
    <3>2. CASE matches
      <4>1. req' = [req EXCEPT ![r] = [Blank EXCEPT !.pc = "matched", !.target = t]]
        BY <2>2, <3>2 DEF VerifyCode
      <4>2. req'[r].pc = "matched" /\ req'[r].target = t /\ req'[r].hash = NoHash
        BY <4>1 DEF Blank
      <4>3. token[t].state = "open" /\ req[r].pc = "idle" /\ token[r] = NoToken /\ UNCHANGED session
        BY <2>2, <1>c DEF VerifyCode, OpenTokens, NothingMadeYet
      <4>4. t # r /\ token' = Guessed(t, matches)
        BY <2>2, <4>3 DEF NoToken, VerifyCode
      <4>5. token'[r] = NoToken
        BY <4>3, <4>4, GuessedType
      <4>6. NothingMadeYet(r)' /\ PasswordHeld(r)' /\ PasswordVerified(r)'
        BY <1>c, <4>2, <4>3, <4>5 DEF NothingMadeYet, PasswordHeld, PasswordVerified
      <4>7. TargetIssued(r)'
        BY <1>c, <1>m, <4>2, <4>3 DEF TargetIssued
      <4>8. FreshSalts(r)'
        BY <1>s, <1>h, <4>2 DEF FreshSalts
      <4> QED
        BY <4>6, <4>7, <4>8 DEF Coherent
    <3> QED
      BY <3>1, <3>2
  <2>3. ASSUME NEW t \in Request, ResendCode(r, t) PROVE Coherent(r)'
    <3> DEFINE b == [Blank EXCEPT !.pc = "resend"]
    <3>1. b \in RequestState /\ b.pc = "resend" /\ b.hash = NoHash
      BY <1>h DEF RequestState, Blank, Pc
    <3>2. req[r].pc = "idle" /\ UNCHANGED <<session, token>> /\ req' = [req EXCEPT ![r] = b]
      BY <2>3 DEF ResendCode
    <3> HIDE DEF b
    <3> QED
      BY <3>1, <3>2, <1>b, <1>h
  <2>4. CASE RequestReset(r)
    <3> DEFINE b == [Blank EXCEPT !.pc = "reset_link"]
    <3>1. b \in RequestState /\ b.pc = "reset_link" /\ b.hash = NoHash
      BY <1>h DEF RequestState, Blank, Pc
    <3>2. req[r].pc = "idle" /\ UNCHANGED <<session, token>> /\ req' = [req EXCEPT ![r] = b]
      BY <2>4 DEF RequestReset
    <3> HIDE DEF b
    <3> QED
      BY <3>1, <3>2, <1>b, <1>h
  <2>5. ASSUME NEW t \in Request, NEW p \in Password, PeekLink(r, t, p) PROVE Coherent(r)'
    <3> DEFINE b == [Blank EXCEPT !.pc = "peeked", !.pw = p, !.target = t]
    <3>1. b \in RequestState /\ b.pc = "peeked" /\ b.pw = p /\ b.target = t /\ b.hash = NoHash
      BY <1>h DEF RequestState, Blank, Pc
    <3>2. req[r].pc = "idle" /\ UNCHANGED <<session, token>> /\ req' = [req EXCEPT ![r] = b]
          /\ token[t].state = "open"
      BY <2>5 DEF PeekLink, OpenTokens
    <3> HIDE DEF b
    <3> QED
      BY <3>1, <3>2, <1>b, <1>h
  <2>6. ASSUME NEW p \in Password, NEW new \in Password, ChangeRequest(r, p, new)
        PROVE  Coherent(r)'
    <3> DEFINE b == [Blank EXCEPT !.pc = "change", !.pw = new, !.hash = cred.hash]
    <3>1. b \in RequestState /\ b.pc = "change" /\ b.pw = new /\ b.hash = cred.hash
      BY <1>h DEF RequestState, Blank, Pc
    <3>2. req[r].pc = "idle" /\ UNCHANGED <<session, token>> /\ req' = [req EXCEPT ![r] = b]
      BY <2>6 DEF ChangeRequest
    <3> HIDE DEF b
    <3> QED
      BY <3>1, <3>2, <1>b, <1>h
  <2>7. ASSUME NEW s \in Request, Logout(r, s) PROVE Coherent(r)'
    <3>1. session'[r].code = session[r].code
      BY <2>7 DEF Logout, Session
    <3> QED
      BY <2>7, <3>1, <1>d DEF Logout
  <2>8. CASE LogoutAll(r)
    BY <2>8, <1>d, RevokeType DEF LogoutAll
  <2> QED
    BY <1>1, <2>1, <2>2, <2>3, <2>4, <2>5, <2>6, <2>7, <2>8 DEF Begin
<1>g. ASSUME NEW where \in {"verify", "revalidate", "commit_change"}, Goto(r, where),
             req[r].pc \in {"clear", "verify", "change"}, UNCHANGED <<session, token>>,
             where = "revalidate" => req[r].pw = req[r].hash.pw
      PROVE  Coherent(r)'
  <2>1. req'[r].pc = where /\ req'[r].pw = req[r].pw /\ req'[r].hash = req[r].hash
    BY <1>g, <1>t, GotoType
  <2>2. PasswordHeld(r)' /\ PasswordVerified(r)' /\ NothingMadeYet(r)'
    BY <1>g, <1>c, <2>1 DEF PasswordHeld, PasswordVerified, NothingMadeYet
  <2>3. TargetIssued(r)' /\ FreshSalts(r)'
    BY <1>g, <1>c, <1>s, <2>1 DEF TargetIssued, FreshSalts
  <2> QED
    BY <2>2, <2>3 DEF Coherent
<1>2. CASE Proceed(r)
  <2>1. CASE ClearElapsedLock(r)
    BY <2>1, <1>g DEF ClearElapsedLock
  <2>2. CASE LoginFails(r)
    BY <2>2, <1>d DEF LoginFails
  <2>3. CASE LoginVerified(r)
    BY <2>3, <1>g DEF LoginVerified
  <2>4. CASE LoginRevalidated(r)
    <3>1. req'[r].pc = "commit_login" /\ req'[r].pw = req[r].pw /\ req'[r].hash = req[r].hash
          /\ req[r].pc = "revalidate" /\ UNCHANGED <<session, token>>
      BY <2>4, RevalidatedType DEF LoginRevalidated
    <3>2. PasswordHeld(r)' /\ PasswordVerified(r)' /\ NothingMadeYet(r)'
      BY <1>c, <3>1 DEF PasswordHeld, PasswordVerified, NothingMadeYet
    <3>3. TargetIssued(r)' /\ FreshSalts(r)'
      BY <1>c, <1>s, <3>1 DEF TargetIssued, FreshSalts
    <3> QED
      BY <3>2, <3>3 DEF Coherent
  <2>5. CASE LoginStale(r)
    BY <2>5, <1>d DEF LoginStale
  <2>6. CASE LoginCommit(r)
    <3>1. session'[r].code \in {session[r].code, NoRequest} /\ req[r].pc = "commit_login"
      BY <2>6 DEF LoginCommit, SessionFor
    <3>2. CASE ~req[r].hash.weak
      BY <2>6, <3>1, <3>2, <1>d DEF LoginCommit
    <3>3. CASE req[r].hash.weak
      <4>1. req'[r].pc = "upgrade" /\ req'[r].pw = req[r].pw /\ req'[r].hash = req[r].hash
        BY <2>6, <3>3, <1>t, GotoType DEF LoginCommit
      <4>2. PasswordHeld(r)' /\ PasswordVerified(r)' /\ NothingMadeYet(r)'
        BY <1>c, <3>1, <4>1 DEF PasswordHeld, PasswordVerified, NothingMadeYet
      <4>3. TargetIssued(r)' /\ FreshSalts(r)'
        BY <1>c, <1>s, <1>m, <3>1, <4>1, RequestAssumption DEF TargetIssued, FreshSalts
      <4> QED
        BY <4>2, <4>3 DEF Coherent
    <3> QED
      BY <3>2, <3>3
  <2>7. CASE UpgradeHash(r)
    BY <2>7, <1>d DEF UpgradeHash
  <2>8. CASE CodeSession(r)
    <3>1. req'[r].pc = "done" /\ req'[r].hash = NoHash /\ UNCHANGED token /\ req[r].pc = "matched"
      BY <2>8, <1>t, FinishType DEF CodeSession
    <3>2. session'[r].code \in {session[r].code, req[r].target}
      BY <2>8 DEF CodeSession, SessionFor
    <3>3. PasswordHeld(r)' /\ PasswordVerified(r)' /\ NothingMadeYet(r)'
      BY <3>1 DEF PasswordHeld, PasswordVerified, NothingMadeYet
    <3>4. TargetIssued(r)' /\ FreshSalts(r)'
      BY <1>c, <1>s, <1>h, <3>1, <3>2 DEF TargetIssued, FreshSalts
    <3> QED
      BY <3>3, <3>4 DEF Coherent
  <2>9. CASE ResendCommit(r)
    BY <2>9, <1>d DEF ResendCommit
  <2>10. CASE ResetLinkCommit(r)
    BY <2>10, <1>d DEF ResetLinkCommit
  <2>11. CASE ConfirmReset(r)
    <3>1. req'[r].pc = "reset" /\ req'[r].hash = req[r].hash /\ req'[r].target = req[r].target
          /\ req[r].pc = "peeked" /\ session'[r].code = session[r].code
      BY <2>11, <1>t, GotoType, RevokeType DEF ConfirmReset, Goto
    <3>2. PasswordHeld(r)' /\ PasswordVerified(r)' /\ NothingMadeYet(r)'
      BY <3>1 DEF PasswordHeld, PasswordVerified, NothingMadeYet
    <3>3. TargetIssued(r)' /\ FreshSalts(r)'
      BY <1>c, <1>s, <1>m, <3>1 DEF TargetIssued, FreshSalts
    <3> QED
      BY <3>2, <3>3 DEF Coherent
  <2>12. CASE ResetLinkGone(r)
    BY <2>12, <1>d DEF ResetLinkGone
  <2>13. CASE ChangeRevalidated(r)
    BY <2>13, <1>g DEF ChangeRevalidated
  <2>14. CASE ChangeConflict(r)
    BY <2>14, <1>d DEF ChangeConflict
  <2>15. CASE ChangeCommit(r)
    <3>1. CASE cred.hash # req[r].hash
      BY <2>15, <3>1, <1>d DEF ChangeCommit
    <3>2. CASE cred.hash = req[r].hash
      <4>1. req'[r].pc = "changed" /\ req'[r].hash = req[r].hash
        BY <2>15, <3>2, <1>t, GotoType DEF ChangeCommit
      <4>2. session'[r].code = NoRequest /\ cred'.hash.salt = hashes
        BY <2>15, <3>2, RevokeType DEF ChangeCommit, SessionFor, NewHash
      <4>3. PasswordHeld(r)' /\ PasswordVerified(r)' /\ NothingMadeYet(r)'
        BY <4>1 DEF PasswordHeld, PasswordVerified, NothingMadeYet
      <4>4. TargetIssued(r)'
        BY <4>1, <4>2, RequestAssumption DEF TargetIssued
      <4>5. FreshSalts(r)'
        BY <1>c, <1>s, <4>1, <4>2, SaltType DEF FreshSalts
      <4> QED
        BY <4>3, <4>4, <4>5 DEF Coherent
    <3> QED
      BY <3>1, <3>2
  <2>16. CASE ResendIssue(r) \/ ResetLinkIssue(r)
    <3>1. /\ req'[r] \in RequestState /\ req'[r].pc \in {"commit_resend", "commit_reset_link"}
          /\ req'[r].hash = NoHash /\ req' = [req EXCEPT ![r] = req'[r]]
      BY <2>16, IssueSeesType DEF ResendIssue, ResetLinkIssue, Pc
    <3>2. req[r].pc \in {"resend", "reset_link"} /\ UNCHANGED <<session, token>>
      BY <2>16 DEF ResendIssue, ResetLinkIssue, IssueSees
    <3> QED
      BY <3>1, <3>2, <1>b, <1>h
  <2> QED
    BY <1>2, <2>1, <2>2, <2>3, <2>4, <2>5, <2>6, <2>7, <2>8, <2>9, <2>10, <2>11, <2>12, <2>13,
       <2>14, <2>15, <2>16 DEF Proceed
<1>3. CASE Abandon(r)
  BY <1>3, <1>d DEF Abandon
<1> QED
  BY <1>1, <1>2, <1>3

(* So every step keeps every request coherent.                               *)
LEMMA StepCoherent == TypeOK /\ RequestsCoherent /\ [Next]_vars => RequestsCoherent'
<1> SUFFICES ASSUME TypeOK, RequestsCoherent, [Next]_vars PROVE RequestsCoherent'
  OBVIOUS
<1>1. ASSUME NEW r \in Request, Begin(r) \/ Proceed(r) \/ Abandon(r) PROVE RequestsCoherent'
  BY <1>1, OwnCoherent, OthersCoherent DEF RequestsCoherent
<1>2. CASE Environment
  <2> SUFFICES ASSUME NEW q \in Request PROVE Coherent(q)'
    BY DEF RequestsCoherent
  <2>1. Coherent(q)
    BY DEF RequestsCoherent
  <2>2. PasswordHeld(q)' /\ PasswordVerified(q)'
    BY <1>2, <2>1, EnvironmentEffect DEF Coherent, PasswordHeld, PasswordVerified
  <2>3. TargetIssued(q)'
    BY <1>2, <2>1, EnvironmentEffect DEF Coherent, TargetIssued
  <2>4. NothingMadeYet(q)' /\ FreshSalts(q)'
    BY <1>2, <2>1, EnvironmentEffect DEF Coherent, NothingMadeYet, FreshSalts
  <2> QED
    BY <2>2, <2>3, <2>4 DEF Coherent
<1>3. CASE UNCHANGED vars
  BY <1>3 DEF vars, RequestsCoherent, Coherent, PasswordHeld, PasswordVerified, TargetIssued,
              NothingMadeYet, FreshSalts
<1> QED
  BY <1>1, <1>2, <1>3 DEF Next

(* Init leaves every request coherent: none has begun.                       *)
LEMMA InitCoherent == Init => RequestsCoherent
<1> SUFFICES ASSUME Init, NEW r \in Request PROVE Coherent(r)
  BY DEF RequestsCoherent
<1>1. req[r].pc \in {"idle", "done"} /\ req[r].hash = NoHash /\ session[r].code = NoRequest
  BY DEF Init, Blank, NoSession
<1>2. PasswordHeld(r) /\ PasswordVerified(r)
  BY <1>1 DEF PasswordHeld, PasswordVerified
<1>3. TargetIssued(r)
  BY <1>1, RequestAssumption DEF TargetIssued
<1>4. NothingMadeYet(r)
  BY DEF Init, NothingMadeYet, Blank
<1>5. FreshSalts(r)
  BY <1>1 DEF Init, FreshSalts, NoHash
<1> QED
  BY <1>2, <1>3, <1>4, <1>5 DEF Coherent

-------------------------------------------------------------------------------
(* Which step takes a request where the invariants look, and which steps     *)
(* give it a session.                                                        *)
Arrival(r) ==
  /\ req'[r].pc \in {"commit_login", "commit_change"} =>
       LoginRevalidated(r) \/ ChangeRevalidated(r)
  /\ req'[r].pc = "changed" => ChangeCommit(r) /\ cred.hash = req[r].hash
  /\ req'[r].pc = "matched" => \E t \in Request : VerifyCode(r, t, TRUE) /\ req'[r].target = t
  /\ req'[r].pc = "reset" => ConfirmReset(r)
  /\ session'[r].code \notin {session[r].code, NoRequest} => CodeSession(r)

(* Every step of a request arrives only as Arrival says.                     *)
LEMMA StepArrival ==
  ASSUME TypeOK, NEW r \in Request, Begin(r) \/ Proceed(r) \/ Abandon(r)
  PROVE  Arrival(r)
<1> USE DEF TypeOK
<1>t. {"done", "verify", "revalidate", "upgrade", "commit_change", "changed", "reset"} \subseteq Pc
  BY DEF Pc
<1>d. ASSUME NEW how \in {"done", "verify", "revalidate", "upgrade"}, Finish(r, how) \/ Goto(r, how),
             session'[r].code \in {session[r].code, NoRequest} \/ CodeSession(r)
      PROVE  Arrival(r)
  <2>1. req'[r].pc = how
    BY <1>d, <1>t, FinishType, GotoType
  <2> QED
    BY <1>d, <2>1 DEF Arrival
<1>b. ASSUME NEW pc \in {"clear", "verify", "resend", "commit_resend", "reset_link",
                          "commit_reset_link", "peeked", "change"},
             req'[r].pc = pc, UNCHANGED session
      PROVE  Arrival(r)
  BY <1>b DEF Arrival
<1>1. CASE Begin(r)
  <2>1. ASSUME NEW p \in Password, NEW remembered \in BOOLEAN, LoginPrecheck(r, p, remembered)
        PROVE  Arrival(r)
    <3>1. req'[r].pc \in {"clear", "verify"} /\ UNCHANGED session
      BY <2>1 DEF LoginPrecheck, Blank
    <3> QED
      BY <3>1, <1>b
  <2>2. ASSUME NEW t \in Request, NEW matches \in BOOLEAN, VerifyCode(r, t, matches)
        PROVE  Arrival(r)
    <3>1. CASE ~matches
      BY <2>2, <3>1, <1>d DEF VerifyCode
    <3>2. CASE matches
      <4>1. req' = [req EXCEPT ![r] = [Blank EXCEPT !.pc = "matched", !.target = t]]
            /\ UNCHANGED session
        BY <2>2, <3>2 DEF VerifyCode
      <4>2. req'[r].pc = "matched" /\ req'[r].target = t
        BY <4>1 DEF Blank
      <4>3. matches = TRUE
        BY <3>2
      <4>4. VerifyCode(r, t, TRUE)
        BY <2>2, <4>3
      <4> QED
        BY <4>1, <4>2, <4>4 DEF Arrival
    <3> QED
      BY <3>1, <3>2
  <2>3. ASSUME NEW t \in Request, ResendCode(r, t) PROVE Arrival(r)
    <3>1. req'[r].pc = "resend" /\ UNCHANGED session
      BY <2>3 DEF ResendCode, Blank
    <3> QED
      BY <3>1, <1>b
  <2>4. CASE RequestReset(r)
    <3>1. req'[r].pc = "reset_link" /\ UNCHANGED session
      BY <2>4 DEF RequestReset, Blank
    <3> QED
      BY <3>1, <1>b
  <2>5. ASSUME NEW t \in Request, NEW p \in Password, PeekLink(r, t, p) PROVE Arrival(r)
    <3>1. req'[r].pc = "peeked" /\ UNCHANGED session
      BY <2>5 DEF PeekLink, Blank
    <3> QED
      BY <3>1, <1>b
  <2>6. ASSUME NEW p \in Password, NEW new \in Password, ChangeRequest(r, p, new) PROVE Arrival(r)
    <3>1. req'[r].pc = "change" /\ UNCHANGED session
      BY <2>6 DEF ChangeRequest, Blank
    <3> QED
      BY <3>1, <1>b
  <2>7. ASSUME NEW s \in Request, Logout(r, s) PROVE Arrival(r)
    <3>1. session'[r].code = session[r].code
      BY <2>7 DEF Logout, Session
    <3> QED
      BY <2>7, <3>1, <1>d DEF Logout
  <2>8. CASE LogoutAll(r)
    BY <2>8, <1>d, RevokeType DEF LogoutAll
  <2> QED
    BY <1>1, <2>1, <2>2, <2>3, <2>4, <2>5, <2>6, <2>7, <2>8 DEF Begin
<1>2. CASE Proceed(r)
  <2>1. CASE ClearElapsedLock(r) \/ LoginFails(r) \/ LoginVerified(r) \/ LoginStale(r)
    BY <2>1, <1>d DEF ClearElapsedLock, LoginFails, LoginVerified, LoginStale
  <2>2. CASE LoginRevalidated(r) \/ ChangeRevalidated(r)
    <3>1. req'[r].pc \in {"commit_login", "commit_change"} /\ UNCHANGED session
      BY <2>2, <1>t, RevalidatedType, GotoType DEF ChangeRevalidated, LoginRevalidated
    <3> QED
      BY <2>2, <3>1 DEF Arrival
  <2>3. CASE LoginCommit(r)
    <3>1. session'[r].code \in {session[r].code, NoRequest}
      BY <2>3 DEF LoginCommit, SessionFor
    <3> QED
      BY <2>3, <3>1, <1>d DEF LoginCommit
  <2>4. CASE UpgradeHash(r) \/ ResendCommit(r) \/ ResetLinkCommit(r) \/ ResetLinkGone(r) \/ ChangeConflict(r)
    BY <2>4, <1>d DEF UpgradeHash, ResendCommit, ResetLinkCommit, ResetLinkGone, ChangeConflict
  <2>5. CASE CodeSession(r)
    BY <2>5, <1>d DEF CodeSession
  <2>6. CASE ConfirmReset(r)
    <3>1. req'[r].pc = "reset" /\ session'[r].code = session[r].code
      BY <2>6, RevokeType DEF ConfirmReset, RequestState
    <3> QED
      BY <2>6, <3>1 DEF Arrival
  <2>8. CASE ResendIssue(r) \/ ResetLinkIssue(r)
    <3>1. req'[r].pc \in {"commit_resend", "commit_reset_link"}
      BY <2>8, IssueSeesType DEF ResendIssue, ResetLinkIssue, Pc
    <3>2. UNCHANGED session
      BY <2>8 DEF ResendIssue, ResetLinkIssue, IssueSees
    <3> QED
      BY <3>1, <3>2, <1>b
  <2>7. CASE ChangeCommit(r)
    <3>1. CASE cred.hash = req[r].hash
      <4>1. req'[r].pc = "changed" /\ session'[r].code = NoRequest
        BY <2>7, <3>1, <1>t, GotoType, RevokeType DEF ChangeCommit, SessionFor
      <4> QED
        BY <2>7, <3>1, <4>1 DEF Arrival
    <3>2. CASE cred.hash # req[r].hash
      BY <2>7, <3>2, <1>d DEF ChangeCommit
    <3> QED
      BY <3>1, <3>2
  <2> QED
    BY <1>2, <2>1, <2>2, <2>3, <2>4, <2>5, <2>6, <2>7, <2>8 DEF Proceed
<1>3. CASE Abandon(r)
  BY <1>3, <1>d DEF Abandon
<1> QED
  BY <1>1, <1>2, <1>3

(* The credential row: which steps leave it, and what the others do to it.   *)
CredentialStep(r) ==
  \/ cred' = cred
  \/ pwLock = NoRequest /\ cred' = Cleared(cred)
  \/ pwLock = NoRequest /\ cred' = record_failure(cred)
  \/ LoginCommit(r) /\ cred' = Cleared(cred)
  \/ UpgradeHash(r) /\ cred.hash = req[r].hash /\ cred' = [cred EXCEPT !.hash = NewHash(req[r].pw)]
  \/ ConfirmReset(r) /\ cred' = [hash |-> NewHash(req[r].pw), failed |-> 0, lock |-> "none"]
  \/ /\ ChangeCommit(r) /\ cred.hash = req[r].hash
     /\ cred' = [hash |-> NewHash(req[r].pw), failed |-> 0, lock |-> "none"]

(* Every step of a request treats the credential row as CredentialStep says. *)
LEMMA StepCredential ==
  ASSUME NEW r \in Request, Begin(r) \/ Proceed(r) \/ Abandon(r)
  PROVE  CredentialStep(r)
<1>1. CASE Begin(r)
  BY <1>1 DEF Begin, LoginPrecheck, VerifyCode, ResendCode, RequestReset, PeekLink, ChangeRequest,
              Logout, LogoutAll, CredentialStep
<1>2. CASE Proceed(r)
  <2>1. CASE ClearElapsedLock(r) \/ LoginFails(r) \/ LoginVerified(r) \/ LoginStale(r)
    BY <2>1 DEF ClearElapsedLock, LoginFails, LoginVerified, LoginStale, CredentialStep
  <2>2. CASE LoginRevalidated(r) \/ ChangeRevalidated(r) \/ ChangeConflict(r) \/ CodeSession(r)
    BY <2>2 DEF LoginRevalidated, ChangeRevalidated, ChangeConflict, CodeSession, CredentialStep
  <2>3. CASE LoginCommit(r)
    BY <2>3 DEF LoginCommit, CredentialStep
  <2>4. CASE ResendCommit(r) \/ ResetLinkCommit(r) \/ ResetLinkGone(r) \/ ResendIssue(r) \/ ResetLinkIssue(r)
    BY <2>4 DEF ResendCommit, ResetLinkCommit, ResetLinkGone, ResendIssue, ResetLinkIssue, IssueSees,
                CredentialStep
  <2>5. CASE UpgradeHash(r)
    BY <2>5 DEF UpgradeHash, CredentialStep
  <2>6. CASE ConfirmReset(r)
    BY <2>6 DEF ConfirmReset, CredentialStep
  <2>7. CASE ChangeCommit(r)
    BY <2>7 DEF ChangeCommit, CredentialStep
  <2> QED
    BY <1>2, <2>1, <2>2, <2>3, <2>4, <2>5, <2>6, <2>7 DEF Proceed
<1>3. CASE Abandon(r)
  BY <1>3 DEF Abandon, CredentialStep
<1> QED
  BY <1>1, <1>2, <1>3

-------------------------------------------------------------------------------
(* The lock and the failure counter agree after every step.                  *)
LEMMA StepLock == TypeOK /\ LockIffExhausted /\ [Next]_vars => LockIffExhausted'
<1> SUFFICES ASSUME TypeOK, LockIffExhausted, [Next]_vars PROVE LockIffExhausted'
  OBVIOUS
<1> USE DEF TypeOK, LockIffExhausted
<1>c. cred.failed \in Nat /\ cred.lock \in {"none", "running", "elapsed"}
  BY DEF Credential
<1>1. ASSUME NEW r \in Request, Begin(r) \/ Proceed(r) \/ Abandon(r) PROVE LockIffExhausted'
  <2>1. CredentialStep(r)
    BY <1>1, StepCredential
  <2>2. CASE cred' = Cleared(cred) \/ cred' = record_failure(cred)
    BY <2>2, <1>c, CredentialType, LimitAssumption
  <2>3. CASE cred'.failed = 0 /\ cred'.lock = "none"
    BY <2>3, LimitAssumption
  <2>4. ASSUME NEW h, cred' = [cred EXCEPT !.hash = h] PROVE LockIffExhausted'
    BY <2>4 DEF Credential
  <2> QED
    BY <2>1, <2>2, <2>3, <2>4 DEF CredentialStep
<1>2. CASE Environment
  <2>1. CASE LockElapses
    BY <2>1, <1>c DEF LockElapses, Credential
  <2>2. CASE ~LockElapses
    BY <1>2, <2>2 DEF Environment, SupportSetsStatus, TokenExpires, SessionExpires
  <2> QED
    BY <2>1, <2>2
<1>3. CASE UNCHANGED vars
  BY <1>3 DEF vars
<1> QED
  BY <1>1, <1>2, <1>3 DEF Next

(* While one transaction holds the credential row's lock no other request    *)
(* changes the row or takes the lock.                                        *)
LEMMA LockedOut ==
  ASSUME TypeOK, RevalidatedStillTrue, NEW r \in Request, NEW q \in Request \ {r}, pwLock = q,
         Begin(r) \/ Proceed(r) \/ Abandon(r)
  PROVE  cred' = cred /\ pwLock' = q
<1>1. pwLock # NoRequest /\ pwLock # r /\ req[r].pc \notin {"commit_login", "commit_change"}
  BY RequestAssumption DEF RevalidatedStillTrue
<1>2. CASE Begin(r)
  BY <1>2 DEF Begin, LoginPrecheck, VerifyCode, ResendCode, RequestReset, PeekLink, ChangeRequest,
              Logout, LogoutAll
<1>3. CASE Proceed(r)
  <2>1. CASE ClearElapsedLock(r) \/ LoginFails(r) \/ LoginVerified(r) \/ LoginStale(r)
    BY <1>1, <2>1 DEF ClearElapsedLock, LoginFails, LoginVerified, LoginStale
  <2>2. CASE LoginRevalidated(r) \/ ChangeRevalidated(r) \/ ChangeConflict(r) \/ CodeSession(r)
    BY <1>1, <2>2 DEF LoginRevalidated, ChangeRevalidated, ChangeConflict, CodeSession
  <2>3. CASE LoginCommit(r) \/ ChangeCommit(r) \/ UpgradeHash(r) \/ ConfirmReset(r)
    BY <1>1, <2>3 DEF LoginCommit, ChangeCommit, UpgradeHash, ConfirmReset
  <2>4. CASE ResendCommit(r) \/ ResetLinkCommit(r) \/ ResetLinkGone(r) \/ ResendIssue(r) \/ ResetLinkIssue(r)
    BY <2>4 DEF ResendCommit, ResetLinkCommit, ResetLinkGone, ResendIssue, ResetLinkIssue, IssueSees
  <2> QED
    BY <1>3, <2>1, <2>2, <2>3, <2>4 DEF Proceed
<1>4. CASE Abandon(r)
  BY <1>1, <1>4 DEF Abandon
<1> QED
  BY <1>2, <1>3, <1>4

(* What was revalidated stays true until the commit.                         *)
LEMMA StepRevalidated == TypeOK /\ RevalidatedStillTrue /\ [Next]_vars => RevalidatedStillTrue'
<1> SUFFICES ASSUME TypeOK, RevalidatedStillTrue, [Next]_vars,
                    NEW q \in Request, req'[q].pc \in {"commit_login", "commit_change"}
             PROVE  pwLock' = q /\ cred'.hash = req'[q].hash /\ ~is_locked'
  BY DEF RevalidatedStillTrue
<1>1. ASSUME NEW r \in Request, Begin(r) \/ Proceed(r) \/ Abandon(r)
      PROVE  pwLock' = q /\ cred'.hash = req'[q].hash /\ ~is_locked'
  <2>1. CASE q # r
    <3>1. req'[q] = req[q]
      BY <1>1, <2>1, RequestEffect DEF Effect
    <3>2. pwLock = q /\ cred.hash = req[q].hash /\ ~is_locked
      BY <3>1 DEF RevalidatedStillTrue
    <3>3. cred' = cred /\ pwLock' = q
      BY <1>1, <2>1, <3>2, LockedOut
    <3> QED
      BY <3>1, <3>2, <3>3 DEF is_locked
  <2>2. CASE q = r
    <3>1. LoginRevalidated(r) \/ ChangeRevalidated(r)
      BY <1>1, <2>2, StepArrival DEF Arrival
    <3>2. req'[r].hash = req[r].hash
      BY <3>1, RevalidatedType, GotoType DEF ChangeRevalidated, TypeOK, Pc
    <3> QED
      BY <2>2, <3>1, <3>2 DEF LoginRevalidated, ChangeRevalidated, revalidate, is_locked
  <2> QED
    BY <2>1, <2>2
<1>2. CASE Environment
  <2>1. pwLock = q /\ cred.hash = req[q].hash /\ ~is_locked /\ UNCHANGED <<req, pwLock>>
    BY <1>2, EnvironmentEffect DEF RevalidatedStillTrue
  <2>2. UNCHANGED cred
    BY <1>2, <2>1 DEF Environment, SupportSetsStatus, TokenExpires, SessionExpires, LockElapses,
                      is_locked
  <2> QED
    BY <2>1, <2>2 DEF is_locked
<1>3. CASE UNCHANGED vars
  BY <1>3 DEF vars, RevalidatedStillTrue, is_locked
<1> QED
  BY <1>1, <1>2, <1>3 DEF Next

(* No step leaves a live session on a password that is not current.          *)
LEMMA StepSessions ==
  TypeOK /\ RequestsCoherent /\ RevalidatedStillTrue /\ PasswordSessionsCurrent /\ [Next]_vars
    => PasswordSessionsCurrent'
<1> SUFFICES ASSUME TypeOK, RequestsCoherent, RevalidatedStillTrue, PasswordSessionsCurrent,
                    [Next]_vars, NEW s \in Request,
                    session'[s].state = "live", session'[s].pw # NoPassword
             PROVE  session'[s].pw = cred'.hash.pw
  BY DEF PasswordSessionsCurrent
<1> USE DEF TypeOK
<1>1. ASSUME NEW r \in Request, Begin(r) \/ Proceed(r) \/ Abandon(r)
      PROVE  session'[s].pw = cred'.hash.pw
  <2>c. PasswordVerified(r) /\ CredentialStep(r) /\ cred.hash \in Hash \cup {NoHash}
    BY <1>1, StepCredential DEF RequestsCoherent, Coherent, Credential
  <2>1. CASE ConfirmReset(r)
    BY <2>1, RevokeType DEF ConfirmReset
  <2>2. CASE ChangeCommit(r) /\ cred.hash = req[r].hash
    <3>1. s = r
      BY <2>2, RevokeType DEF ChangeCommit
    <3> QED
      BY <2>2, <3>1, RevokeType DEF ChangeCommit, SessionFor, NewHash
  <2>3. CASE ~ConfirmReset(r) /\ ~(ChangeCommit(r) /\ cred.hash = req[r].hash)
    <3>1. cred'.hash.pw = cred.hash.pw
      <4>1. CASE UpgradeHash(r) /\ cred.hash = req[r].hash /\ cred' = [cred EXCEPT !.hash = NewHash(req[r].pw)]
        <5>1. cred'.hash = NewHash(req[r].pw)
          BY <4>1 DEF Credential
        <5> QED
          BY <4>1, <5>1, <2>c DEF UpgradeHash, PasswordVerified, NewHash
      <4> QED
        BY <2>3, <2>c, <4>1, CredentialType DEF CredentialStep
    <3>2. CASE session'[s].pw = session[s].pw /\ session[s].state = "live"
      BY <3>1, <3>2 DEF PasswordSessionsCurrent
    <3>3. CASE LoginCommit(r) /\ s = r /\ session'[s] # session[s]
      <4>1. session'[r] = SessionFor(req[r].pw, NoRequest) /\ req[r].pc = "commit_login"
        BY <3>3 DEF LoginCommit
      <4>2. cred.hash = req[r].hash /\ req[r].hash.pw = req[r].pw
        BY <2>c, <4>1 DEF RevalidatedStillTrue, PasswordVerified
      <4> QED
        BY <3>1, <3>3, <4>1, <4>2 DEF SessionFor
    <3>4. CASE s # r
      BY <1>1, <3>2, <3>4, RequestEffect DEF Effect
    <3>5. ASSUME s = r, ~LoginCommit(r), ~CodeSession(r) PROVE session'[r] = session[r] \/ session'[r].state # "live"
      <4>1. CASE Begin(r)
        <5>1. ASSUME NEW x \in Request, Logout(r, x)
              PROVE  session'[r] = session[r] \/ session'[r].state # "live"
          BY <5>1 DEF Logout, Session
        <5>2. CASE LogoutAll(r)
          BY <5>2, RevokeType DEF LogoutAll
        <5> QED
          BY <4>1, <5>1, <5>2 DEF Begin, LoginPrecheck, VerifyCode, ResendCode, RequestReset, PeekLink,
                                  ChangeRequest
      <4>2. CASE Proceed(r)
        BY <2>3, <3>5, <4>2 DEF Proceed, ClearElapsedLock, LoginFails, LoginVerified, LoginRevalidated,
             LoginStale, UpgradeHash, ResendCommit, ResetLinkCommit, ResetLinkGone, ChangeRevalidated,
             ChangeConflict, ChangeCommit, ResendIssue, ResetLinkIssue, IssueSees
      <4>3. CASE Abandon(r)
        BY <4>3 DEF Abandon
      <4> QED
        BY <1>1, <4>1, <4>2, <4>3
    <3>6. CASE CodeSession(r) /\ s = r
      BY <3>6, <3>2 DEF CodeSession, SessionFor
    <3> QED
      BY <3>2, <3>3, <3>4, <3>5, <3>6
  <2> QED
    BY <2>1, <2>2, <2>3
<1>2. CASE Environment
  BY <1>2, EnvironmentEffect DEF PasswordSessionsCurrent
<1>3. CASE UNCHANGED vars
  BY <1>3 DEF vars, PasswordSessionsCurrent
<1> QED
  BY <1>1, <1>2, <1>3 DEF Next

-------------------------------------------------------------------------------
(* A second change that verified the hash an earlier one replaced does not   *)
(* get through: the stored hash has moved on and never comes back.           *)
LEMMA StepChange ==
  TypeOK /\ RequestsCoherent /\ ChangeWinsOnce /\ [Next]_vars => ChangeWinsOnce'
<1> SUFFICES ASSUME TypeOK, RequestsCoherent, ChangeWinsOnce, [Next]_vars,
                    NEW r1 \in Request, NEW r2 \in Request, req'[r1].pc = "changed",
                    req'[r2].pc = "changed", req'[r1].hash = req'[r2].hash
             PROVE  r1 = r2
  BY DEF ChangeWinsOnce
<1>1. ASSUME NEW r \in Request, Begin(r) \/ Proceed(r) \/ Abandon(r) PROVE r1 = r2
  <2>1. \A q \in Request \ {r} : req'[q] = req[q]
    BY <1>1, RequestEffect DEF Effect
  <2>2. ASSUME req'[r].pc = "changed", NEW q \in Request \ {r}, req'[q].pc = "changed"
        PROVE  req'[r].hash # req'[q].hash
    <3>1. ChangeCommit(r) /\ cred.hash = req[r].hash
      BY <1>1, <2>2, StepArrival DEF Arrival
    <3>2. req'[r].hash = cred.hash
      BY <3>1, GotoType DEF ChangeCommit, TypeOK, Pc
    <3>3. req[q].hash # cred.hash
      BY <2>1, <2>2 DEF RequestsCoherent, Coherent, FreshSalts
    <3> QED
      BY <2>1, <3>2, <3>3
  <2> QED
    BY <2>1, <2>2 DEF ChangeWinsOnce
<1>2. CASE Environment
  BY <1>2, EnvironmentEffect DEF ChangeWinsOnce
<1>3. CASE UNCHANGED vars
  BY <1>3 DEF vars, ChangeWinsOnce
<1> QED
  BY <1>1, <1>2, <1>3 DEF Next

(* The tokens: a step leaves them, counts a guess, issues the request's own  *)
(* or spends a reset link.                                                   *)
TokenStep(r) ==
  \/ token' = token
  \/ \E t \in Request, matches \in BOOLEAN : VerifyCode(r, t, matches)
  \/ /\ token[r] = NoToken
     /\ \E purpose \in {"login_code", "password_reset"} : token' = Issued(r, purpose, req[r].seen)
  \/ ConfirmReset(r)

(* Every step of a request treats the tokens as TokenStep says.              *)
LEMMA StepToken ==
  ASSUME RequestsCoherent, NEW r \in Request, Begin(r) \/ Proceed(r) \/ Abandon(r)
  PROVE  TokenStep(r)
<1>1. CASE Begin(r)
  BY <1>1 DEF Begin, LoginPrecheck, ResendCode, RequestReset, PeekLink, ChangeRequest, Logout,
              LogoutAll, TokenStep
<1>2. CASE Proceed(r)
  <2>n. req[r].pc \in {"commit_login", "commit_resend", "commit_reset_link"} => token[r] = NoToken
    BY DEF RequestsCoherent, Coherent, NothingMadeYet
  <2>1. CASE ClearElapsedLock(r) \/ LoginFails(r) \/ LoginVerified(r) \/ LoginStale(r)
    BY <2>1 DEF ClearElapsedLock, LoginFails, LoginVerified, LoginStale, TokenStep
  <2>2. CASE LoginRevalidated(r) \/ ChangeRevalidated(r) \/ ChangeConflict(r) \/ CodeSession(r)
    BY <2>2 DEF LoginRevalidated, ChangeRevalidated, ChangeConflict, CodeSession, TokenStep
  <2>3. CASE LoginCommit(r)
    BY <2>3, <2>n DEF LoginCommit, TokenStep
  <2>4. CASE ResendCommit(r) \/ ResetLinkCommit(r)
    BY <2>4, <2>n DEF ResendCommit, ResetLinkCommit, TokenStep
  <2>5. CASE UpgradeHash(r) \/ ResetLinkGone(r) \/ ChangeCommit(r) \/ ResendIssue(r) \/ ResetLinkIssue(r)
    BY <2>5 DEF UpgradeHash, ResetLinkGone, ChangeCommit, ResendIssue, ResetLinkIssue, IssueSees,
                TokenStep
  <2>6. CASE ConfirmReset(r)
    BY <2>6 DEF TokenStep
  <2> QED
    BY <1>2, <2>1, <2>2, <2>3, <2>4, <2>5, <2>6 DEF Proceed
<1>3. CASE Abandon(r)
  BY <1>3 DEF Abandon, TokenStep
<1> QED
  BY <1>1, <1>2, <1>3

(* No step counts a guess past the cap.                                      *)
LEMMA StepGuesses ==
  TypeOK /\ RequestsCoherent /\ CodeGuessesBounded /\ [Next]_vars => CodeGuessesBounded'
<1> SUFFICES ASSUME TypeOK, RequestsCoherent, CodeGuessesBounded, [Next]_vars, NEW t \in Request
             PROVE  /\ token'[t].attempts <= MaxCodeAttempts
                    /\ token'[t].state = "open" => token'[t].attempts < MaxCodeAttempts
  BY DEF CodeGuessesBounded
<1> DEFINE Goal == /\ token'[t].attempts <= MaxCodeAttempts
                   /\ token'[t].state = "open" => token'[t].attempts < MaxCodeAttempts
<1>t. /\ token[t] \in Token /\ token[t].attempts \in Nat /\ token[t].attempts <= MaxCodeAttempts
      /\ token[t].state = "open" => token[t].attempts < MaxCodeAttempts
  BY DEF TypeOK, Token, CodeGuessesBounded
<1>1. ASSUME NEW r \in Request, Begin(r) \/ Proceed(r) \/ Abandon(r) PROVE Goal
  <2>1. ASSUME NEW u \in Request, NEW matches \in BOOLEAN, VerifyCode(r, u, matches) PROVE Goal
    <3>1. token[u].state = "open" /\ token' = Guessed(u, matches)
      BY <2>1 DEF VerifyCode, OpenTokens
    <3>2. CASE u = t
      <4>1. token'[t].attempts = token[t].attempts + 1
            /\ (token'[t].state = "open" => ~(token[t].attempts + 1 >= MaxCodeAttempts))
        BY <3>1, <3>2, GuessedType DEF TypeOK
      <4> QED
        BY <1>t, <3>1, <3>2, <4>1, LimitAssumption
    <3>3. CASE u # t
      BY <1>t, <3>1, <3>3, GuessedType DEF TypeOK
    <3> QED
      BY <3>2, <3>3
  <2>2. ASSUME NEW purpose \in {"login_code", "password_reset"}, token' = Issued(r, purpose, req[r].seen)
        PROVE  Goal
    BY <2>2, <1>t, LimitAssumption DEF Issued, Token, TypeOK
  <2>3. CASE ConfirmReset(r)
    <3>1. token'[t].attempts = token[t].attempts /\ (token'[t].state = "open" => token[t].state = "open")
      BY <2>3 DEF ConfirmReset, TypeOK, Token
    <3> QED
      BY <3>1, <1>t
  <2> QED
    BY <1>1, <1>t, <2>1, <2>2, <2>3, StepToken DEF TokenStep
<1>2. CASE Environment
  BY <1>2, <1>t, EnvironmentEffect
<1>3. CASE UNCHANGED vars
  BY <1>3, <1>t DEF vars
<1> QED
  BY <1>1, <1>2, <1>3 DEF Next

(* Nothing is spent twice: only an open token gains a spender, it closes     *)
(* then, and a closed one stays closed.                                      *)
LEMMA StepSpent ==
  TypeOK /\ RequestsCoherent /\ TokenSpentOnce /\ [Next]_vars => TokenSpentOnce'
<1> SUFFICES ASSUME TypeOK, RequestsCoherent, TokenSpentOnce, [Next]_vars, NEW t \in Request
             PROVE  (/\ \A r1, r2 \in Spenders(t) : r1 = r2
                     /\ Spenders(t) # {} => token[t].state # "open")'
  BY DEF TokenSpentOnce
<1>o. /\ \A r1, r2 \in Spenders(t) : r1 = r2
      /\ Spenders(t) # {} => token[t].state \notin {"open", "none"}
  <2>1. \A q \in Spenders(t) : token[t].state # "none"
    BY DEF Spenders, RequestsCoherent, Coherent, TargetIssued
  <2> QED
    BY <2>1 DEF TokenSpentOnce
<1>1. ASSUME NEW r \in Request, Begin(r) \/ Proceed(r) \/ Abandon(r)
      PROVE  (/\ \A r1, r2 \in Spenders(t) : r1 = r2
              /\ Spenders(t) # {} => token[t].state # "open")'
  <2>1. \A q \in Request \ {r} : q \in Spenders(t)' => q \in Spenders(t)
    BY <1>1, RequestEffect DEF Effect, Spenders
  <2>2. ASSUME r \in Spenders(t)', r \notin Spenders(t)
        PROVE  token[t].state = "open" /\ token'[t].state # "open"
    <3>1. CASE req'[r].pc = "matched" /\ req'[r].target = t
      <4>1. VerifyCode(r, t, TRUE)
        BY <1>1, <3>1, StepArrival DEF Arrival
      <4> QED
        BY <4>1, GuessedType DEF VerifyCode, OpenTokens, TypeOK
    <3>2. CASE req'[r].pc = "reset" /\ req'[r].target = t
      <4>1. ConfirmReset(r)
        BY <1>1, <3>2, StepArrival DEF Arrival
      <4>2. req[r].target = t
        BY <3>2, <4>1, GotoType DEF ConfirmReset, Goto, TypeOK, Pc
      <4> QED
        BY <4>1, <4>2 DEF ConfirmReset, TypeOK, Token
    <3>3. CASE session'[r].code = t
      <4>1. CodeSession(r) /\ session[r].code # t
        BY <1>1, <2>2, <3>3, StepArrival, RequestAssumption DEF Arrival, Spenders
      <4>2. req[r].target = t /\ req[r].pc = "matched"
        BY <3>3, <4>1 DEF CodeSession, SessionFor, TypeOK
      <4> QED
        BY <2>2, <4>2 DEF Spenders
    <3> QED
      BY <2>2, <3>1, <3>2, <3>3 DEF Spenders
  <2>3. token[t].state \notin {"open", "none"} => token'[t].state # "open"
    <3>1. CASE t # r
      BY <1>1, <3>1, RequestEffect DEF Effect
    <3>2. CASE t = r
      <4>1. ASSUME token[r].state \notin {"open", "none"},
                   NEW u \in Request, NEW matches \in BOOLEAN, VerifyCode(r, u, matches)
            PROVE  token'[r].state # "open"
        <5>1. u # r /\ token' = Guessed(u, matches)
          BY <4>1 DEF VerifyCode, OpenTokens
        <5> QED
          BY <4>1, <5>1, GuessedType DEF TypeOK
      <4>2. CASE ConfirmReset(r)
        BY <4>2 DEF ConfirmReset, TypeOK, Token
      <4> QED
        BY <1>1, <3>2, <4>1, <4>2, StepToken DEF TokenStep, NoToken
    <3> QED
      BY <3>1, <3>2
  <2>4. Spenders(t)' \subseteq Request
    BY DEF Spenders
  <2> QED
    BY <1>o, <2>1, <2>2, <2>3, <2>4
<1>2. CASE Environment
  <2>1. Spenders(t)' = Spenders(t)
    BY <1>2, EnvironmentEffect DEF Spenders
  <2> QED
    BY <1>2, <1>o, <2>1, EnvironmentEffect
<1>3. CASE UNCHANGED vars
  BY <1>3, <1>o DEF vars, Spenders
<1> QED
  BY <1>1, <1>2, <1>3 DEF Next

-------------------------------------------------------------------------------
(* The inductive invariant: none of the safety properties about the phases   *)
(* of a request is inductive without RequestsCoherent, and the sessions need *)
(* the row lock.                                                             *)
IInv ==
  /\ TypeOK /\ RequestsCoherent
  /\ RevalidatedStillTrue /\ PasswordSessionsCurrent
  /\ ChangeWinsOnce /\ LockIffExhausted
  /\ TokenSpentOnce /\ CodeGuessesBounded

(* Init satisfies the inductive invariant.                                   *)
LEMMA InitInvariant == Init => IInv
<1> SUFFICES ASSUME Init PROVE IInv
  OBVIOUS
<1>1. \A r \in Request : /\ req[r].pc \in {"idle", "done"}
                         /\ session[r].pw = NoPassword /\ session[r].code = NoRequest
                         /\ token[r] = NoToken
  BY DEF Init, Blank, NoSession
<1>2. RevalidatedStillTrue /\ PasswordSessionsCurrent /\ ChangeWinsOnce
  BY <1>1 DEF RevalidatedStillTrue, PasswordSessionsCurrent, ChangeWinsOnce
<1>3. LockIffExhausted /\ CodeGuessesBounded
  BY <1>1, LimitAssumption DEF Init, LockIffExhausted, CodeGuessesBounded, NoToken
<1>4. TokenSpentOnce
  BY <1>1, RequestAssumption DEF TokenSpentOnce, Spenders
<1> QED
  BY <1>2, <1>3, <1>4, InitType, InitCoherent DEF IInv

(* Every step preserves the inductive invariant.                             *)
LEMMA StepInvariant == IInv /\ [Next]_vars => IInv'
  BY StepType, StepCoherent, StepRevalidated, StepSessions, StepChange, StepLock, StepSpent,
     StepGuesses DEF IInv

(* The inductive invariant holds in every reachable state.                   *)
LEMMA Invariant == Spec => []IInv
  BY InitInvariant, StepInvariant, PTL DEF Spec

(* Every variable keeps its type in every reachable state, for any number of *)
(* requests: no counter of passwords or auth_tokens leaves its range.        *)
THEOREM TypeCorrect == Spec => []TypeOK
  BY Invariant, PTL DEF IInv

(* What login, change_password and confirm_password_reset rely on from one   *)
(* phase to the next holds however their requests interleave.                *)
THEOREM PhasesCoherent == Spec => []RequestsCoherent
  BY Invariant, PTL DEF IInv

(* A live session that a password opened carries the current password: no    *)
(* login outlives the password change or reset it raced.                     *)
THEOREM SessionsCurrent == Spec => []PasswordSessionsCurrent
  BY Invariant, PTL DEF IInv

(* Between revalidate and COMMIT nothing it established changes: the row     *)
(* lock of find_for_update is enough.                                        *)
THEOREM RevalidationHolds == Spec => []RevalidatedStillTrue
  BY Invariant, PTL DEF IInv

(* Of the password changes that verified one stored hash at most one         *)
(* succeeds (replace_hash).                                                  *)
THEOREM OneChangeWins == Spec => []ChangeWinsOnce
  BY Invariant, PTL DEF IInv

(* The lock is set exactly when record_failure has used up the attempts.     *)
THEOREM LockExact == Spec => []LockIffExhausted
  BY Invariant, PTL DEF IInv

(* No challenge and no reset link is spent twice (verify_code, consume_link). *)
THEOREM SpentOnce == Spec => []TokenSpentOnce
  BY Invariant, PTL DEF IInv

(* No challenge is guessed at more than MaxCodeAttempts times (verify_code). *)
THEOREM GuessesBounded == Spec => []CodeGuessesBounded
  BY Invariant, PTL DEF IInv

-------------------------------------------------------------------------------
(* AuthService implements SessionAuthority.                                  *)

(* The initial states are initial states of SessionAuthority.                *)
LEMMA InitRefines == Init => Authority!AbstractInit
<1> SUFFICES ASSUME Init PROVE Authority!AbstractInit
  OBVIOUS
<1>1. cred.hash \in Hash \cup {NoHash}
  BY InitType DEF TypeOK, Credential
<1>2. \A s \in Request : session[s].pw = NoPassword
  BY DEF Init, NoSession
<1> QED
  BY <1>1, <1>2 DEF Authority!AbstractInit, Hash, NoHash

(* A step that keeps the password, what opened each session and which        *)
(* password sessions are live is a stuttering step of SessionAuthority.      *)
LEMMA Stutters ==
  ASSUME cred'.hash.pw = cred.hash.pw,
         \A s \in Request : session'[s].pw = session[s].pw,
         \A s \in Request : session[s].pw # NoPassword => session'[s].state = session[s].state
  PROVE  UNCHANGED Authority!avars
  BY DEF Authority!avars

(* A step after which more password sessions are over ends them.             *)
LEMMA Ends ==
  ASSUME cred'.hash.pw = cred.hash.pw,
         \A s \in Request : session'[s].pw = session[s].pw,
         \A s \in Request : session'[s].state = "live" => session[s].state = "live"
  PROVE  Authority!AbstractNext
<1> DEFINE over == {s \in Request : session[s].pw # NoPassword /\ session'[s].state # "live"}
<1>1. PICK S \in SUBSET Request : S = over
  OBVIOUS
<1>2. Authority!End(S)
  BY <1>1 DEF Authority!End
<1> QED
  BY <1>2 DEF Authority!AbstractNext

(* login's commit in a remembered browser opens a session on the current     *)
(* password.                                                                 *)
LEMMA CommitOpens ==
  ASSUME IInv, NEW r \in Request, LoginCommit(r), req[r].remembered
  PROVE  Authority!AbstractNext
<1>1. session' = [session EXCEPT ![r] = SessionFor(req[r].pw, NoRequest)] /\ req[r].pc = "commit_login"
      /\ cred' = Cleared(cred)
  BY DEF LoginCommit
<1>2. session[r] = NoSession /\ req[r].pw = cred.hash.pw /\ req[r].pw \in Password
  BY <1>1 DEF IInv, RequestsCoherent, Coherent, NothingMadeYet, PasswordHeld, PasswordVerified,
              RevalidatedStillTrue
<1>3. cred'.hash = cred.hash /\ cred.hash.pw # NoPassword
  BY <1>1, <1>2, CredentialType, PasswordAssumption DEF IInv, TypeOK
<1>4. session[r].pw = NoPassword /\ session'[r].pw = cred.hash.pw /\ session'[r].state = "live"
      /\ \A s \in Request \ {r} : session'[s] = session[s]
  BY <1>1, <1>2 DEF IInv, TypeOK, NoSession, SessionFor
<1>5. [s \in Request |-> session'[s].pw]
        = [[s \in Request |-> session[s].pw] EXCEPT ![r] = cred.hash.pw]
  BY <1>4
<1>6. {s \in Request : session'[s].pw # NoPassword /\ session'[s].state # "live"}
        = {s \in Request : session[s].pw # NoPassword /\ session[s].state # "live"}
  BY <1>4
<1>7. Authority!Open(r)
  BY <1>3, <1>4, <1>5, <1>6 DEF Authority!Open
<1> QED
  BY <1>7 DEF Authority!AbstractNext

(* A reset replaces the password and opens nothing; a change also opens the  *)
(* session it rotates to.                                                    *)
LEMMA ReplacesPassword ==
  ASSUME IInv, NEW r \in Request, ConfirmReset(r) \/ (ChangeCommit(r) /\ cred.hash = req[r].hash)
  PROVE  Authority!AbstractNext
<1> USE DEF IInv, TypeOK
<1> DEFINE fresh == IF ChangeCommit(r) THEN {r} ELSE {}
<1>1. req[r].pc \in {"peeked", "commit_change"} /\ (req[r].pc = "commit_change" <=> ChangeCommit(r))
  BY DEF ConfirmReset, ChangeCommit
<1>2. session[r] = NoSession /\ req[r].pw \in Password
  BY <1>1 DEF RequestsCoherent, Coherent, NothingMadeYet, PasswordHeld
<1>3. cred'.hash.pw = req[r].pw
  BY DEF ConfirmReset, ChangeCommit, NewHash
<1>4. \A s \in Request \ fresh : session'[s].pw = session[s].pw /\ session'[s].state # "live"
  <2>1. CASE ConfirmReset(r)
    BY <2>1, RevokeType DEF ConfirmReset
  <2>2. CASE ChangeCommit(r)
    BY <2>2, <1>1, RevokeType DEF ChangeCommit, ConfirmReset
  <2> QED
    BY <2>1, <2>2
<1>5. \A s \in fresh : session'[s].pw = req[r].pw /\ session'[s].state = "live"
                     /\ session[s].pw = NoPassword /\ s = r
  BY <1>1, <1>2, RevokeType DEF ChangeCommit, ConfirmReset, SessionFor, NoSession
<1>6. fresh \in SUBSET Request
  OBVIOUS
<1> HIDE DEF fresh
<1>7. [s \in Request |-> session'[s].pw]
        = [s \in Request |-> IF s \in fresh THEN req[r].pw ELSE [u \in Request |-> session[u].pw][s]]
  BY <1>4, <1>5, <1>6
<1>8. {s \in Request : session'[s].pw # NoPassword /\ session'[s].state # "live"}
        = {s \in Request : session[s].pw # NoPassword /\ session[s].state # "live"}
          \cup {s \in Request : [u \in Request |-> session[u].pw][s] # NoPassword}
  BY <1>4, <1>5, <1>6
<1>9. Authority!Replace(req[r].pw, fresh)
  BY <1>2, <1>3, <1>5, <1>6, <1>7, <1>8 DEF Authority!Replace
<1>10. PICK p \in Password, S \in SUBSET Request : p = req[r].pw /\ S = fresh
  BY <1>2, <1>6
<1>11. Authority!Replace(p, S)
  BY <1>9, <1>10 DEF Authority!Replace
<1> QED
  BY <1>11 DEF Authority!AbstractNext

(* Every step is a step of SessionAuthority or leaves its variables alone.   *)
LEMMA StepRefines == IInv /\ [Next]_vars => [Authority!AbstractNext]_(Authority!avars)
<1> SUFFICES ASSUME IInv, [Next]_vars
             PROVE  Authority!AbstractNext \/ UNCHANGED Authority!avars
  OBVIOUS
<1> USE DEF IInv, TypeOK
<1>1. ASSUME NEW r \in Request, Begin(r) \/ Proceed(r) \/ Abandon(r)
      PROVE  Authority!AbstractNext \/ UNCHANGED Authority!avars
  <2>c. CredentialStep(r) /\ PasswordVerified(r) /\ NothingMadeYet(r)
    BY <1>1, StepCredential DEF RequestsCoherent, Coherent
  <2>1. CASE ConfirmReset(r) \/ (ChangeCommit(r) /\ cred.hash = req[r].hash)
    BY <2>1, ReplacesPassword
  <2>2. CASE LoginCommit(r) /\ req[r].remembered
    BY <2>2, CommitOpens
  <2>3. CASE ~ConfirmReset(r) /\ ~(ChangeCommit(r) /\ cred.hash = req[r].hash)
             /\ ~(LoginCommit(r) /\ req[r].remembered)
    <3>1. cred'.hash.pw = cred.hash.pw
      <4>1. CASE UpgradeHash(r) /\ cred.hash = req[r].hash
                 /\ cred' = [cred EXCEPT !.hash = NewHash(req[r].pw)]
        <5>1. cred'.hash = NewHash(req[r].pw)
          BY <4>1 DEF Credential
        <5> QED
          BY <4>1, <5>1, <2>c DEF UpgradeHash, PasswordVerified, NewHash
      <4> QED
        BY <2>3, <2>c, <4>1, CredentialType DEF CredentialStep
    <3>2. ASSUME NEW s \in Request, Logout(r, s) PROVE Authority!AbstractNext
      <4>1. \A q \in Request : session'[q].pw = session[q].pw
                               /\ (session'[q].state = "live" => session[q].state = "live")
        BY <3>2 DEF Logout, Session
      <4> QED
        BY <3>1, <4>1, Ends
    <3>3. CASE LogoutAll(r)
      <4>1. \A q \in Request : session'[q].pw = session[q].pw
                               /\ (session'[q].state = "live" => session[q].state = "live")
        BY <3>3, RevokeType DEF LogoutAll
      <4> QED
        BY <3>1, <4>1, Ends
    <3>4. CASE CodeSession(r)
      <4>1. session[r] = NoSession
        BY <2>c, <3>4 DEF CodeSession, NothingMadeYet
      <4>2. \A s \in Request : session'[s].pw = session[s].pw
                               /\ (session[s].pw # NoPassword => session'[s].state = session[s].state)
        BY <3>4, <4>1 DEF CodeSession, SessionFor, NoSession
      <4> QED
        BY <3>1, <4>2, Stutters
    <3>5. CASE UNCHANGED session
      BY <3>1, <3>5, Stutters
    <3>6. CASE Begin(r)
      BY <3>2, <3>3, <3>5, <3>6 DEF Begin, LoginPrecheck, VerifyCode, ResendCode, RequestReset, PeekLink,
                                    ChangeRequest
    <3>7. CASE Proceed(r)
      <4>1. CASE LoginCommit(r) \/ ChangeCommit(r)
        BY <2>3, <3>5, <4>1 DEF LoginCommit, ChangeCommit
      <4> QED
        BY <2>3, <3>4, <3>5, <3>7, <4>1 DEF Proceed, ClearElapsedLock, LoginFails, LoginVerified,
             LoginRevalidated, LoginStale, UpgradeHash, ResendCommit, ResetLinkCommit, ResetLinkGone,
             ChangeRevalidated, ChangeConflict, ResendIssue, ResetLinkIssue, IssueSees
    <3>8. CASE Abandon(r)
      BY <3>5, <3>8 DEF Abandon
    <3> QED
      BY <1>1, <3>6, <3>7, <3>8
  <2> QED
    BY <2>1, <2>2, <2>3
<1>2. CASE Environment
  <2>1. \A q \in Request : session'[q].pw = session[q].pw
                           /\ (session'[q].state = "live" => session[q].state = "live")
    BY <1>2, EnvironmentEffect
  <2>2. cred'.hash.pw = cred.hash.pw
    BY <1>2, EnvironmentEffect
  <2> QED
    BY <2>1, <2>2, Ends
<1>3. CASE UNCHANGED vars
  BY <1>3, Stutters DEF vars
<1> QED
  BY <1>1, <1>2, <1>3 DEF Next

(* Login, change, reset, upgrade and logout, however their requests          *)
(* interleave and wherever they are abandoned, implement SessionAuthority:   *)
(* a session opens only on the current password, and a password is replaced  *)
(* only together with the end of every session.                              *)
THEOREM Refinement == Spec => ImplementsAuthority
<1>1. Init => Authority!AbstractInit
  BY InitRefines
<1>2. IInv /\ [Next]_vars => [Authority!AbstractNext]_(Authority!avars)
  BY StepRefines
<1> QED
  BY <1>1, <1>2, Invariant, PTL DEF Spec, ImplementsAuthority, Authority!AbstractSpec
===============================================================================
