------------------------------- MODULE Accounts --------------------------------
(***************************************************************************)
(* Who can get into an account and who proved its address: register, the   *)
(* codes and reset links, federated sign-in and linking                    *)
(* (crates/cm-auth/src/service.rs,                                         *)
(* cm-db/src/repo/{users,oauth,auth_tokens,passwords}.rs).                 *)
(*                                                                         *)
(* A request has one transaction, on a pooled connection.  Its writes show *)
(* when it commits; until then the rows and the unique keys it wrote are   *)
(* its own, and whoever wants one waits.  Here that is a list of keys a    *)
(* request still has to take and the set it holds.  Some requests read or  *)
(* write on an earlier connection, and pause without any.  A code or link  *)
(* is known to whoever reads the inbox it was sent to, a provider's token  *)
(* to whoever owns the identity.  Hashes, lockout, attempts, expiry,       *)
(* change_password and the session rows are AuthService's; names, rate     *)
(* limits and the audit are left out.                                      *)
(***************************************************************************)
EXTENDS Integers, FiniteSets, SequencesExt

CONSTANTS
  Request,    \* requests, numbered from 1 as they arrive; one may create the
              \* account, or issue the challenge, of its own number
  Person,
  First,      \* those of them who may have an account already
  Address,
  Inbox,      \* who reads the mail of an address
  Subject,    \* identities at a provider
  ProviderOf, \* the provider of an identity
  OwnerOf,    \* the person it belongs to
  None,
  PoolSize    \* max_connections

ASSUME RequestAssumption == Request \subseteq Nat \ {0}
ASSUME NoneAssumption == None \notin Address \cup Subject \cup Person
ASSUME WorldAssumption ==
  /\ First \subseteq Person
  /\ Inbox \in [Address -> Person] /\ OwnerOf \in [Subject -> Person] /\ DOMAIN ProviderOf = Subject
ASSUME PoolAssumption == PoolSize \in Nat \ {0}

VARIABLES
  user,       \* the users table; account 0 is there from the start
  identity,   \* oauth_identities: the account of each linked identity
  challenge,  \* the codes that were issued
  request,    \* the requests
  free        \* connections left in the pool

vars == <<user, identity, challenge, request, free>>

Id == Request \cup {0}
NoId == -1

UserRow ==
  [made       : BOOLEAN,                \* there is such an account
   email      : Address \cup {None},
   verified   : BOOLEAN,                \* email_verified_at IS NOT NULL
   prover     : Person \cup {None},     \* a record: whose proof verified it
   password   : Person \cup {None},     \* who chose it; None: no credential
   remembered : SUBSET Person]          \* whose browsers keep a device cookie
NoUser ==
  [made |-> FALSE, email |-> None, verified |-> FALSE, prover |-> None, password |-> None, remembered |-> {}]
NewUser(e, prover, password, remembered) ==
  [made |-> TRUE, email |-> e, verified |-> prover # None, prover |-> prover,
   password |-> password, remembered |-> remembered]

Token ==
  [purpose : {"none", "login_code", "email_verify", "password_reset"},
   account : Id \cup {NoId},
   address : Address \cup {None},    \* where the code or link went
   asker   : Person \cup {None},     \* who has the challenge's id; None for a link
   spent   : BOOLEAN]
NoToken == [purpose |-> "none", account |-> NoId, address |-> None, asker |-> None, spent |-> FALSE]

Key ==
  ({"email"} \X Address) \cup ({"subject"} \X Subject)
    \cup ({"account", "share", "rekey", "credential", "token"} \X Id)
    \cup ({"provider"} \X (Id \X {ProviderOf[s] : s \in Subject}))

RequestState ==
  [op      : {"none", "register", "sign_in", "link", "verify", "confirm", "login", "code", "resend",
              "forgot", "reset"},
   pc      : {"idle", "limit", "pause", "run", "answered"},
   person  : Person \cup {None},
   account : Id \cup {NoId},
   address : Address \cup {None},    \* typed, or claimed by the token
   subject : Subject \cup {None},
   proved  : BOOLEAN,                \* the token's email_verified
   token   : Id \cup {NoId},
   todo    : Seq(Key),               \* what it has still to lock, in order
   held    : SUBSET Key]

TypeOK ==
  /\ user \in [Id -> UserRow]
  /\ identity \in [Subject -> Id \cup {NoId}]
  /\ challenge \in [Id -> Token]
  /\ request \in [Request -> RequestState]
  /\ free \in 0..PoolSize

NoRequest ==
  [op |-> "none", pc |-> "idle", person |-> None, account |-> NoId, address |-> None, subject |-> None,
   proved |-> FALSE, token |-> NoId, todo |-> <<>>, held |-> {}]

(* What may be on its way: a code for an address that p, who is signed in,   *)
(* asked to prove, or a link to the account's address.                       *)
Sent(purpose, e, p) == [purpose |-> purpose, account |-> 0, address |-> e, asker |-> p, spent |-> FALSE]
Underway(p, email) ==
  {NoToken} \cup {Sent("email_verify", e, p) : e \in Address}
            \cup {Sent("password_reset", e, None) : e \in {email} \ {None}}

There(u, c, linked) ==
  /\ user = [a \in Id |-> IF a = 0 THEN u ELSE NoUser]
  /\ challenge = [d \in Id |-> IF d = 0 THEN c ELSE NoToken]
  /\ identity = [s \in Subject |-> IF s = linked THEN 0 ELSE NoId]

(* Nobody is there yet, or one account is: with an address nobody proved and *)
(* the first code on its way, with one its owner proved, or with an identity.*)
Init ==
  /\ \/ There(NoUser, NoToken, None)
     \/ \E p \in First, e \in Address : There(NewUser(e, None, p, {}), Sent("login_code", e, p), None)
     \/ \E p \in First, e \in Address :
          Inbox[e] = p /\ \E c \in Underway(p, e) : There(NewUser(e, p, p, {p}), c, None)
     \/ \E s \in Subject, e \in Address \cup {None} :
          OwnerOf[s] \in First /\ \E c \in Underway(OwnerOf[s], e) : There(NewUser(e, None, None, {}), c, s)
  /\ request = [r \in Request |-> NoRequest]
  /\ free = PoolSize

-------------------------------------------------------------------------------
(* Keys.                                                                     *)

(* What keeps a key from being taken.  The locks on an account's row are its *)
(* update, the share that a foreign key takes, and the update of the address,*)
(* a column with a unique index, which keeps both of the others out.         *)
Blocks(key, other) ==
  \/ key = other /\ key[1] # "share"
  \/ {key[1], other[1]} \in {{"account", "rekey"}, {"share", "rekey"}} /\ key[2] = other[2]
Holder(r, key) == {q \in Request \ {r} : \E other \in request[q].held : Blocks(key, other)}

find_by_subject(s) == identity[s]
exists_for_user(a, provider) == \E s \in Subject : ProviderOf[s] = provider /\ identity[s] = a

(* Whether a key is refused: a unique index has it already, a code or link   *)
(* is spent, or the password that was verified is not the account's any more *)
(* (revalidate).                                                             *)
Taken(r, key) ==
  \/ key[1] = "email" /\ \E a \in Id \ {request[r].account} : user[a].email = key[2]
  \/ key[1] = "subject" /\ find_by_subject(key[2]) # NoId
  \/ key[1] = "provider" /\ exists_for_user(key[2][1], key[2][2])
  \/ key[1] = "token" /\ challenge[key[2]].spent /\ request[r].op \in {"confirm", "code", "reset"}
  \/ key[1] = "credential" /\ request[r].op = "login" /\ user[key[2]].password # request[r].person

EmailKeys(e) == IF e = None THEN <<>> ELSE << <<"email", e>> >>

(* The tokens that issue's UPDATE spends first, as it sees them when it      *)
(* begins, in whatever order it scans them; then a share of the account's    *)
(* row for the new one.                                                      *)
PurposeOf(op) ==
  CASE op \in {"register", "login", "resend"} -> "login_code"
    [] op = "verify" -> "email_verify"
    [] op = "forgot" -> "password_reset"
Earlier(r) ==
  {c \in Id : /\ challenge[c].purpose = PurposeOf(request[r].op) /\ ~challenge[c].spent
              /\ challenge[c].account = request[r].account}
Issuing(r) ==
  {codes \o << <<"share", request[r].account>> >> : codes \in SetToSeqs({<<"token", c>> : c \in Earlier(r)})}

(* A request is answered, with a success or an error, and is forgotten.      *)
Ends(r) == request' = [request EXCEPT ![r] = [NoRequest EXCEPT !.pc = "answered"]]

-------------------------------------------------------------------------------
(* A request gets its first connection, reads, and knows what it has to      *)
(* write.  One that waits for that connection has done nothing yet, and one  *)
(* that gives up waiting never does: neither is in the model.                *)

(* Who can be signed in to an account: the owner of an identity linked to    *)
(* it, which nothing unlinks, and whoever chose its password and has once    *)
(* brought a code to it: from then on the browser is remembered.  Sessions   *)
(* end when someone else resets the password.                                *)
SignedIn(p) ==
  {a \in Id : \/ \E s \in Subject : identity[s] = a /\ OwnerOf[s] = p
              \/ user[a].password = p /\ p \in user[a].remembered}

Begins(r, q) ==
  /\ free > 0 /\ free' = free - 1
  /\ request' = [request EXCEPT ![r] = q]

Refuses(r) == free > 0 /\ Ends(r) /\ UNCHANGED free

register(r, p, e) ==
  /\ Begins(r, [NoRequest EXCEPT !.op = "register", !.pc = "run", !.person = p, !.account = r,
                                 !.address = e, !.todo = EmailKeys(e)])
  /\ UNCHANGED <<user, identity, challenge>>

(* The provider's claim counts only for this account's own address.          *)
Honours(e, proved, a) == proved /\ e = user[a].email

(* sign_in_with_provider: the account is found by the identity alone; if     *)
(* there is none a new one is made, with the address as far as it is known.  *)
(* A provider's claim that an address is verified is true; an address that   *)
(* it does not vouch for, or that the browser sent along, may be anyone's.   *)
sign_in_with_provider(r, s, e, proved) ==
  /\ proved => e # None /\ Inbox[e] = OwnerOf[s]
  /\ LET a == find_by_subject(s)
         q == [NoRequest EXCEPT !.op = "sign_in", !.pc = "run", !.person = OwnerOf[s], !.subject = s]
     IN Begins(r,
          IF a = NoId
          THEN [q EXCEPT !.account = r, !.address = e, !.proved = proved,
                         !.todo = EmailKeys(e) \o << <<"subject", s>> >>]
          ELSE [q EXCEPT !.account = a, !.proved = Honours(e, proved, a),
                         !.todo = IF Honours(e, proved, a) THEN << <<"account", a>> >> ELSE <<>>])
  /\ UNCHANGED <<user, identity, challenge>>

(* link_provider looks for both conflicts first; the unique indexes decide.  *)
(* The foreign key then takes a share of the account's row.                  *)
link_provider(r, a, s) ==
  /\ a \in SignedIn(OwnerOf[s])
  /\ LET todo == << <<"subject", s>>, <<"provider", <<a, ProviderOf[s]>>>>, <<"share", a>> >>
     IN IF \E i \in {1, 2} : Taken(r, todo[i]) THEN Refuses(r)
        ELSE Begins(r, [NoRequest EXCEPT !.op = "link", !.pc = "run", !.person = OwnerOf[s],
                                         !.account = a, !.subject = s, !.todo = todo])
  /\ UNCHANGED <<user, identity, challenge>>

(* request_email_verification begins its transaction and, with it open, asks *)
(* the rate limiter, which takes a connection of its own.                    *)
request_email_verification(r, p, a, e) ==
  /\ a \in SignedIn(p)
  /\ Begins(r, [NoRequest EXCEPT !.op = "verify", !.pc = "limit", !.person = p, !.account = a,
                                 !.address = e])
  /\ UNCHANGED <<user, identity, challenge>>

enforce(r) ==
  /\ request[r].pc = "limit" /\ free > 0
  /\ \E todo \in Issuing(r) : request' = [request EXCEPT ![r].pc = "run", ![r].todo = todo]
  /\ UNCHANGED <<user, identity, challenge, free>>

\* Mutant: the digest does not bind the address.
CodeOnly(c, p, e) == Inbox[challenge[c].address] = p
(* email_verify_hash: the digest matches if the code is the one that was     *)
(* sent and the address is the one it was sent to.                           *)
email_verify_hash(c, p, e) == Inbox[challenge[c].address] = p /\ challenge[c].address = e

(* confirm_email: a wrong code, or another account's, ends here.             *)
confirm_email(r, p, a, c, e) ==
  /\ challenge[c].purpose = "email_verify" /\ a \in SignedIn(p)
  /\ IF email_verify_hash(c, p, e) /\ challenge[c].account = a
     THEN Begins(r, [NoRequest EXCEPT !.op = "confirm", !.pc = "run", !.person = p, !.account = a,
                                      !.address = e, !.token = c, !.todo = << <<"token", c>> >>])
     ELSE Refuses(r)
  /\ UNCHANGED <<user, identity, challenge>>

(* login, from a browser that is not remembered: the password was verified   *)
(* with no connection held, and is looked at again under the row's lock.     *)
login(r, p, a) ==
  /\ user[a].password = p
  /\ Begins(r, [NoRequest EXCEPT !.op = "login", !.pc = "run", !.person = p, !.account = a,
                                 !.todo = << <<"credential", a>> >>])
  /\ UNCHANGED <<user, identity, challenge>>

(* verify_login_code: the code is spent in a statement of its own, and the   *)
(* address marked in the transaction that signs the person in.               *)
verify_login_code(r, p, c) ==
  /\ challenge[c].purpose = "login_code" /\ challenge[c].asker = p
  /\ IF Inbox[challenge[c].address] = p
     THEN Begins(r, [NoRequest EXCEPT !.op = "code", !.pc = "run", !.person = p,
                                      !.account = challenge[c].account, !.token = c,
                                      !.todo = << <<"token", c>> >>])
     ELSE Refuses(r)
  /\ UNCHANGED <<user, identity, challenge>>

(* A request reads on a connection it gives back, and pauses.                *)
Pauses(r, q) ==
  /\ free > 0
  /\ request' = [request EXCEPT ![r] = q]
  /\ UNCHANGED <<user, identity, challenge, free>>

(* resend_login_code: the code is looked at, and so is the account's address *)
(* that the next one goes to.                                                *)
resend_login_code(r, p, c) ==
  LET a == challenge[c].account
  IN /\ challenge[c].purpose = "login_code" /\ challenge[c].asker = p
     /\ IF challenge[c].spent THEN Refuses(r) /\ UNCHANGED <<user, identity, challenge>>
        ELSE Pauses(r, [NoRequest EXCEPT !.op = "resend", !.pc = "pause", !.person = p,
                                         !.account = a, !.address = user[a].email])

(* request_password_reset, by anyone, for an address that an account has.    *)
request_password_reset(r, e) ==
  \E a \in Id : /\ user[a].email = e
               /\ Pauses(r, [NoRequest EXCEPT !.op = "forgot", !.pc = "pause", !.account = a, !.address = e])

(* confirm_password_reset, by whoever reads the inbox the link went to: the  *)
(* link is looked at, and the new password hashed with no connection held.   *)
confirm_password_reset(r, c) ==
  /\ challenge[c].purpose = "password_reset"
  /\ IF challenge[c].spent THEN Refuses(r) /\ UNCHANGED <<user, identity, challenge>>
     ELSE Pauses(r, [NoRequest EXCEPT !.op = "reset", !.pc = "pause", !.person = Inbox[challenge[c].address],
                                      !.account = challenge[c].account, !.token = c])

(* The transaction of a request that paused.  A reset spends the link, sets  *)
(* the password and marks the address; the share of the account's row that a *)
(* first credential takes is taken with the row.                             *)
Resume(r) ==
  /\ request[r].pc = "pause" /\ free > 0 /\ free' = free - 1
  /\ LET a == request[r].account
         plan == CASE request[r].op \in {"resend", "forgot"} -> Issuing(r)
                   [] request[r].op = "reset" ->
                        {<< <<"token", request[r].token>>, <<"credential", a>>, <<"account", a>> >>}
                   [] request[r].op = "code" -> {<< <<"account", a>> >>}
     IN \E todo \in plan : request' = [request EXCEPT ![r].pc = "run", ![r].todo = todo]
  /\ UNCHANGED <<user, identity, challenge>>

-------------------------------------------------------------------------------
(* A request takes its keys one by one, and commits.                         *)

(* Once the code is spent confirm_email reads the account: for the address   *)
(* it has already it only marks it, another one replaces it.                 *)
AfterSpending(r) ==
  LET a == request[r].account
  IN IF user[a].email = request[r].address THEN << <<"account", a>> >>
     ELSE << <<"rekey", a>> >> \o EmailKeys(user[a].email) \o EmailKeys(request[r].address)

(* What a request has to take once it has the next key.                      *)
Left(r) ==
  LET key == Head(request[r].todo)
  IN CASE request[r].op = "confirm" /\ key[1] = "token" -> {AfterSpending(r)}
       [] request[r].op = "login" /\ key[1] = "credential" -> Issuing(r)
       [] OTHER -> {Tail(request[r].todo)}

Spends(r) == request[r].op = "code" /\ Head(request[r].todo)[1] = "token"

Take(r) ==
  /\ request[r].pc = "run" /\ request[r].todo # <<>>
  /\ Holder(r, Head(request[r].todo)) = {} /\ ~Taken(r, Head(request[r].todo)) /\ ~Spends(r)
  /\ \E left \in Left(r) :
       request' = [request EXCEPT ![r].held = @ \cup {Head(request[r].todo)}, ![r].todo = left]
  /\ UNCHANGED <<user, identity, challenge, free>>

(* verify_code as a statement of its own: the code is spent whatever comes   *)
(* of the rest.                                                              *)
verify_code(r) ==
  /\ request[r].pc = "run" /\ request[r].todo # <<>>
  /\ Holder(r, Head(request[r].todo)) = {} /\ ~Taken(r, Head(request[r].todo)) /\ Spends(r)
  /\ challenge' = [challenge EXCEPT ![request[r].token].spent = TRUE]
  /\ request' = [request EXCEPT ![r].pc = "pause", ![r].todo = <<>>]
  /\ free' = free + 1
  /\ UNCHANGED <<user, identity>>

Refused(r) ==
  /\ request[r].pc = "run" /\ request[r].todo # <<>>
  /\ Holder(r, Head(request[r].todo)) = {} /\ Taken(r, Head(request[r].todo))
  /\ Ends(r) /\ free' = free + 1
  /\ UNCHANGED <<user, identity, challenge>>

insert(r) ==
  LET q == request[r]
  IN NewUser(q.address, IF q.op = "sign_in" /\ q.proved THEN q.person ELSE None,
             IF q.op = "register" THEN q.person ELSE None, {})

(* What each UPDATE makes of an account: the first proof of its address      *)
(* wins, unless the address is replaced by one that was proved.              *)
mark_email_verified(u, p) == IF u.verified THEN u ELSE [u EXCEPT !.verified = TRUE, !.prover = p]
update_email(u, e, p) == [u EXCEPT !.email = e, !.verified = TRUE, !.prover = p]

(* The codes that were taken are spent; one that was issued meanwhile is not.*)
issue(r) ==
  [c \in Id |-> IF c = r THEN [purpose |-> PurposeOf(request[r].op), account |-> request[r].account,
                               address |-> IF request[r].op = "login" THEN user[request[r].account].email
                                           ELSE request[r].address,
                               asker |-> request[r].person, spent |-> FALSE]
                ELSE IF <<"token", c>> \in request[r].held THEN [challenge[c] EXCEPT !.spent = TRUE]
                ELSE challenge[c]]

(* What a request leaves of its account.                                     *)
Account(r) ==
  LET q == request[r]
      u == user[q.account]
  IN CASE q.account = r -> insert(r)
       [] q.op = "sign_in" /\ q.account # r /\ q.proved -> mark_email_verified(u, q.person)
       [] q.op = "code" -> [mark_email_verified(u, q.person) EXCEPT !.remembered = @ \cup {q.person}]
       [] q.op = "reset" -> [mark_email_verified(u, q.person) EXCEPT !.password = q.person]
       [] q.op = "confirm" /\ <<"email", q.address>> \notin q.held -> mark_email_verified(u, q.person)
       [] q.op = "confirm" /\ <<"email", q.address>> \in q.held -> update_email(u, q.address, q.person)
       [] OTHER -> u

Commit(r) ==
  /\ request[r].pc = "run" /\ request[r].todo = <<>>
  /\ user' = [user EXCEPT ![request[r].account] = Account(r)]
  /\ identity' = IF <<"subject", request[r].subject>> \in request[r].held
                 THEN [identity EXCEPT ![request[r].subject] = request[r].account] ELSE identity
  /\ challenge' = CASE request[r].op \in {"register", "login", "resend", "verify", "forgot"} -> issue(r)
                    [] request[r].op \in {"confirm", "reset"} -> [challenge EXCEPT ![request[r].token].spent = TRUE]
                    [] OTHER -> challenge
  /\ Ends(r)
  /\ free' = free + 1

-------------------------------------------------------------------------------
(* What goes wrong.                                                          *)

Connections(r) == IF request[r].pc \in {"limit", "run"} THEN 1 ELSE 0

\* Mutant: the wait for a second connection has no end.
TimeoutNever(r) == FALSE /\ UNCHANGED vars
(* acquire_timeout: the next connection did not come in time.                *)
Timeout(r) ==
  /\ request[r].pc \in {"limit", "pause"} /\ free = 0
  /\ Ends(r) /\ free' = free + Connections(r)
  /\ UNCHANGED <<user, identity, challenge>>

\* Mutant: the new account is committed before its identity is written.
DropHalf(r) ==
  /\ request[r].pc \in {"limit", "pause", "run"}
  /\ Ends(r) /\ free' = free + Connections(r)
  /\ user' = IF request[r].op = "sign_in" /\ <<"email", request[r].address>> \in request[r].held
             THEN [user EXCEPT ![r] = insert(r)] ELSE user
  /\ UNCHANGED <<identity, challenge>>
(* The client goes away, the server dies or a statement fails: the           *)
(* transaction is rolled back.                                               *)
Drop(r) ==
  /\ request[r].pc \in {"limit", "pause", "run"}
  /\ Ends(r) /\ free' = free + Connections(r)
  /\ UNCHANGED <<user, identity, challenge>>

(* PostgreSQL ends one of a ring of transactions that wait for each other.   *)
Waits(r, q) ==
  /\ request[r].pc = "run" /\ request[r].todo # <<>>
  /\ q \in Holder(r, Head(request[r].todo))
DeadlockVictim(r) ==
  /\ Drop(r)
  /\ \E ring \in SUBSET Request :
       r \in ring /\ \A q \in ring : (\E t \in ring : Waits(q, t)) /\ (\E t \in ring : Waits(t, q))

Step(r) == enforce(r) \/ Resume(r) \/ Take(r) \/ verify_code(r) \/ Refused(r) \/ Commit(r)

Arrival(r) ==
  /\ \A q \in Request : request[q].pc = "idle" <=> q >= r
  /\ \/ \E p \in Person, e \in Address : register(r, p, e)
     \/ \E s \in Subject, e \in Address \cup {None}, proved \in BOOLEAN : sign_in_with_provider(r, s, e, proved)
     \/ \E a \in Id, s \in Subject : link_provider(r, a, s)
     \/ \E p \in Person, a \in Id, e \in Address : request_email_verification(r, p, a, e)
     \/ \E p \in Person, a, c \in Id, e \in Address : confirm_email(r, p, a, c, e)
     \/ \E p \in Person, a \in Id : login(r, p, a)
     \/ \E p \in Person, c \in Id : verify_login_code(r, p, c)
     \/ \E p \in Person, c \in Id : resend_login_code(r, p, c)
     \/ \E e \in Address : request_password_reset(r, e)
     \/ \E c \in Id : confirm_password_reset(r, c)

Next == \E r \in Request : Arrival(r) \/ Step(r) \/ Timeout(r) \/ Drop(r)

Spec == Init /\ [][Next]_vars

(* A request that can go on does, and if it cannot, its wait for a           *)
(* connection or in a ring of transactions ends.                             *)
FairSpec == Spec /\ \A r \in Request : WF_vars(Step(r) \/ Timeout(r) \/ DeadlockVictim(r))

-------------------------------------------------------------------------------
(* Properties                                                                *)

(* "Nothing ever un-verifies an address", and nothing verifies one "nobody   *)
(* proved": an account's address is verified only by a person who reads that *)
(* inbox, whichever of the codes, the reset links, the provider's claims and *)
(* a change of address came first (confirm_email, verify_login_code,         *)
(* sign_in_with_provider, confirm_password_reset, email_verify_hash).        *)
VerifiedWasProved ==
  \A a \in Id : user[a].verified => user[a].email # None /\ Inbox[user[a].email] = user[a].prover

(* Every account has a way in, a password or an identity, whichever of two   *)
(* first arrivals lost the race for the identity, and wherever a request     *)
(* died (register, sign_in_with_provider, oauth::insert).                    *)
EveryAccountReachable ==
  \A a \in Id : user[a].made => user[a].password # None \/ \E s \in Subject : identity[s] = a

(* "At most one is ever live per (user, purpose)": an account has one open   *)
(* code to prove an address with (auth_tokens::issue).                       *)
OneLiveCode ==
  \A c, d \in Id :
    /\ challenge[c].purpose = "email_verify" /\ challenge[d].purpose = "email_verify"
    /\ challenge[c].account = challenge[d].account
    /\ ~challenge[c].spent /\ ~challenge[d].spent
    => c = d

(* Every request that arrived is answered, though one may hold a connection  *)
(* while it waits for another and several may wait for each other's keys     *)
(* (enforce, acquire_timeout).                                               *)
EveryRequestAnswered ==
  \A r \in Request : []<>(request[r].pc \in {"idle", "answered"})
===============================================================================
