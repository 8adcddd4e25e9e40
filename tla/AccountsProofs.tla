----------------------------- MODULE AccountsProofs -----------------------------
(* Proofs about Accounts, for any people, addresses, identities, requests    *)
(* and size of the pool.                                                     *)
EXTENDS Accounts, FiniteSetTheorems, FunctionTheorems, TLAPS

(* Requests with a connection, and the codes there are.                      *)
Open == {r \in Request : request[r].pc \in {"limit", "run"}}
Issued == {c \in Id : challenge[c].purpose # "none"}

Pool == IsFiniteSet(Open) /\ free + Cardinality(Open) = PoolSize

(* A person reads the mail of an address, and may mark the account: it is    *)
(* verified already, or that person reads the mail of its address.           *)
Reads(e, p) == e \in Address /\ Inbox[e] = p
MayMark(a, p) == user[a].verified \/ Reads(user[a].email, p)

(* An address that nobody proved does not change: what was sent to it was    *)
(* sent to the account's.                                                    *)
Went(a, e) == user[a].verified \/ user[a].email = e

(* What a request has taken or has still to take.                            *)
Listed(q, key) == \E i \in 1 .. Len(q.todo) : q.todo[i] = key
Claims(q, key) == key \in q.held \/ Listed(q, key)

(* What r may be at, given the accounts: which of them it is about, and, for *)
(* one that will mark or change an address, that its person reads it.        *)
Fits(r, q) ==
  /\ q.pc \in {"idle", "answered"} => q.held = {}
  /\ q.pc = "limit" => q.op = "verify"
  /\ q.pc = "pause" => q.op \in {"resend", "forgot", "reset", "code"}
  /\ q.pc \in {"limit", "pause", "run"} =>
       /\ q.op # "none" /\ q.account \in Id
       /\ q.op # "forgot" => q.person \in Person
       /\ IF q.account = r THEN q.op \in {"register", "sign_in"} ELSE user[q.account].made /\ q.op # "register"
       /\ q.op = "register" => q.address \in Address
       /\ q.op \in {"sign_in", "link"} => q.subject \in Subject
       /\ q.op \notin {"sign_in", "link"} => q.subject = None
       /\ q.op = "sign_in" /\ q.account = r =>
            /\ Claims(q, <<"subject", q.subject>>)
            /\ q.proved => Reads(q.address, q.person)
       /\ q.op = "sign_in" /\ q.account # r /\ q.proved => MayMark(q.account, q.person)
       /\ q.op \in {"code", "reset"} => q.token \in Id /\ MayMark(q.account, q.person)
       /\ q.op = "login" => user[q.account].email \in Address
       /\ q.op = "verify" => q.address \in Address
       /\ q.op \in {"resend", "forgot"} => q.address \in Address /\ Went(q.account, q.address)
       /\ q.op = "confirm" =>
            /\ q.token \in Id /\ Reads(q.address, q.person)
            /\ \/ Listed(q, <<"token", q.token>>) \/ MayMark(q.account, q.person)
               \/ Claims(q, <<"email", q.address>>)

(* What is so of one row: a verified address was proved by its reader, and   *)
(* a password goes with an address.                                          *)
Sound(u) ==
  /\ u \in UserRow
  /\ u.verified => Reads(u.email, u.prover)
  /\ u.password # None => u.email \in Address

(* An account that is not there has nothing, and a request makes its own     *)
(* only as it ends.                                                          *)
Rows ==
  /\ \A a \in Id : Sound(user[a]) /\ (~ user[a].made => user[a] = NoUser)
  /\ \A r \in Request : request[r].pc # "answered" => user[r] = NoUser

(* An identity is linked to an account that is there, and one that is being  *)
(* linked is nobody else's.                                                  *)
Identities ==
  /\ \A s \in Subject : identity[s] # NoId => user[identity[s]].made
  /\ \A r \in Request, s \in Subject : <<"subject", s>> \in request[r].held =>
       /\ identity[s] = NoId
       /\ \A q \in Request \ {r} : <<"subject", s>> \notin request[q].held

(* A code to sign in with, or a reset link, went to the account's address,   *)
(* unless the account has proved another one since.                          *)
CodeFits(c) ==
  /\ c.account \in Id /\ user[c.account].made /\ c.address \in Address
  /\ c.purpose \in {"login_code", "password_reset"} => Went(c.account, c.address)
Codes == IsFiniteSet(Issued) /\ \A c \in Issued : CodeFits(challenge[c])

IInv ==
  /\ TypeOK /\ Pool /\ Rows /\ Identities /\ Codes
  /\ \A r \in Request : Fits(r, request[r])
  /\ EveryAccountReachable

-------------------------------------------------------------------------------
(* Facts about names, keys and sequences.                                    *)

(* A person is not NULL, and no account has the number of none.              *)
LEMMA Numbers ==
  /\ None \notin Person /\ None \notin Address /\ None \notin Subject
  /\ NoId \notin Id /\ 0 \in Id /\ 0 \notin Request
  /\ \A r \in Request : r \in Id
  /\ \A s \in Subject : OwnerOf[s] \in Person
  BY RequestAssumption, NoneAssumption, WorldAssumption DEF NoId, Id

(* What a request may have to take.                                          *)
LEMMA Keys ==
  /\ \A e \in Address : <<"email", e>> \in Key
  /\ \A s \in Subject : <<"subject", s>> \in Key
  /\ \A a \in Id : <<"account", a>> \in Key /\ <<"share", a>> \in Key /\ <<"rekey", a>> \in Key
                 /\ <<"token", a>> \in Key /\ <<"credential", a>> \in Key
  /\ \A a \in Id, s \in Subject : <<"provider", <<a, ProviderOf[s]>>>> \in Key
  BY DEF Key

LEMMA EmailKeysType ==
  ASSUME NEW e \in Address \cup {None}
  PROVE  /\ EmailKeys(e) \in Seq(Key)
         /\ e # None => Len(EmailKeys(e)) = 1 /\ EmailKeys(e)[1] = <<"email", e>>
  BY Keys, Numbers DEF EmailKeys

(* A list of keys written out.                                               *)
LEMMA ShortLists ==
  /\ \A k \in Key : <<k>> \in Seq(Key) /\ Len(<<k>>) = 1 /\ <<k>>[1] = k
  /\ \A k, l, m \in Key : <<k, l, m>> \in Seq(Key)
  /\ <<>> \in Seq(Key)
  OBVIOUS

(* Taking the first of a list leaves the others in it.                       *)
LEMMA TakeFirst ==
  ASSUME NEW S, NEW s \in Seq(S), s # <<>>, NEW key
  PROVE  /\ Head(s) \in S /\ Tail(s) \in Seq(S)
         /\ (\E i \in 1 .. Len(s) : s[i] = key) =>
              key = Head(s) \/ \E i \in 1 .. Len(Tail(s)) : Tail(s)[i] = key
<1>1. Head(s) = s[1] /\ Head(s) \in S /\ Tail(s) \in Seq(S) /\ Len(Tail(s)) = Len(s) - 1
      /\ Len(s) \in Nat \ {0}
  OBVIOUS
<1>2. \A i \in 1 .. Len(s) - 1 : Tail(s)[i] = s[i + 1]
  OBVIOUS
<1>3. ASSUME NEW i \in 1 .. Len(s), s[i] = key, i # 1
      PROVE  \E j \in 1 .. Len(Tail(s)) : Tail(s)[j] = key
  <2>1. i - 1 \in 1 .. Len(s) - 1 /\ (i - 1) + 1 = i
    BY <1>1, <1>3
  <2> QED
    BY <1>1, <1>2, <1>3, <2>1
<1> QED
  BY <1>1, <1>3

(* A list of two parts has both.                                             *)
LEMMA Parts ==
  ASSUME NEW S, NEW s \in Seq(S), NEW t \in Seq(S)
  PROVE  /\ s \o t \in Seq(S)
         /\ \A i \in 1 .. Len(t) : \E j \in 1 .. Len(s \o t) : (s \o t)[j] = t[i]
<1>1. s \o t \in Seq(S) /\ Len(s \o t) = Len(s) + Len(t) /\ Len(s) \in Nat /\ Len(t) \in Nat
  OBVIOUS
<1>2. ASSUME NEW i \in 1 .. Len(t)
      PROVE  \E j \in 1 .. Len(s \o t) : (s \o t)[j] = t[i]
  <2>1. Len(s) + i \in 1 .. Len(s \o t) /\ (s \o t)[Len(s) + i] = t[i]
    BY <1>1
  <2> QED
    BY <2>1
<1> QED
  BY <1>1, <1>2

(* A request that begins with its fields is one.                             *)
LEMMA NoRequestType == NoRequest \in RequestState
  BY DEF NoRequest, RequestState

-------------------------------------------------------------------------------
(* The initial states: nobody has begun, and there is no account, or one.    *)
LEMMA StartInvariant ==
  ASSUME request = [r \in Request |-> NoRequest], free = PoolSize,
         NEW u, NEW c \in Token, NEW linked \in Subject \cup {None},
         There(u, c, linked), Sound(u), u.made \/ u = NoUser,
         linked # None => u.made,
         u.made => u.password # None \/ linked # None,
         c.purpose # "none" =>
           /\ c.account = 0 /\ u.made /\ c.address \in Address
           /\ c.purpose \in {"login_code", "password_reset"} => u.email = c.address
  PROVE  IInv
<1>1. NoUser \in UserRow /\ Sound(NoUser) /\ ~ NoUser.made
  BY DEF NoUser, UserRow, Sound
<1>2. NoToken \in Token /\ NoToken.purpose = "none"
  BY DEF NoToken, Token
<1>3. u \in UserRow /\ PoolSize \in Nat
  BY PoolAssumption DEF Sound
<1>4. /\ \A a \in Id : user[a] = IF a = 0 THEN u ELSE NoUser
      /\ \A d \in Id : challenge[d] = IF d = 0 THEN c ELSE NoToken
      /\ \A s \in Subject : identity[s] = IF s = linked THEN 0 ELSE NoId
  BY DEF There
<1>5. \A r \in Request : request[r].pc = "idle" /\ request[r].held = {}
  BY DEF NoRequest
<1>6. TypeOK
  <2>1. user \in [Id -> UserRow] /\ challenge \in [Id -> Token]
    BY <1>1, <1>2, <1>3 DEF There
  <2>2. identity \in [Subject -> Id \cup {NoId}]
    BY Numbers DEF There
  <2> QED
    BY <1>3, <2>1, <2>2, NoRequestType DEF TypeOK
<1>7. Pool
  <2>1. Open = {}
    BY <1>5 DEF Open
  <2> QED
    BY <1>3, <2>1, FS_EmptySet DEF Pool
<1>8. Rows
  BY <1>1, <1>4, Numbers DEF Rows
<1>9. Identities
  BY <1>4, <1>5, Numbers DEF Identities
<1>10. Codes
  <2>1. Issued \subseteq {0}
    BY <1>2, <1>4 DEF Issued
  <2>2. IsFiniteSet(Issued)
    BY <2>1, FS_Singleton, FS_Subset
  <2>3. ASSUME NEW d \in Issued PROVE CodeFits(challenge[d])
    <3>1. d = 0 /\ challenge[d] = c /\ c.purpose # "none" /\ user[0] = u
      BY <1>4, <2>1, Numbers DEF Issued
    <3> QED
      BY <3>1, Numbers DEF CodeFits, Went
  <2> QED
    BY <2>2, <2>3 DEF Codes
<1>11. \A r \in Request : Fits(r, request[r])
  BY <1>5 DEF Fits
<1>12. EveryAccountReachable
  <2> SUFFICES ASSUME NEW a \in Id, user[a].made, user[a].password = None
               PROVE  \E s \in Subject : identity[s] = a
    BY DEF EveryAccountReachable
  <2>1. a = 0 /\ user[a] = u
    BY <1>1, <1>4
  <2>2. linked \in Subject
    BY <2>1
  <2> QED
    BY <1>4, <2>1, <2>2
<1> QED
  BY <1>6, <1>7, <1>8, <1>9, <1>10, <1>11, <1>12 DEF IInv

LEMMA NewUserSound ==
  ASSUME NEW e \in Address \cup {None}, NEW prover \in Person \cup {None},
         NEW password \in Person \cup {None}, NEW remembered \in SUBSET Person,
         prover # None => Reads(e, prover), password # None => e \in Address,
         NEW u, u = NewUser(e, prover, password, remembered)
  PROVE  /\ Sound(u) /\ u.made /\ u.email = e /\ u.password = password
         /\ u.verified <=> prover # None
<1>1. (prover # None) \in BOOLEAN
  OBVIOUS
<1>2. PICK v \in BOOLEAN : v = (prover # None)
  BY <1>1
<1>3. u = [made |-> TRUE, email |-> e, verified |-> v, prover |-> prover, password |-> password,
           remembered |-> remembered]
  BY <1>2 DEF NewUser
<1>4. /\ u \in UserRow /\ u.made /\ u.email = e /\ u.password = password /\ u.verified = v
      /\ u.prover = prover
  BY <1>3 DEF UserRow
<1> QED
  BY <1>2, <1>4 DEF Sound

LEMMA InitInvariant == Init => IInv
<1> SUFFICES ASSUME Init PROVE IInv
  OBVIOUS
<1>1. request = [r \in Request |-> NoRequest] /\ free = PoolSize
  BY DEF Init
<1>2. /\ NoUser \in UserRow /\ Sound(NoUser) /\ ~ NoUser.made
      /\ NoToken \in Token /\ NoToken.purpose = "none"
  BY DEF NoUser, UserRow, Sound, NoToken, Token
<1>3. CASE There(NoUser, NoToken, None)
  BY <1>1, <1>2, <1>3, StartInvariant
<1>6. ASSUME NEW purpose \in {"login_code", "email_verify", "password_reset"}, NEW e \in Address,
             NEW p \in Person \cup {None}
      PROVE  /\ Sent(purpose, e, p) \in Token /\ Sent(purpose, e, p).account = 0
             /\ Sent(purpose, e, p).address = e /\ Sent(purpose, e, p).purpose = purpose
  BY Numbers DEF Sent, Token
<1>7. ASSUME NEW p \in Person, NEW email \in Address \cup {None}, NEW c \in Underway(p, email)
      PROVE  /\ c \in Token
             /\ c.purpose # "none" => c.account = 0 /\ c.address \in Address
             /\ c.purpose \in {"login_code", "password_reset"} => email = c.address
  BY <1>2, <1>6 DEF Underway
<1>8. ASSUME NEW p \in First, NEW e \in Address, There(NewUser(e, None, p, {}), Sent("login_code", e, p), None)
      PROVE  IInv
  <2>1. p \in Person /\ p # None
    BY Numbers, WorldAssumption
  <2>2. PICK u : u = NewUser(e, None, p, {})
    OBVIOUS
  <2>3. Sound(u) /\ u.made /\ u.email = e /\ u.password = p
    BY <2>1, <2>2, NewUserSound
  <2>4. PICK c : c = Sent("login_code", e, p)
    OBVIOUS
  <2>5. c \in Token /\ c.account = 0 /\ c.address = e /\ c.purpose = "login_code"
    BY <1>6, <2>1, <2>4
  <2> QED
    BY <1>1, <1>8, <2>1, <2>2, <2>3, <2>4, <2>5, StartInvariant
<1>9. ASSUME NEW p \in First, NEW e \in Address, Inbox[e] = p, NEW c \in Underway(p, e),
             There(NewUser(e, p, p, {p}), c, None)
      PROVE  IInv
  <2>1. p \in Person /\ p # None
    BY Numbers, WorldAssumption
  <2>2. /\ c \in Token
        /\ c.purpose # "none" => c.account = 0 /\ c.address \in Address
        /\ c.purpose \in {"login_code", "password_reset"} => e = c.address
    BY <1>7, <2>1
  <2>3. PICK u : u = NewUser(e, p, p, {p})
    OBVIOUS
  <2>4. Sound(u) /\ u.made /\ u.email = e /\ u.password = p
    BY <1>9, <2>1, <2>3, NewUserSound DEF Reads
  <2> QED
    BY <1>1, <1>9, <2>1, <2>2, <2>3, <2>4, StartInvariant
<1>10. ASSUME NEW s \in Subject, NEW e \in Address \cup {None}, NEW c \in Underway(OwnerOf[s], e),
              There(NewUser(e, None, None, {}), c, s)
       PROVE  IInv
  <2>1. OwnerOf[s] \in Person /\ s # None
    BY Numbers
  <2>2. /\ c \in Token
        /\ c.purpose # "none" => c.account = 0 /\ c.address \in Address
        /\ c.purpose \in {"login_code", "password_reset"} => e = c.address
    BY <1>7, <2>1
  <2>3. PICK u : u = NewUser(e, None, None, {})
    OBVIOUS
  <2>4. Sound(u) /\ u.made /\ u.email = e
    BY <2>3, NewUserSound
  <2> QED
    BY <1>1, <1>10, <2>1, <2>2, <2>3, <2>4, StartInvariant
<1> QED
  BY <1>3, <1>8, <1>9, <1>10 DEF Init

-------------------------------------------------------------------------------
(* The pool.                                                                 *)

(* A connection is taken by a request that had none.                         *)
LEMMA PoolTaken ==
  ASSUME IInv, NEW r \in Request, NEW q, request' = [request EXCEPT ![r] = q],
         r \notin Open, q.pc \in {"limit", "run"}, free > 0, free' = free - 1
  PROVE  Pool' /\ free' \in 0 .. PoolSize
<1>1. Open' = Open \cup {r}
  BY DEF Open, IInv, TypeOK
<1>2. /\ IsFiniteSet(Open \cup {r}) /\ Cardinality(Open \cup {r}) = Cardinality(Open) + 1
      /\ Cardinality(Open) \in Nat
  BY FS_AddElement, FS_CardinalityType DEF IInv, Pool
<1> QED
  BY <1>1, <1>2, PoolAssumption DEF IInv, Pool, TypeOK

(* And given back by one that had one.                                       *)
LEMMA PoolReturned ==
  ASSUME IInv, NEW r \in Request, NEW q, request' = [request EXCEPT ![r] = q],
         r \in Open, q.pc \notin {"limit", "run"}, free' = free + 1
  PROVE  Pool' /\ free' \in 0 .. PoolSize
<1>1. Open' = Open \ {r}
  BY DEF Open, IInv, TypeOK
<1>2. /\ IsFiniteSet(Open \ {r}) /\ Cardinality(Open \ {r}) = Cardinality(Open) - 1
      /\ Cardinality(Open \ {r}) \in Nat /\ Cardinality(Open) \in Nat
  BY FS_RemoveElement, FS_CardinalityType DEF IInv, Pool
<1> QED
  BY <1>1, <1>2, PoolAssumption DEF IInv, Pool, TypeOK

(* Or kept.                                                                  *)
LEMMA PoolKept ==
  ASSUME IInv, NEW r \in Request, NEW q, request' = [request EXCEPT ![r] = q],
         r \in Open <=> q.pc \in {"limit", "run"}, free' = free
  PROVE  Pool' /\ free' \in 0 .. PoolSize
<1>1. Open' = Open
  BY DEF Open, IInv, TypeOK
<1> QED
  BY <1>1 DEF IInv, Pool, TypeOK

-------------------------------------------------------------------------------
(* Steps that leave the accounts and the identities as they are.             *)

(* At most, a code is spent.                                                 *)
OnlySpends ==
  /\ challenge' \in [Id -> Token]
  /\ \A c \in Id : /\ challenge'[c].purpose = challenge[c].purpose
                  /\ challenge'[c].account = challenge[c].account
                  /\ challenge'[c].address = challenge[c].address

LEMMA RequestMoves ==
  ASSUME IInv, NEW r \in Request, NEW q \in RequestState, request' = [request EXCEPT ![r] = q],
         UNCHANGED <<user, identity>>, OnlySpends, Pool' /\ free' \in 0 .. PoolSize,
         Fits(r, q), request[r].pc # "answered",
         \A s \in Subject : <<"subject", s>> \in q.held =>
           /\ identity[s] = NoId
           /\ \A p \in Request \ {r} : <<"subject", s>> \notin request[p].held
  PROVE  IInv'
<1>1. \A p \in Request : request'[p] = IF p = r THEN q ELSE request[p]
  BY DEF IInv, TypeOK
<1>2. TypeOK'
  BY DEF IInv, TypeOK, OnlySpends
<1>3. Rows'
  BY <1>1 DEF IInv, Rows
<1>4. Identities'
  <2>1. \A s \in Subject : identity'[s] # NoId => user'[identity'[s]].made
    BY DEF IInv, Identities
  <2>2. ASSUME NEW p \in Request, NEW s \in Subject, <<"subject", s>> \in request'[p].held
        PROVE  /\ identity'[s] = NoId
               /\ \A k \in Request \ {p} : <<"subject", s>> \notin request'[k].held
    <3>1. CASE p = r
      BY <1>1, <2>2, <3>1
    <3>2. CASE p # r
      <4>1. /\ identity[s] = NoId
            /\ \A k \in Request \ {p} : <<"subject", s>> \notin request[k].held
        BY <1>1, <2>2, <3>2 DEF IInv, Identities
      <4>2. <<"subject", s>> \notin q.held
        BY <1>1, <2>2, <3>2
      <4> QED
        BY <1>1, <4>1, <4>2
    <3> QED
      BY <3>1, <3>2
  <2> QED
    BY <2>1, <2>2 DEF Identities
<1>5. Codes'
  <2>1. Issued' = Issued /\ Issued \subseteq Id
    BY DEF Issued, OnlySpends
  <2>2. ASSUME NEW c \in Issued PROVE CodeFits(challenge[c])'
    <3>1. CodeFits(challenge[c]) /\ c \in Id
      BY <2>1 DEF IInv, Codes
    <3> QED
      BY <3>1 DEF CodeFits, Went, OnlySpends
  <2> QED
    BY <2>1, <2>2 DEF IInv, Codes
<1>6. \A p \in Request : Fits(p, request[p])'
  <2> SUFFICES ASSUME NEW p \in Request PROVE Fits(p, request[p])'
    OBVIOUS
  <2>1. Fits(p, request'[p])
    BY <1>1 DEF IInv
  <2> QED
    BY <2>1 DEF Fits, MayMark, Went, Reads, Claims, Listed
<1>7. EveryAccountReachable'
  BY DEF IInv, EveryAccountReachable
<1> QED
  BY <1>2, <1>3, <1>4, <1>5, <1>6, <1>7 DEF IInv

(* A request that is answered with nothing done.                             *)
LEMMA EndsUndone ==
  ASSUME IInv, NEW r \in Request, Ends(r), UNCHANGED <<user, identity, challenge>>,
         request[r].pc # "answered",
         \/ r \in Open /\ free' = free + 1
         \/ r \notin Open /\ free' = free
  PROVE  IInv'
<1>1. PICK q : q = [NoRequest EXCEPT !.pc = "answered"]
  OBVIOUS
<1>2. q \in RequestState /\ q.pc = "answered" /\ q.held = {}
  BY <1>1, NoRequestType DEF RequestState, NoRequest
<1>3. request' = [request EXCEPT ![r] = q]
  BY <1>1 DEF Ends
<1>4. Pool' /\ free' \in 0 .. PoolSize
  BY <1>2, <1>3, PoolReturned, PoolKept
<1>5. Fits(r, q)
  BY <1>2 DEF Fits
<1>6. OnlySpends
  BY DEF OnlySpends, IInv, TypeOK
<1> QED
  BY <1>2, <1>3, <1>4, <1>5, <1>6, RequestMoves

(* A request that begins holds nothing yet.                                  *)
LEMMA BeginsFitting ==
  ASSUME IInv, NEW r \in Request, request[r].pc \in {"idle", "pause"}, NEW q \in RequestState,
         Begins(r, q), q.pc \in {"limit", "run"}, q.held = {}, Fits(r, q),
         UNCHANGED <<user, identity, challenge>>
  PROVE  IInv'
<1>1. r \notin Open
  BY DEF Open
<1>2. Pool' /\ free' \in 0 .. PoolSize
  BY <1>1, PoolTaken DEF Begins
<1>3. OnlySpends
  BY DEF OnlySpends, IInv, TypeOK
<1> QED
  BY <1>2, <1>3, RequestMoves DEF Begins

(* Nor does one that has read and given its connection back.                 *)
LEMMA PausesFitting ==
  ASSUME IInv, NEW r \in Request, request[r].pc = "idle", NEW q \in RequestState,
         Pauses(r, q), q.pc = "pause", q.held = {}, Fits(r, q)
  PROVE  IInv'
<1>1. r \notin Open
  BY DEF Open
<1>2. Pool' /\ free' \in 0 .. PoolSize
  BY <1>1, PoolKept DEF Pauses
<1>3. OnlySpends
  BY DEF Pauses, OnlySpends, IInv, TypeOK
<1> QED
  BY <1>2, <1>3, RequestMoves DEF Pauses

-------------------------------------------------------------------------------
(* Arrivals.                                                                 *)

(* A request that arrives has no account of its number yet, and whoever is   *)
(* signed in is so to an account that is there.                              *)
LEMMA Arriving ==
  ASSUME IInv, NEW r \in Request, request[r].pc = "idle"
  PROVE  /\ ~ user[r].made /\ user[r].password = None /\ r \in Id
         /\ \A p \in Person : \A a \in SignedIn(p) : user[a].made /\ a # r
         /\ \A a \in Id : user[a].password # None \/ user[a].email # None => user[a].made
<1>1. user[r] = NoUser /\ r \in Id
  BY Numbers DEF IInv, Rows
<1>2. \A a \in Id : ~ user[a].made => user[a].password = None /\ user[a].email = None
  BY DEF IInv, Rows, NoUser
<1>3. ~ user[r].made /\ user[r].password = None
  BY <1>1 DEF NoUser
<1>4. ASSUME NEW p \in Person, NEW a \in SignedIn(p) PROVE user[a].made
  <2>1. CASE \E s \in Subject : identity[s] = a /\ OwnerOf[s] = p
    <3>1. a \in Id
      BY DEF SignedIn
    <3> QED
      BY <2>1, <3>1, Numbers DEF IInv, Identities
  <2>2. CASE user[a].password = p
    BY <1>2, <2>2, Numbers DEF SignedIn
  <2> QED
    BY <2>1, <2>2 DEF SignedIn
<1> QED
  BY <1>1, <1>2, <1>3, <1>4

LEMMA RegisterKeeps ==
  ASSUME IInv, NEW r \in Request, request[r].pc = "idle", NEW p \in Person, NEW e \in Address,
         register(r, p, e)
  PROVE  IInv'
<1>1. PICK q : q = [NoRequest EXCEPT !.op = "register", !.pc = "run", !.person = p, !.account = r,
                                     !.address = e, !.todo = EmailKeys(e)]
  OBVIOUS
<1>2. EmailKeys(e) \in Seq(Key) /\ r \in Id
  BY EmailKeysType, Numbers
<1>3. /\ q \in RequestState /\ q.op = "register" /\ q.pc = "run" /\ q.person = p /\ q.account = r
      /\ q.address = e /\ q.subject = None /\ q.held = {}
  BY <1>1, <1>2 DEF NoRequest, RequestState
<1>4. Fits(r, q)
  BY <1>2, <1>3 DEF Fits
<1>5. Begins(r, q) /\ UNCHANGED <<user, identity, challenge>>
  BY <1>1 DEF register
<1> QED
  BY <1>3, <1>4, <1>5, BeginsFitting

LEMMA SignInKeeps ==
  ASSUME IInv, NEW r \in Request, request[r].pc = "idle", NEW s \in Subject,
         NEW e \in Address \cup {None}, NEW proved \in BOOLEAN, sign_in_with_provider(r, s, e, proved)
  PROVE  IInv'
<1>1. UNCHANGED <<user, identity, challenge>>
  BY DEF sign_in_with_provider
<1>2. OwnerOf[s] \in Person /\ r \in Id /\ (proved => e # None /\ Inbox[e] = OwnerOf[s])
  BY Numbers DEF sign_in_with_provider
<1>3. CASE identity[s] = NoId
  <2>1. PICK todo : todo = EmailKeys(e) \o << <<"subject", s>> >>
    OBVIOUS
  <2>2. EmailKeys(e) \in Seq(Key) /\ << <<"subject", s>> >> \in Seq(Key)
    BY EmailKeysType, Keys
  <2>3. todo \in Seq(Key) /\ \E i \in 1 .. Len(todo) : todo[i] = <<"subject", s>>
    <3>1. /\ EmailKeys(e) \o << <<"subject", s>> >> \in Seq(Key)
          /\ \A i \in 1 .. Len(<< <<"subject", s>> >>) :
               \E j \in 1 .. Len(EmailKeys(e) \o << <<"subject", s>> >>) :
                 (EmailKeys(e) \o << <<"subject", s>> >>)[j] = << <<"subject", s>> >>[i]
      BY <2>2, Parts
    <3>2. 1 \in 1 .. Len(<< <<"subject", s>> >>) /\ << <<"subject", s>> >>[1] = <<"subject", s>>
      OBVIOUS
    <3> QED
      BY <2>1, <3>1, <3>2
  <2>4. PICK q : q = [[NoRequest EXCEPT !.op = "sign_in", !.pc = "run", !.person = OwnerOf[s], !.subject = s]
                        EXCEPT !.account = r, !.address = e, !.proved = proved, !.todo = todo]
    OBVIOUS
  <2>5. /\ q \in RequestState /\ q.op = "sign_in" /\ q.pc = "run" /\ q.person = OwnerOf[s]
        /\ q.account = r /\ q.address = e /\ q.subject = s /\ q.proved = proved /\ q.held = {}
        /\ q.todo = todo
    BY <1>2, <2>3, <2>4 DEF NoRequest, RequestState
  <2>6. Claims(q, <<"subject", q.subject>>)
    BY <2>3, <2>5 DEF Claims, Listed
  <2>7. Fits(r, q)
    BY <1>2, <2>5, <2>6 DEF Fits, Reads
  <2>8. Begins(r, q)
    BY <1>3, <2>1, <2>4 DEF sign_in_with_provider, find_by_subject
  <2> QED
    BY <1>1, <2>5, <2>7, <2>8, BeginsFitting
<1>4. CASE identity[s] # NoId
  <2>1. PICK a \in Id : a = identity[s]
    BY <1>4 DEF IInv, TypeOK
  <2>2. PICK todo : todo = IF Honours(e, proved, a) THEN << <<"account", a>> >> ELSE <<>>
    OBVIOUS
  <2>3. todo \in Seq(Key) /\ Honours(e, proved, a) \in BOOLEAN
    <3>1. <<"account", a>> \in Key
      BY Keys
    <3>2. todo \in Seq(Key)
      BY <2>2, <3>1, ShortLists
    <3> QED
      BY <3>2 DEF Honours
  <2>4. PICK q : q = [[NoRequest EXCEPT !.op = "sign_in", !.pc = "run", !.person = OwnerOf[s], !.subject = s]
                        EXCEPT !.account = a, !.proved = Honours(e, proved, a), !.todo = todo]
    OBVIOUS
  <2>5. /\ q \in RequestState /\ q.op = "sign_in" /\ q.pc = "run" /\ q.person = OwnerOf[s]
        /\ q.account = a /\ q.subject = s /\ q.proved = Honours(e, proved, a) /\ q.held = {}
    BY <1>2, <2>3, <2>4 DEF NoRequest, RequestState
  <2>6. user[a].made /\ a # r
    <3>1. user[a].made
      BY <1>4, <2>1 DEF IInv, Identities
    <3> QED
      BY <3>1, Arriving
  <2>7. Honours(e, proved, a) => MayMark(a, OwnerOf[s])
    BY <1>2 DEF Honours, MayMark, Reads
  <2>8. Fits(r, q)
    BY <1>2, <2>5, <2>6, <2>7 DEF Fits
  <2>9. Begins(r, q)
    BY <1>4, <2>1, <2>2, <2>4 DEF sign_in_with_provider, find_by_subject
  <2> QED
    BY <1>1, <2>5, <2>8, <2>9, BeginsFitting
<1> QED
  BY <1>3, <1>4

LEMMA RefusesKeeps ==
  ASSUME IInv, NEW r \in Request, request[r].pc = "idle", Refuses(r),
         UNCHANGED <<user, identity, challenge>>
  PROVE  IInv'
<1>1. r \notin Open
  BY DEF Open
<1> QED
  BY <1>1, EndsUndone DEF Refuses

LEMMA LinkKeeps ==
  ASSUME IInv, NEW r \in Request, request[r].pc = "idle", NEW a \in Id, NEW s \in Subject,
         link_provider(r, a, s)
  PROVE  IInv'
<1>1. PICK todo : todo = << <<"subject", s>>, <<"provider", <<a, ProviderOf[s]>>>>, <<"share", a>> >>
  OBVIOUS
<1>2. todo \in Seq(Key)
  <2>1. <<"subject", s>> \in Key /\ <<"provider", <<a, ProviderOf[s]>>>> \in Key /\ <<"share", a>> \in Key
    BY Keys
  <2> QED
    BY <1>1, <2>1, ShortLists
<1>3. user[a].made /\ OwnerOf[s] \in Person /\ a # r
  BY Numbers, Arriving DEF link_provider
<1>4. PICK q : q = [NoRequest EXCEPT !.op = "link", !.pc = "run", !.person = OwnerOf[s],
                                     !.account = a, !.subject = s, !.todo = todo]
  OBVIOUS
<1>5. /\ q \in RequestState /\ q.op = "link" /\ q.pc = "run" /\ q.person = OwnerOf[s]
      /\ q.account = a /\ q.subject = s /\ q.held = {}
  BY <1>2, <1>3, <1>4 DEF NoRequest, RequestState
<1>6. Fits(r, q)
  BY <1>3, <1>5 DEF Fits
<1>7. Refuses(r) \/ Begins(r, q)
  BY <1>1, <1>4 DEF link_provider
<1>8. UNCHANGED <<user, identity, challenge>>
  BY DEF link_provider
<1> QED
  BY <1>5, <1>6, <1>7, <1>8, BeginsFitting, RefusesKeeps

LEMMA VerifyKeeps ==
  ASSUME IInv, NEW r \in Request, request[r].pc = "idle", NEW p \in Person, NEW a \in Id,
         NEW e \in Address, request_email_verification(r, p, a, e)
  PROVE  IInv'
<1>1. PICK q : q = [NoRequest EXCEPT !.op = "verify", !.pc = "limit", !.person = p, !.account = a,
                                     !.address = e]
  OBVIOUS
<1>2. /\ q \in RequestState /\ q.op = "verify" /\ q.pc = "limit" /\ q.person = p /\ q.account = a
      /\ q.address = e /\ q.subject = None /\ q.held = {}
  BY <1>1, NoRequestType DEF NoRequest, RequestState
<1>3. user[a].made /\ a # r
  BY Arriving DEF request_email_verification
<1>4. Fits(r, q)
  BY <1>2, <1>3 DEF Fits
<1>5. Begins(r, q) /\ UNCHANGED <<user, identity, challenge>>
  BY <1>1 DEF request_email_verification
<1> QED
  BY <1>2, <1>4, <1>5, BeginsFitting

(* A list of one key.                                                        *)
LEMMA OneKey ==
  ASSUME NEW k \in Key, NEW todo, todo = <<k>>
  PROVE  todo \in Seq(Key) /\ \E i \in 1 .. Len(todo) : todo[i] = k
<1>1. todo \in Seq(Key) /\ Len(todo) = 1 /\ todo[1] = k
  BY ShortLists
<1> QED
  BY <1>1

LEMMA ConfirmKeeps ==
  ASSUME IInv, NEW r \in Request, request[r].pc = "idle", NEW p \in Person, NEW a \in Id,
         NEW c \in Id, NEW e \in Address, confirm_email(r, p, a, c, e)
  PROVE  IInv'
<1>1. PICK todo : todo = << <<"token", c>> >>
  OBVIOUS
<1>2. todo \in Seq(Key) /\ \E i \in 1 .. Len(todo) : todo[i] = <<"token", c>>
  BY <1>1, Keys, OneKey
<1>3. PICK q : q = [NoRequest EXCEPT !.op = "confirm", !.pc = "run", !.person = p, !.account = a,
                                     !.address = e, !.token = c, !.todo = todo]
  OBVIOUS
<1>4. /\ q \in RequestState /\ q.op = "confirm" /\ q.pc = "run" /\ q.person = p /\ q.account = a
      /\ q.address = e /\ q.token = c /\ q.todo = todo /\ q.subject = None
      /\ q.held = {}
  BY <1>2, <1>3 DEF NoRequest, RequestState
<1>5. user[a].made /\ a # r /\ UNCHANGED <<user, identity, challenge>>
  BY Arriving DEF confirm_email
<1>7. CASE Refuses(r)
  BY <1>5, <1>7, RefusesKeeps
<1>8. CASE ~ Refuses(r)
  <2>1. Begins(r, q) /\ Inbox[e] = p
    BY <1>1, <1>3, <1>8 DEF confirm_email, email_verify_hash
  <2>2. Listed(q, <<"token", q.token>>)
    BY <1>2, <1>4 DEF Listed
  <2>3. Fits(r, q)
    BY <1>4, <1>5, <2>1, <2>2 DEF Fits, Reads
  <2> QED
    BY <1>4, <1>5, <2>1, <2>3, BeginsFitting
<1> QED
  BY <1>7, <1>8

LEMMA LoginKeeps ==
  ASSUME IInv, NEW r \in Request, request[r].pc = "idle", NEW p \in Person, NEW a \in Id,
         login(r, p, a)
  PROVE  IInv'
<1>1. PICK todo : todo = << <<"credential", a>> >>
  OBVIOUS
<1>2. todo \in Seq(Key)
  BY <1>1, Keys, OneKey
<1>3. PICK q : q = [NoRequest EXCEPT !.op = "login", !.pc = "run", !.person = p, !.account = a, !.todo = todo]
  OBVIOUS
<1>4. /\ q \in RequestState /\ q.op = "login" /\ q.pc = "run" /\ q.person = p /\ q.account = a
      /\ q.subject = None /\ q.held = {}
  BY <1>2, <1>3 DEF NoRequest, RequestState
<1>5. user[a].password # None /\ user[a].made /\ a # r
  BY Numbers, Arriving DEF login
<1>6. user[a].email \in Address
  BY <1>5 DEF IInv, Rows, Sound
<1>7. Fits(r, q)
  BY <1>4, <1>5, <1>6 DEF Fits
<1>8. Begins(r, q) /\ UNCHANGED <<user, identity, challenge>>
  BY <1>1, <1>3 DEF login
<1> QED
  BY <1>4, <1>7, <1>8, BeginsFitting

(* Whoever reads the inbox a code or a link went to may mark its account.    *)
LEMMA ReaderMayMark ==
  ASSUME IInv, NEW r \in Request, request[r].pc = "idle", NEW c \in Id,
         challenge[c].purpose \in {"login_code", "password_reset"}
  PROVE  /\ challenge[c].account \in Id /\ user[challenge[c].account].made /\ challenge[c].account # r
         /\ challenge[c].address \in Address /\ Inbox[challenge[c].address] \in Person
         /\ MayMark(challenge[c].account, Inbox[challenge[c].address])
<1>1. CodeFits(challenge[c])
  BY DEF IInv, Codes, Issued
<1> QED
  BY <1>1, Arriving, WorldAssumption DEF CodeFits, Went, MayMark, Reads

LEMMA VerifyCodeKeeps ==
  ASSUME IInv, NEW r \in Request, request[r].pc = "idle", NEW p \in Person, NEW c \in Id,
         verify_login_code(r, p, c)
  PROVE  IInv'
<1>1. PICK todo : todo = << <<"token", c>> >>
  OBVIOUS
<1>2. todo \in Seq(Key)
  BY <1>1, Keys, OneKey
<1>3. PICK a \in Id : a = challenge[c].account
  BY ReaderMayMark DEF verify_login_code
<1>4. PICK q : q = [NoRequest EXCEPT !.op = "code", !.pc = "run", !.person = p, !.account = a,
                                     !.token = c, !.todo = todo]
  OBVIOUS
<1>5. /\ q \in RequestState /\ q.op = "code" /\ q.pc = "run" /\ q.person = p /\ q.account = a
      /\ q.token = c /\ q.subject = None /\ q.held = {}
  BY <1>2, <1>4 DEF NoRequest, RequestState
<1>6. UNCHANGED <<user, identity, challenge>>
  BY DEF verify_login_code
<1>7. CASE Inbox[challenge[c].address] = p
  <2>1. Begins(r, q)
    BY <1>1, <1>3, <1>4, <1>7 DEF verify_login_code
  <2>2. user[a].made /\ a # r /\ MayMark(a, p)
    BY <1>3, <1>7, ReaderMayMark DEF verify_login_code
  <2>3. Fits(r, q)
    BY <1>5, <2>2 DEF Fits
  <2> QED
    BY <1>5, <1>6, <2>1, <2>3, BeginsFitting
<1>8. CASE Inbox[challenge[c].address] # p
  BY <1>6, <1>8, RefusesKeeps DEF verify_login_code
<1> QED
  BY <1>7, <1>8

LEMMA ResendKeeps ==
  ASSUME IInv, NEW r \in Request, request[r].pc = "idle", NEW p \in Person, NEW c \in Id,
         resend_login_code(r, p, c)
  PROVE  IInv'
<1>1. CASE challenge[c].spent
  BY <1>1, RefusesKeeps DEF resend_login_code
<1>2. CASE ~ challenge[c].spent
  <2>1. PICK a \in Id : a = challenge[c].account
    BY ReaderMayMark DEF resend_login_code
  <2>2. PICK e \in Address : e = user[a].email
    <3>1. CodeFits(challenge[c])
      BY DEF resend_login_code, IInv, Codes, Issued
    <3>2. user[a].verified \/ user[a].email \in Address
      BY <2>1, <3>1 DEF resend_login_code, CodeFits, Went
    <3>3. Sound(user[a])
      BY DEF IInv, Rows
    <3> QED
      BY <3>2, <3>3 DEF Sound, Reads
  <2>3. PICK q : q = [NoRequest EXCEPT !.op = "resend", !.pc = "pause", !.person = p, !.account = a,
                                       !.address = e]
    OBVIOUS
  <2>4. /\ q \in RequestState /\ q.op = "resend" /\ q.pc = "pause" /\ q.person = p /\ q.account = a
        /\ q.address = e /\ q.subject = None /\ q.held = {}
    BY <2>3, NoRequestType DEF NoRequest, RequestState
  <2>5. user[a].made /\ a # r /\ Went(a, e)
    BY <2>1, <2>2, ReaderMayMark DEF resend_login_code, Went
  <2>6. Fits(r, q)
    BY <2>4, <2>5 DEF Fits
  <2>7. Pauses(r, q)
    BY <1>2, <2>1, <2>2, <2>3 DEF resend_login_code
  <2> QED
    BY <2>4, <2>6, <2>7, PausesFitting
<1> QED
  BY <1>1, <1>2

LEMMA ForgotKeeps ==
  ASSUME IInv, NEW r \in Request, request[r].pc = "idle", NEW e \in Address, request_password_reset(r, e)
  PROVE  IInv'
<1>1. PICK a \in Id :
        /\ user[a].email = e
        /\ Pauses(r, [NoRequest EXCEPT !.op = "forgot", !.pc = "pause", !.account = a, !.address = e])
  BY DEF request_password_reset
<1>2. PICK q : q = [NoRequest EXCEPT !.op = "forgot", !.pc = "pause", !.account = a, !.address = e]
  OBVIOUS
<1>3. /\ q \in RequestState /\ q.op = "forgot" /\ q.pc = "pause" /\ q.account = a /\ q.address = e
      /\ q.subject = None /\ q.held = {}
  BY <1>2, NoRequestType DEF NoRequest, RequestState
<1>4. user[a].made /\ a # r /\ Went(a, e)
  BY <1>1, Arriving, Numbers DEF Went
<1>5. Fits(r, q)
  BY <1>3, <1>4 DEF Fits
<1> QED
  BY <1>1, <1>2, <1>3, <1>5, PausesFitting

LEMMA ResetKeeps ==
  ASSUME IInv, NEW r \in Request, request[r].pc = "idle", NEW c \in Id, confirm_password_reset(r, c)
  PROVE  IInv'
<1>1. CASE challenge[c].spent
  BY <1>1, RefusesKeeps DEF confirm_password_reset
<1>2. CASE ~ challenge[c].spent
  <2>1. PICK a \in Id : a = challenge[c].account
    BY ReaderMayMark DEF confirm_password_reset
  <2>2. PICK p \in Person : p = Inbox[challenge[c].address]
    BY ReaderMayMark DEF confirm_password_reset
  <2>3. PICK q : q = [NoRequest EXCEPT !.op = "reset", !.pc = "pause", !.person = p, !.account = a, !.token = c]
    OBVIOUS
  <2>4. /\ q \in RequestState /\ q.op = "reset" /\ q.pc = "pause" /\ q.person = p /\ q.account = a
        /\ q.token = c /\ q.subject = None /\ q.held = {}
    BY <2>3, NoRequestType DEF NoRequest, RequestState
  <2>5. user[a].made /\ a # r /\ MayMark(a, p)
    BY <2>1, <2>2, ReaderMayMark DEF confirm_password_reset
  <2>6. Fits(r, q)
    BY <2>4, <2>5 DEF Fits
  <2>7. Pauses(r, q)
    BY <1>2, <2>1, <2>2, <2>3 DEF confirm_password_reset
  <2> QED
    BY <2>4, <2>6, <2>7, PausesFitting
<1> QED
  BY <1>1, <1>2

-------------------------------------------------------------------------------
(* The steps of a request.                                                   *)

(* The earlier codes, in any order, are a list of keys, and so is the list   *)
(* that ends with a share of the account's row.                              *)
LEMMA IssuingType ==
  ASSUME IInv, NEW r \in Request, request[r].op \in {"login", "resend", "verify", "forgot"}, request[r].account \in Id,
         NEW todo \in Issuing(r)
  PROVE  todo \in Seq(Key)
<1> DEFINE S == {<<"token", c>> : c \in Earlier(r)}
<1>1. PICK codes \in SetToSeqs(S) : todo = codes \o << <<"share", request[r].account>> >>
  BY DEF Issuing
<1>2. IsFiniteSet(S) /\ S \subseteq Key
  <2>1. PurposeOf(request[r].op) # "none"
    BY DEF PurposeOf
  <2>2. IsFiniteSet(Issued) /\ Earlier(r) \subseteq Issued
    BY <2>1 DEF Earlier, Issued, IInv, Codes
  <2>3. IsFiniteSet(Earlier(r))
    BY <2>2, FS_Subset
  <2>4. IsFiniteSet(S)
    <3> DEFINE f == [c \in Earlier(r) |-> <<"token", c>>]
    <3>1. f \in Surjection(Earlier(r), S)
      BY Fun_IsSurj
    <3> QED
      BY <2>3, <3>1, FS_Surjection
  <2>5. S \subseteq Key
    BY Keys DEF Earlier
  <2> QED
    BY <2>4, <2>5
<1>3. codes \in Seq(Key)
  <2>1. Cardinality(S) \in Nat
    BY <1>2, FS_CardinalityType
  <2>2. codes \in [1 .. Cardinality(S) -> S]
    BY <1>1 DEF SetToSeqs
  <2> HIDE DEF S
  <2>3. PICK n \in Nat : codes \in [1 .. n -> S]
    BY <2>1, <2>2
  <2>4. codes \in [1 .. n -> Key]
    BY <1>2, <2>3
  <2> QED
    BY <2>4
<1>4. <<"share", request[r].account>> \in Key
  BY Keys
<1> QED
  BY <1>1, <1>3, <1>4, ShortLists, Parts

(* A request that goes on with another list, and is else the same.           *)
GoesOn(q, old, todo) ==
  /\ q \in RequestState /\ q.pc = "run" /\ q.todo = todo
  /\ q.op = old.op /\ q.person = old.person /\ q.account = old.account /\ q.address = old.address
  /\ q.subject = old.subject /\ q.proved = old.proved /\ q.token = old.token

LEMMA EnforceKeeps ==
  ASSUME IInv, NEW r \in Request, enforce(r)
  PROVE  IInv'
<1>1. PICK todo \in Issuing(r) : request' = [request EXCEPT ![r].pc = "run", ![r].todo = todo]
  BY DEF enforce
<1>2. PICK old \in RequestState : old = request[r]
  BY DEF IInv, TypeOK
<1>3. old.pc = "limit" /\ Fits(r, old) /\ old.op = "verify" /\ old.account \in Id
  BY <1>2 DEF enforce, IInv, Fits
<1>4. todo \in Seq(Key)
  BY <1>2, <1>3, IssuingType
<1>5. PICK q : q = [old EXCEPT !.pc = "run", !.todo = todo]
  OBVIOUS
<1>6. GoesOn(q, old, todo) /\ q.held = old.held
  BY <1>4, <1>5 DEF GoesOn, RequestState
<1>7. request' = [request EXCEPT ![r] = q]
  BY <1>1, <1>2, <1>5
<1>8. Fits(r, q)
  BY <1>3, <1>6 DEF Fits, GoesOn
<1>9. Pool' /\ free' \in 0 .. PoolSize
  <2>1. r \in Open /\ free' = free
    BY <1>2, <1>3 DEF Open, enforce
  <2> QED
    BY <1>6, <1>7, <2>1, PoolKept DEF GoesOn
<1>10. UNCHANGED <<user, identity>> /\ OnlySpends
  BY DEF enforce, OnlySpends, IInv, TypeOK
<1>11. \A s \in Subject : <<"subject", s>> \in q.held =>
         /\ identity[s] = NoId
         /\ \A p \in Request \ {r} : <<"subject", s>> \notin request[p].held
  BY <1>2, <1>6 DEF IInv, Identities
<1> QED
  BY <1>2, <1>3, <1>6, <1>7, <1>8, <1>9, <1>10, <1>11, RequestMoves DEF GoesOn

(* The transaction after a pause.                                            *)
LEMMA ResumeKeeps ==
  ASSUME IInv, NEW r \in Request, Resume(r)
  PROVE  IInv'
<1>1. PICK old \in RequestState : old = request[r]
  BY DEF IInv, TypeOK
<1>2. /\ old.pc = "pause" /\ Fits(r, old) /\ old.op \in {"resend", "forgot", "reset", "code"} /\ old.account \in Id
      /\ r \notin Open /\ UNCHANGED <<user, identity, challenge>> /\ free > 0 /\ free' = free - 1
  BY <1>1 DEF Resume, Open, IInv, Fits
<1>3. old.op \in {"reset", "code"} => old.token \in Id
  BY <1>2 DEF Fits
<1>4. \E todo \in Seq(Key) : request' = [request EXCEPT ![r].pc = "run", ![r].todo = todo]
  <2>1. CASE old.op \in {"resend", "forgot"}
    <3>1. PICK todo \in Issuing(r) : request' = [request EXCEPT ![r].pc = "run", ![r].todo = todo]
      BY <1>1, <2>1 DEF Resume
    <3> QED
      BY <1>1, <1>2, <2>1, <3>1, IssuingType
  <2>2. CASE old.op = "reset"
    <3>1. PICK todo : /\ todo = << <<"token", old.token>>, <<"credential", old.account>>, <<"account", old.account>> >>
                      /\ request' = [request EXCEPT ![r].pc = "run", ![r].todo = todo]
      BY <1>1, <2>2 DEF Resume
    <3>2. <<"token", old.token>> \in Key /\ <<"credential", old.account>> \in Key /\ <<"account", old.account>> \in Key
      BY <1>2, <1>3, <2>2, Keys
    <3> QED
      BY <3>1, <3>2, ShortLists
  <2>3. CASE old.op = "code"
    <3>1. PICK todo : /\ todo = << <<"account", old.account>> >>
                      /\ request' = [request EXCEPT ![r].pc = "run", ![r].todo = todo]
      BY <1>1, <2>3 DEF Resume
    <3> QED
      BY <1>2, <3>1, Keys, ShortLists
  <2> QED
    BY <1>2, <2>1, <2>2, <2>3
<1>5. PICK todo \in Seq(Key) : request' = [request EXCEPT ![r].pc = "run", ![r].todo = todo]
  BY <1>4
<1>6. PICK q : q = [old EXCEPT !.pc = "run", !.todo = todo]
  OBVIOUS
<1>7. GoesOn(q, old, todo) /\ q.held = old.held
  BY <1>5, <1>6 DEF GoesOn, RequestState
<1>8. request' = [request EXCEPT ![r] = q]
  BY <1>1, <1>5, <1>6
<1>9. Fits(r, q)
  BY <1>2, <1>7 DEF Fits, GoesOn
<1>10. Pool' /\ free' \in 0 .. PoolSize
  BY <1>2, <1>7, <1>8, PoolTaken DEF GoesOn
<1>11. OnlySpends
  BY <1>2 DEF OnlySpends, IInv, TypeOK
<1>12. \A s \in Subject : <<"subject", s>> \in q.held =>
         /\ identity[s] = NoId
         /\ \A p \in Request \ {r} : <<"subject", s>> \notin request[p].held
  BY <1>1, <1>7 DEF IInv, Identities
<1> QED
  BY <1>1, <1>2, <1>7, <1>8, <1>9, <1>10, <1>11, <1>12, RequestMoves DEF GoesOn

(* Once its code is spent, the address is the account's or the request has   *)
(* still to take it.                                                         *)
LEMMA AfterSpendingFits ==
  ASSUME IInv, NEW r \in Request, request[r].pc = "run", request[r].op = "confirm"
  PROVE  /\ AfterSpending(r) \in Seq(Key)
         /\ \/ MayMark(request[r].account, request[r].person)
            \/ \E i \in 1 .. Len(AfterSpending(r)) :
                 AfterSpending(r)[i] = <<"email", request[r].address>>
<1>1. PICK a \in Id : a = request[r].account
  BY DEF IInv, Fits
<1>2. PICK e \in Address : e = request[r].address /\ Reads(e, request[r].person)
  BY DEF IInv, Fits, Reads
<1>3. user[a].email \in Address \cup {None}
  BY DEF IInv, TypeOK, UserRow
<1>4. CASE user[a].email = e
  <2>1. AfterSpending(r) = << <<"account", a>> >>
    BY <1>1, <1>2, <1>4 DEF AfterSpending
  <2>2. <<"account", a>> \in Key
    BY Keys
  <2>3. MayMark(a, request[r].person)
    BY <1>2, <1>4 DEF MayMark
  <2> QED
    BY <1>1, <2>1, <2>2, <2>3, ShortLists
<1>5. CASE user[a].email # e
  <2>1. PICK k \in Key : k = <<"rekey", a>>
    BY Keys
  <2>2. PICK old \in Seq(Key) : old = EmailKeys(user[a].email)
    BY <1>3, EmailKeysType
  <2>3. PICK new \in Seq(Key) :
          /\ new = EmailKeys(e) /\ Len(new) = 1 /\ new[1] = <<"email", e>>
    BY EmailKeysType, Numbers
  <2>4. AfterSpending(r) = <<k>> \o old \o new
    BY <1>1, <1>2, <1>5, <2>1, <2>2, <2>3 DEF AfterSpending
  <2>5. PICK first \in Seq(Key) : first = <<k>> \o old
    BY ShortLists, Parts
  <2>6. /\ first \o new \in Seq(Key)
        /\ \A i \in 1 .. Len(new) : \E j \in 1 .. Len(first \o new) : (first \o new)[j] = new[i]
    BY Parts
  <2>7. 1 \in 1 .. Len(new)
    BY <2>3
  <2>8. AfterSpending(r) = first \o new
    BY <2>4, <2>5
  <2> QED
    BY <1>2, <2>3, <2>6, <2>7, <2>8
<1> QED
  BY <1>4, <1>5

(* What a request that took its next key has left is a list of keys, and     *)
(* what it has still to claim it claims.                                     *)
LEMMA LeftFits ==
  ASSUME IInv, NEW r \in Request, NEW old \in RequestState, old = request[r], old.pc = "run", old.todo # <<>>,
         NEW key \in Key, key = Head(old.todo), NEW todo \in Left(r), NEW q,
         GoesOn(q, old, todo) \/ todo \notin Seq(Key), q.held = old.held \cup {key}
  PROVE  todo \in Seq(Key) /\ Fits(r, q)
<1>1. Fits(r, old) /\ old.todo \in Seq(Key) /\ old.account \in Id
  BY DEF IInv, Fits, RequestState
<1>2. CASE old.op = "confirm" /\ key[1] = "token"
  <2>1. todo = AfterSpending(r)
    BY <1>2 DEF Left
  <2>2. /\ todo \in Seq(Key)
        /\ \/ MayMark(old.account, old.person)
           \/ \E i \in 1 .. Len(todo) : todo[i] = <<"email", old.address>>
    BY <1>2, <2>1, AfterSpendingFits
  <2>3. MayMark(q.account, q.person) \/ Claims(q, <<"email", q.address>>)
    BY <2>2 DEF Claims, Listed, GoesOn
  <2> QED
    BY <1>1, <1>2, <2>2, <2>3 DEF Fits, GoesOn
<1>3. CASE old.op = "login" /\ key[1] = "credential"
  <2>1. todo \in Issuing(r)
    BY <1>3 DEF Left
  <2>2. todo \in Seq(Key)
    BY <1>1, <1>3, <2>1, IssuingType
  <2> QED
    BY <1>1, <1>3, <2>2 DEF Fits, GoesOn
<1>4. CASE ~ (old.op = "confirm" /\ key[1] = "token") /\ ~ (old.op = "login" /\ key[1] = "credential")
  <2>1. todo = Tail(old.todo)
    BY <1>4 DEF Left
  <2>2. todo \in Seq(Key)
    BY <1>1, <2>1, TakeFirst
  <2>3. ASSUME NEW k, Listed(old, k) PROVE k = key \/ Listed(q, k)
    <3>1. q.todo = Tail(old.todo)
      BY <2>1, <2>2 DEF GoesOn
    <3>2. k = Head(old.todo) \/ \E i \in 1 .. Len(Tail(old.todo)) : Tail(old.todo)[i] = k
      BY <1>1, <2>3, TakeFirst DEF Listed
    <3> QED
      BY <3>1, <3>2 DEF Listed
  <2>4. \A k : Claims(old, k) => Claims(q, k)
    BY <2>3 DEF Claims
  <2>5. old.op = "confirm" /\ Listed(old, <<"token", old.token>>) => Listed(q, <<"token", q.token>>)
    BY <1>4, <2>2, <2>3 DEF GoesOn
  <2> QED
    BY <1>1, <2>2, <2>4, <2>5 DEF Fits, GoesOn
<1> QED
  BY <1>2, <1>3, <1>4

(* A key that is taken is nobody else's and in no committed row.             *)
LEMMA TakeKeeps ==
  ASSUME IInv, NEW r \in Request, Take(r)
  PROVE  IInv'
<1>1. PICK old \in RequestState : old = request[r]
  BY DEF IInv, TypeOK
<1>2. /\ old.pc = "run" /\ old.todo # <<>> /\ old.todo \in Seq(Key)
      /\ UNCHANGED <<user, identity, challenge>> /\ free' = free /\ r \in Open /\ old.held \subseteq Key
  BY <1>1 DEF Take, IInv, Open, RequestState
<1>3. PICK key \in Key : key = Head(old.todo)
  BY <1>2, TakeFirst
<1>4. Holder(r, key) = {} /\ ~ Taken(r, key)
  BY <1>1, <1>3 DEF Take
<1>5. PICK todo \in Left(r) : request' = [request EXCEPT ![r].held = @ \cup {key}, ![r].todo = todo]
  BY <1>1, <1>3 DEF Take
<1>6. PICK q : q = [old EXCEPT !.held = @ \cup {key}, !.todo = todo]
  OBVIOUS
<1>7. request' = [request EXCEPT ![r] = q]
  BY <1>1, <1>5, <1>6
<1>8. /\ q.held = old.held \cup {key}
      /\ todo \in Seq(Key) => GoesOn(q, old, todo)
  BY <1>2, <1>6 DEF GoesOn, RequestState
<1>9. todo \in Seq(Key) /\ Fits(r, q)
  BY <1>1, <1>2, <1>3, <1>8, LeftFits
<1>10. q \in RequestState /\ q.pc = "run"
  BY <1>8, <1>9 DEF GoesOn
<1>11. ASSUME NEW s \in Subject, <<"subject", s>> \in q.held
       PROVE  /\ identity[s] = NoId
              /\ \A p \in Request \ {r} : <<"subject", s>> \notin request[p].held
  <2>1. CASE <<"subject", s>> \in old.held
    BY <1>1, <2>1 DEF IInv, Identities
  <2>2. CASE <<"subject", s>> = key
    <3>1. identity[s] = NoId
      BY <1>4, <2>2 DEF Taken, find_by_subject
    <3>2. Blocks(key, <<"subject", s>>)
      BY <2>2 DEF Blocks
    <3> QED
      BY <1>4, <3>1, <3>2 DEF Holder
  <2> QED
    BY <1>8, <1>11, <2>1, <2>2
<1>12. Pool' /\ free' \in 0 .. PoolSize
  BY <1>2, <1>7, <1>10, PoolKept
<1>13. OnlySpends
  BY <1>2 DEF OnlySpends, IInv, TypeOK
<1> QED
  BY <1>1, <1>2, <1>7, <1>9, <1>10, <1>11, <1>12, <1>13, RequestMoves

(* A code that is spent is else the same.                                    *)
LEMMA SpendOne ==
  ASSUME IInv, NEW c \in Id, challenge' = [challenge EXCEPT ![c].spent = TRUE]
  PROVE  OnlySpends
<1>1. challenge[c] \in Token
  BY DEF IInv, TypeOK
<1>2. PICK code : code = [challenge[c] EXCEPT !.spent = TRUE]
  OBVIOUS
<1>3. /\ code \in Token /\ code.purpose = challenge[c].purpose
      /\ code.account = challenge[c].account /\ code.address = challenge[c].address
  BY <1>1, <1>2 DEF Token
<1>4. challenge' = [challenge EXCEPT ![c] = code]
  BY <1>2
<1> QED
  BY <1>3, <1>4 DEF OnlySpends, IInv, TypeOK

LEMMA SpendKeeps ==
  ASSUME IInv, NEW r \in Request, verify_code(r)
  PROVE  IInv'
<1>1. PICK old \in RequestState : old = request[r]
  BY DEF IInv, TypeOK
<1>2. /\ old.pc = "run" /\ old.op = "code" /\ Fits(r, old) /\ r \in Open /\ free' = free + 1
      /\ UNCHANGED <<user, identity>>
  BY <1>1 DEF verify_code, Spends, Open, IInv
<1>3. old.token \in Id /\ challenge' = [challenge EXCEPT ![old.token].spent = TRUE]
  BY <1>1, <1>2 DEF verify_code, Fits
<1>4. PICK q : q = [old EXCEPT !.pc = "pause", !.todo = <<>>]
  OBVIOUS
<1>5. /\ q \in RequestState /\ q.pc = "pause" /\ q.held = old.held
      /\ q.op = old.op /\ q.person = old.person /\ q.account = old.account /\ q.address = old.address
      /\ q.subject = old.subject /\ q.proved = old.proved /\ q.token = old.token
  BY <1>4, ShortLists DEF RequestState
<1>6. request' = [request EXCEPT ![r] = q]
  BY <1>1, <1>4 DEF verify_code
<1>7. Fits(r, q)
  BY <1>2, <1>5 DEF Fits
<1>8. Pool' /\ free' \in 0 .. PoolSize
  BY <1>2, <1>5, <1>6, PoolReturned
<1>9. \A s \in Subject : <<"subject", s>> \in q.held =>
        /\ identity[s] = NoId
        /\ \A p \in Request \ {r} : <<"subject", s>> \notin request[p].held
  BY <1>1, <1>5 DEF IInv, Identities
<1> QED
  BY <1>1, <1>2, <1>3, <1>5, <1>6, <1>7, <1>8, <1>9, SpendOne, RequestMoves

(* A request that is refused, that is dropped or that waits too long does    *)
(* nothing.                                                                  *)
LEMMA StopsKeep ==
  ASSUME IInv, NEW r \in Request, Refused(r) \/ Timeout(r) \/ Drop(r)
  PROVE  IInv'
<1>1. /\ Ends(r) /\ UNCHANGED <<user, identity, challenge>> /\ request[r].pc # "answered"
      /\ free' = free + (IF r \in Open THEN 1 ELSE 0) /\ free \in Int
  BY DEF Refused, Timeout, Drop, Open, Connections, IInv, TypeOK
<1> QED
  BY <1>1, EndsUndone

-------------------------------------------------------------------------------
(* The commit.                                                               *)

(* What the first proof of an address makes of a row.                        *)
LEMMA Marked ==
  ASSUME NEW u, Sound(u), NEW p \in Person, u.verified \/ Reads(u.email, p),
         NEW v, v = mark_email_verified(u, p)
  PROVE  /\ Sound(v) /\ v.verified /\ v.email = u.email /\ v.email \in Address
         /\ v.password = u.password /\ v.made = u.made /\ v.remembered \in SUBSET Person
<1>1. u \in UserRow /\ u.remembered \in SUBSET Person
  BY DEF Sound, UserRow
<1>2. CASE u.verified
  BY <1>1, <1>2 DEF mark_email_verified, Sound, Reads
<1>3. CASE ~ u.verified
  <2>1. v = [u EXCEPT !.verified = TRUE, !.prover = p]
    BY <1>3 DEF mark_email_verified
  <2>2. /\ v \in UserRow /\ v.verified = TRUE /\ v.prover = p /\ v.email = u.email
        /\ v.password = u.password /\ v.made = u.made /\ v.remembered = u.remembered
    BY <1>1, <2>1 DEF UserRow
  <2> QED
    BY <1>1, <1>3, <2>2 DEF Sound, Reads
<1> QED
  BY <1>2, <1>3

(* And a new address.                                                        *)
LEMMA Replaced ==
  ASSUME NEW u, Sound(u), NEW p \in Person, NEW e, Reads(e, p), NEW v, v = update_email(u, e, p)
  PROVE  Sound(v) /\ v.verified /\ v.password = u.password /\ v.made = u.made
<1>1. u \in UserRow /\ e \in Address
  BY DEF Sound, Reads
<1>2. /\ v \in UserRow /\ v.verified = TRUE /\ v.prover = p /\ v.email = e
      /\ v.password = u.password /\ v.made = u.made
  BY <1>1 DEF update_email, UserRow
<1> QED
  BY <1>1, <1>2 DEF Sound, Reads

(* What a row keeps: a password and a proof that it has, and an address that *)
(* it has until it has another that was proved.                              *)
Lasts(u, v) ==
  /\ Sound(v) /\ v.made
  /\ u.verified => v.verified
  /\ u.password # None => v.password # None
  /\ u.email \in Address => v.verified \/ v.email = u.email

(* A new account's.                                                          *)
LEMMA InsertSound ==
  ASSUME NEW r \in Request, NEW q, q = request[r], q.person \in Person, q.address \in Address \cup {None},
         q.op = "sign_in" /\ q.proved => Reads(q.address, q.person),
         q.op = "register" => q.address \in Address
  PROVE  /\ Sound(insert(r)) /\ insert(r).made /\ insert(r).email = q.address
         /\ q.op = "register" => insert(r).password # None
<1>1. PICK row : row = insert(r)
  OBVIOUS
<1>2. q.person # None
  BY Numbers
<1>3. CASE q.op = "register"
  <2>1. row = NewUser(q.address, None, q.person, {})
    BY <1>1, <1>3 DEF insert
  <2>2. q.address \in Address
    BY <1>3
  <2>3. Sound(row) /\ row.made /\ row.email = q.address /\ row.password = q.person
    BY <2>1, <2>2, NewUserSound
  <2> QED
    BY <1>1, <1>2, <2>3
<1>4. CASE q.op = "sign_in" /\ q.proved
  <2>1. row = [made |-> TRUE, email |-> q.address, verified |-> TRUE, prover |-> q.person,
               password |-> None, remembered |-> {}]
    BY <1>1, <1>2, <1>4 DEF insert, NewUser
  <2>2. Sound(row) /\ row.made /\ row.email = q.address
    BY <1>4, <2>1 DEF Sound, UserRow
  <2> QED
    BY <1>1, <1>4, <2>2
<1>5. CASE q.op # "register" /\ ~ (q.op = "sign_in" /\ q.proved)
  <2>1. row = NewUser(q.address, None, None, {})
    BY <1>1, <1>5 DEF insert
  <2>2. Sound(row) /\ row.made /\ row.email = q.address
    BY <2>1, NewUserSound
  <2> QED
    BY <1>1, <1>5, <2>2
<1> QED
  BY <1>3, <1>4, <1>5

LEMMA AccountLasts ==
  ASSUME IInv, NEW r \in Request, Commit(r), NEW q, q = request[r], NEW v, v = Account(r)
  PROVE  /\ Lasts(user[q.account], v)
         /\ q.op = "register" => v.password # None /\ v.email = q.address
<1>1. /\ Fits(r, q) /\ q.pc = "run" /\ q.todo = <<>> /\ q \in RequestState
  BY DEF Commit, IInv, TypeOK
<1>2. PICK a \in Id : a = q.account
  BY <1>1 DEF Fits
<1>3. PICK u : u = user[a]
  OBVIOUS
<1>4. Sound(u) /\ (~ u.made => u = NoUser) /\ (user[r] = NoUser)
  BY <1>1, <1>3 DEF IInv, Rows
<1>5. \A k : ~ Listed(q, k)
  BY <1>1 DEF Listed
<1>6. CASE a = r
  <2>1. v = insert(r) /\ u = NoUser /\ q.op \in {"register", "sign_in"}
    BY <1>1, <1>2, <1>3, <1>4, <1>6 DEF Account, Fits
  <2>2. q.person \in Person /\ q.address \in Address \cup {None} /\ q.proved \in BOOLEAN
    BY <1>1, <2>1 DEF Fits, RequestState
  <2>3. /\ q.op = "sign_in" /\ q.proved => Reads(q.address, q.person)
        /\ q.op = "register" => q.address \in Address
    BY <1>1, <1>2, <1>6 DEF Fits
  <2>4. /\ Sound(v) /\ v.made /\ v.email = q.address
        /\ q.op = "register" => v.password # None
    BY <2>1, <2>2, <2>3, InsertSound
  <2>9. ~ NoUser.verified /\ NoUser.password = None /\ NoUser.email \notin Address
    BY Numbers DEF NoUser
  <2> QED
    BY <1>2, <1>3, <2>1, <2>4, <2>9 DEF Lasts
<1>7. CASE a # r
  <2>1. u.made /\ q.op # "register" /\ q.op # "none"
    BY <1>1, <1>2, <1>3, <1>7 DEF Fits
  <2>2. ASSUME q.person \in Person, MayMark(a, q.person), NEW w, w = mark_email_verified(u, q.person)
        PROVE  /\ Lasts(u, w) /\ w \in UserRow /\ w.remembered \in SUBSET Person /\ w.verified
               /\ w.email \in Address
    <3>1. /\ Sound(w) /\ w.verified /\ w.email = u.email /\ w.password = u.password /\ w.made = u.made
          /\ w.remembered \in SUBSET Person /\ w.email \in Address
      BY <1>3, <1>4, <2>2, Marked DEF MayMark
    <3> QED
      BY <2>1, <3>1 DEF Lasts, Sound
  <2>3. PICK w : w = mark_email_verified(u, q.person)
    OBVIOUS
  <2>4. CASE q.op = "sign_in" /\ q.proved
    <3>1. v = w
      BY <1>2, <1>3, <1>7, <2>3, <2>4 DEF Account
    <3>2. q.person \in Person /\ MayMark(a, q.person)
      BY <1>1, <1>2, <1>7, <2>4 DEF Fits
    <3> QED
      BY <1>2, <1>3, <2>1, <2>2, <2>3, <3>1, <3>2
  <2>5. CASE q.op \in {"code", "reset"}
    <3>1. q.person \in Person /\ MayMark(a, q.person)
      BY <1>1, <1>2, <2>5 DEF Fits
    <3>2. Lasts(u, w) /\ w \in UserRow /\ w.remembered \in SUBSET Person /\ w.verified /\ w.email \in Address
      BY <2>2, <2>3, <3>1
    <3>3. CASE q.op = "code"
      <4>0. PICK browsers \in SUBSET Person : browsers = w.remembered \cup {q.person}
        BY <3>1, <3>2
      <4>1. v = [w EXCEPT !.remembered = browsers]
        BY <1>2, <1>3, <1>7, <2>3, <3>3, <4>0 DEF Account
      <4>2. /\ v \in UserRow /\ v.made = w.made /\ v.verified = w.verified /\ v.password = w.password
            /\ v.email = w.email /\ v.prover = w.prover
        BY <3>2, <4>1 DEF UserRow
      <4> QED
        BY <1>2, <1>3, <2>1, <3>2, <4>2 DEF Lasts, Sound
    <3>4. CASE q.op = "reset"
      <4>1. v = [w EXCEPT !.password = q.person]
        BY <1>2, <1>3, <1>7, <2>3, <3>4 DEF Account
      <4>2. /\ v \in UserRow /\ v.made = w.made /\ v.verified = w.verified /\ v.password = q.person
            /\ v.email = w.email /\ v.prover = w.prover
        BY <3>1, <3>2, <4>1 DEF UserRow
      <4> QED
        BY <1>2, <1>3, <2>1, <3>1, <3>2, <4>2, Numbers DEF Lasts, Sound
    <3> QED
      BY <2>5, <3>3, <3>4
  <2>6. CASE q.op = "confirm" /\ <<"email", q.address>> \notin q.held
    <3>1. v = w
      BY <1>2, <1>3, <1>7, <2>3, <2>6 DEF Account
    <3>2. q.person \in Person /\ MayMark(a, q.person)
      BY <1>1, <1>2, <1>5, <2>6 DEF Fits, Claims
    <3> QED
      BY <1>2, <1>3, <2>1, <2>2, <2>3, <3>1, <3>2
  <2>7. CASE q.op = "confirm" /\ <<"email", q.address>> \in q.held
    <3>1. v = update_email(u, q.address, q.person)
      BY <1>2, <1>3, <1>7, <2>7 DEF Account
    <3>2. q.person \in Person /\ Reads(q.address, q.person)
      BY <1>1, <2>7 DEF Fits
    <3>3. Sound(v) /\ v.verified /\ v.password = u.password /\ v.made = u.made
      BY <1>4, <3>1, <3>2, Replaced
    <3> QED
      BY <1>2, <1>3, <2>1, <3>3 DEF Lasts
  <2>8. CASE ~ (q.op = "sign_in" /\ q.proved) /\ q.op \notin {"code", "reset", "confirm"}
    <3>1. v = u
      BY <1>2, <1>3, <1>7, <2>8 DEF Account
    <3> QED
      BY <1>2, <1>3, <1>4, <2>1, <3>1 DEF Lasts
  <2> QED
    BY <2>4, <2>5, <2>6, <2>7, <2>8
<1> QED
  BY <1>6, <1>7

(* What a commit makes of the accounts.                                      *)
Grows(r) ==
  LET a == request[r].account
  IN /\ user' \in [Id -> UserRow] /\ a \in Id
     /\ \A b \in Id \ {a} : user'[b] = user[b]
     /\ Lasts(user[a], user'[a])
     /\ request[r].op = "register" => user'[a].password # None /\ user'[a].email = request[r].address

LEMMA CommitGrows ==
  ASSUME IInv, NEW r \in Request, Commit(r)
  PROVE  Grows(r)
<1>1. PICK q : q = request[r]
  OBVIOUS
<1>2. q.account \in Id
  BY <1>1 DEF Commit, IInv, Fits
<1>3. PICK v : v = Account(r)
  OBVIOUS
<1>4. /\ Lasts(user[q.account], v)
      /\ q.op = "register" => v.password # None /\ v.email = q.address
  BY <1>1, <1>3, AccountLasts
<1>5. user' = [user EXCEPT ![q.account] = v] /\ v \in UserRow
  BY <1>1, <1>3, <1>4 DEF Commit, Lasts, Sound
<1>6. user' \in [Id -> UserRow] /\ user'[q.account] = v /\ \A b \in Id \ {q.account} : user'[b] = user[b]
  BY <1>2, <1>5 DEF IInv, TypeOK
<1> QED
  BY <1>1, <1>2, <1>4, <1>6 DEF Grows

(* What is so of an account stays so.                                        *)
LEMMA GrowsKeeps ==
  ASSUME IInv, NEW r \in Request, Grows(r)
  PROVE  /\ \A b \in Id : user[b].made => user'[b].made
         /\ \A b \in Id : user[b].password # None => user'[b].password # None
         /\ \A b \in Id : user[b].email \in Address => user'[b].email \in Address
         /\ \A b \in Id, p \in Person : MayMark(b, p) => MayMark(b, p)'
         /\ \A b \in Id, e \in Address : Went(b, e) => Went(b, e)'
         /\ \A b \in Id : Sound(user[b])'
<1>1. ASSUME NEW b \in Id
      PROVE  /\ user[b].made => user'[b].made
             /\ user[b].verified => user'[b].verified
             /\ user[b].password # None => user'[b].password # None
             /\ user[b].email \in Address => user'[b].verified \/ user'[b].email = user[b].email
             /\ Sound(user'[b])
  <2>1. CASE b = request[r].account
    BY <2>1 DEF Grows, Lasts
  <2>2. CASE b # request[r].account
    <3>1. user'[b] = user[b]
      BY <2>2 DEF Grows
    <3> QED
      BY <3>1 DEF IInv, Rows
  <2> QED
    BY <2>1, <2>2
<1>2. \A b \in Id : Sound(user[b])'
  BY <1>1 DEF Sound, Reads
<1>3. \A b \in Id : user'[b].verified => user'[b].email \in Address
  BY <1>1 DEF Sound, Reads
<1>4. \A b \in Id : user[b].email \in Address => user'[b].email \in Address
  BY <1>1, <1>3
<1>5. \A b \in Id, p \in Person : MayMark(b, p) => MayMark(b, p)'
  BY <1>1 DEF MayMark, Reads
<1>6. \A b \in Id, e \in Address : Went(b, e) => Went(b, e)'
  BY <1>1 DEF Went
<1> QED
  BY <1>1, <1>2, <1>4, <1>5, <1>6

(* The codes that a commit leaves: what is said of a code stays so, and a    *)
(* new one goes where its request says.                                      *)
SameCode(c) ==
  /\ challenge'[c].purpose = challenge[c].purpose
  /\ challenge'[c].account = challenge[c].account
  /\ challenge'[c].address = challenge[c].address

LEMMA CodesKept ==
  ASSUME IInv, NEW r \in Request, Grows(r), challenge' \in [Id -> Token],
         \A c \in Id \ {r} : SameCode(c),
         SameCode(r) \/ CodeFits(challenge[r])'
  PROVE  Codes'
<1>1. Issued' \subseteq Issued \cup {r} /\ Issued' \subseteq Id
  BY DEF Issued, SameCode
<1>2. IsFiniteSet(Issued')
  <2>1. IsFiniteSet(Issued \cup {r})
    BY FS_AddElement DEF IInv, Codes
  <2> QED
    BY <1>1, <2>1, FS_Subset
<1>3. ASSUME NEW c \in Issued', SameCode(c) PROVE CodeFits(challenge[c])'
  <2>1. c \in Issued
    BY <1>1, <1>3 DEF Issued, SameCode
  <2>2. CodeFits(challenge[c])
    BY <2>1 DEF IInv, Codes
  <2>3. PICK b \in Id, e \in Address : b = challenge[c].account /\ e = challenge[c].address
    BY <2>2 DEF CodeFits
  <2>4. user'[b].made /\ (Went(b, e) => Went(b, e)')
    BY <2>2, <2>3, GrowsKeeps DEF CodeFits
  <2> QED
    BY <1>3, <2>2, <2>3, <2>4 DEF CodeFits, SameCode, Went
<1>4. \A c \in Issued' : CodeFits(challenge[c])'
  BY <1>1, <1>3
<1> QED
  BY <1>2, <1>4 DEF Codes

(* The code that issue writes, and the ones that it spends.                  *)
LEMMA IssueWrites ==
  ASSUME IInv, NEW r \in Request, NEW q \in RequestState, q = request[r],
         q.op \in {"register", "login", "resend", "verify", "forgot"}, NEW a \in Id, a = q.account,
         NEW e \in Address, e = IF q.op = "login" THEN user[a].email ELSE q.address,
         challenge' = issue(r)
  PROVE  /\ challenge' \in [Id -> Token]
         /\ \A c \in Id \ {r} : SameCode(c)
         /\ challenge'[r].purpose = PurposeOf(q.op) /\ challenge'[r].account = a
         /\ challenge'[r].address = e
<1>1. /\ q.person \in Person \cup {None}
      /\ PurposeOf(q.op) \in {"login_code", "email_verify", "password_reset"}
  BY DEF RequestState, PurposeOf
<1>2. PICK new : new = [purpose |-> PurposeOf(q.op), account |-> a, address |-> e,
                        asker |-> q.person, spent |-> FALSE]
  OBVIOUS
<1>3. new \in Token /\ new.purpose = PurposeOf(q.op) /\ new.account = a /\ new.address = e
  BY <1>1, <1>2 DEF Token
<1>4. \A c \in Id : challenge[c] \in Token
  BY DEF IInv, TypeOK
<1>5. ASSUME NEW c \in Id
      PROVE  /\ [challenge[c] EXCEPT !.spent = TRUE] \in Token
             /\ [challenge[c] EXCEPT !.spent = TRUE].purpose = challenge[c].purpose
             /\ [challenge[c] EXCEPT !.spent = TRUE].account = challenge[c].account
             /\ [challenge[c] EXCEPT !.spent = TRUE].address = challenge[c].address
  <2>1. challenge[c] \in Token
    BY <1>4
  <2> QED
    BY <2>1 DEF Token
<1>6. r \in Id
  BY Numbers
<1>7. challenge' = [c \in Id |-> IF c = r THEN new
                                 ELSE IF <<"token", c>> \in q.held THEN [challenge[c] EXCEPT !.spent = TRUE]
                                 ELSE challenge[c]]
  BY <1>2 DEF issue
<1>8. \A c \in Id : challenge'[c] = IF c = r THEN new
                                    ELSE IF <<"token", c>> \in q.held THEN [challenge[c] EXCEPT !.spent = TRUE]
                                    ELSE challenge[c]
  BY <1>7
<1>9. challenge' \in [Id -> Token]
  <2>1. \A c \in Id : challenge'[c] \in Token
    BY <1>3, <1>4, <1>5, <1>8
  <2> QED
    BY <1>7, <2>1
<1>10. \A c \in Id \ {r} : SameCode(c)
  BY <1>5, <1>8 DEF SameCode
<1>11. challenge'[r] = new
  BY <1>6, <1>8
<1> QED
  BY <1>3, <1>9, <1>10, <1>11

LEMMA CommitCodes ==
  ASSUME IInv, NEW r \in Request, Commit(r), Grows(r)
  PROVE  challenge' \in [Id -> Token] /\ Codes'
<1>1. PICK q \in RequestState : q = request[r]
  BY DEF IInv, TypeOK
<1>2. /\ q.pc = "run" /\ Fits(r, q) /\ r \in Id
      /\ challenge' = CASE q.op \in {"register", "login", "resend", "verify", "forgot"} -> issue(r)
                        [] q.op \in {"confirm", "reset"} -> [challenge EXCEPT ![q.token].spent = TRUE]
                        [] OTHER -> challenge
  BY <1>1, Numbers DEF Commit, IInv
<1>3. PICK a \in Id : a = q.account
  BY <1>2 DEF Fits
<1>4. CASE q.op \in {"register", "login", "resend", "verify", "forgot"}
  <2>1. challenge' = issue(r)
    BY <1>2, <1>4
  <2>2. PICK e \in Address : e = IF q.op = "login" THEN user[a].email ELSE q.address
    BY <1>2, <1>3, <1>4 DEF Fits
  <2>3. /\ challenge' \in [Id -> Token] /\ \A c \in Id \ {r} : SameCode(c)
        /\ challenge'[r].purpose = PurposeOf(q.op) /\ challenge'[r].account = a
        /\ challenge'[r].address = e
    BY <1>1, <1>3, <1>4, <2>1, <2>2, IssueWrites
  <2>4. user'[a].made
    BY <1>1, <1>3 DEF Grows, Lasts
  <2>5. q.op # "verify" => Went(a, e)'
    <3>1. CASE q.op = "register"
      BY <1>1, <1>3, <2>2, <3>1 DEF Grows, Went
    <3>2. CASE q.op = "login"
      <4>1. Went(a, e)
        BY <2>2, <3>2 DEF Went
      <4> QED
        BY <4>1, GrowsKeeps
    <3>3. CASE q.op \in {"resend", "forgot"}
      <4>1. Went(a, e)
        BY <1>2, <1>3, <2>2, <3>3 DEF Fits
      <4> QED
        BY <4>1, GrowsKeeps
    <3> QED
      BY <1>4, <3>1, <3>2, <3>3
  <2>6. q.op = "verify" => challenge'[r].purpose = "email_verify"
    BY <2>3 DEF PurposeOf
  <2>7. CodeFits(challenge[r])'
    BY <2>3, <2>4, <2>5, <2>6 DEF CodeFits, Went
  <2> QED
    BY <2>3, <2>7, CodesKept
<1>5. CASE q.op \in {"confirm", "reset"}
  <2>1. challenge' = [challenge EXCEPT ![q.token].spent = TRUE] /\ q.token \in Id
    BY <1>2, <1>5 DEF Fits
  <2>2. OnlySpends
    BY <2>1, SpendOne
  <2>3. challenge' \in [Id -> Token] /\ \A c \in Id : SameCode(c)
    BY <2>2 DEF SameCode, OnlySpends
  <2> QED
    BY <1>2, <2>3, CodesKept
<1>6. CASE q.op \notin {"register", "login", "resend", "verify", "forgot", "confirm", "reset"}
  <2>1. challenge' = challenge
    BY <1>2, <1>6
  <2>2. challenge' \in [Id -> Token] /\ \A c \in Id : SameCode(c)
    BY <2>1 DEF SameCode, IInv, TypeOK
  <2> QED
    BY <1>2, <2>2, CodesKept
<1> QED
  BY <1>4, <1>5, <1>6

(* What another request is at still fits it.                                 *)
LEMMA FitsLasts ==
  ASSUME IInv, NEW r \in Request, Grows(r), NEW p \in Request, NEW k, Fits(p, k)
  PROVE  Fits(p, k)'
<1>1. /\ \A b \in Id : user[b].made => user'[b].made
      /\ \A b \in Id : user[b].email \in Address => user'[b].email \in Address
      /\ \A b \in Id, e \in Address : Went(b, e) => Went(b, e)'
      /\ \A b \in Id, o \in Person : MayMark(b, o) => MayMark(b, o)'
  BY GrowsKeeps
<1>2. k.account \in Id => (user[k.account].made => user'[k.account].made)
  BY <1>1
<1>3. k.account \in Id => (user[k.account].email \in Address => user'[k.account].email \in Address)
  BY <1>1
<1>4. k.account \in Id /\ k.address \in Address => (Went(k.account, k.address) => Went(k.account, k.address)')
  BY <1>1
<1>5. k.account \in Id /\ k.person \in Person => (MayMark(k.account, k.person) => MayMark(k.account, k.person)')
  BY <1>1
<1> QED
  BY <1>2, <1>3, <1>4, <1>5 DEF Fits, Claims, Listed, Reads, MayMark, Went

(* A commit keeps the invariant.                                             *)
LEMMA CommitKeeps ==
  ASSUME IInv, NEW r \in Request, Commit(r)
  PROVE  IInv'
<1>1. PICK q \in RequestState : q = request[r]
  BY DEF IInv, TypeOK
<1>2. /\ q.pc = "run" /\ q.todo = <<>> /\ r \in Open /\ Fits(r, q) /\ Ends(r) /\ free' = free + 1
      /\ identity' = IF <<"subject", q.subject>> \in q.held
                     THEN [identity EXCEPT ![q.subject] = q.account] ELSE identity
      /\ q.account \in Id
  BY <1>1 DEF Commit, Open, IInv, Fits
<1>3. Grows(r) /\ challenge' \in [Id -> Token] /\ Codes'
  BY CommitGrows, CommitCodes
<1>4. PICK done : done = [NoRequest EXCEPT !.pc = "answered"]
  OBVIOUS
<1>5. done \in RequestState /\ done.pc = "answered" /\ done.held = {}
  BY <1>4, NoRequestType DEF RequestState, NoRequest
<1>6. request' = [request EXCEPT ![r] = done]
  BY <1>2, <1>4 DEF Ends
<1>7. \A p \in Request : request'[p] = IF p = r THEN done ELSE request[p]
  BY <1>6 DEF IInv, TypeOK
<1>8. Pool' /\ free' \in 0 .. PoolSize
  BY <1>2, <1>5, <1>6, PoolReturned
(* The identity that r links, if any.                                        *)
<1>9. <<"subject", q.subject>> \in q.held => q.subject \in Subject
  <2>1. SUFFICES ASSUME <<"subject", q.subject>> \in q.held
                 PROVE  q.subject \in Subject
    OBVIOUS
  <2>2. <<"subject", q.subject>> \in Key
    BY <2>1 DEF RequestState
  <2> QED
    BY <2>2 DEF Key
<1>10. \A s \in Subject : identity'[s] = IF <<"subject", s>> \in q.held /\ s = q.subject
                                         THEN q.account ELSE identity[s]
  BY <1>2, <1>9 DEF IInv, TypeOK
<1>11. identity' \in [Subject -> Id \cup {NoId}]
  BY <1>2, <1>9 DEF IInv, TypeOK
<1>12. TypeOK'
  <2>1. request' \in [Request -> RequestState]
    BY <1>5, <1>6 DEF IInv, TypeOK
  <2> QED
    BY <1>3, <1>8, <1>11, <2>1 DEF TypeOK, Grows
<1>13. \A b \in Id : user[b].made => user'[b].made
  BY <1>3, GrowsKeeps
<1>14. user'[q.account].made
  BY <1>1, <1>3 DEF Grows, Lasts
<1>15. Rows'
  <2>1. \A b \in Id : Sound(user[b])'
    BY <1>3, GrowsKeeps
  <2>2. ASSUME NEW b \in Id, ~ user'[b].made PROVE user'[b] = NoUser
    <3>1. b # q.account
      BY <1>14, <2>2
    <3>2. user'[b] = user[b]
      BY <1>1, <1>3, <3>1 DEF Grows
    <3> QED
      BY <2>2, <3>2 DEF IInv, Rows
  <2>3. ASSUME NEW p \in Request, request'[p].pc # "answered" PROVE user'[p] = NoUser
    <3>1. p # r /\ user[p] = NoUser /\ p \in Id
      BY <1>5, <1>7, <2>3, Numbers DEF IInv, Rows
    <3>2. q.account # p
      <4>1. CASE q.account = r
        BY <3>1, <4>1
      <4>2. CASE q.account # r
        <5>1. user[q.account].made
          BY <1>2, <4>2 DEF Fits
        <5> QED
          BY <3>1, <5>1 DEF NoUser
      <4> QED
        BY <4>1, <4>2
    <3> QED
      BY <1>1, <1>3, <3>1, <3>2 DEF Grows
  <2>4. \A b \in Id : Sound(user'[b])
    BY <2>1 DEF Sound, Reads
  <2> QED
    BY <2>2, <2>3, <2>4 DEF Rows, Sound, Reads
<1>16. Identities'
  <2>1. ASSUME NEW s \in Subject, identity'[s] # NoId
        PROVE  user'[identity'[s]].made
    <3>1. CASE <<"subject", s>> \in q.held /\ s = q.subject
      BY <1>10, <1>14, <3>1
    <3>2. CASE ~ (<<"subject", s>> \in q.held /\ s = q.subject)
      <4>1. identity'[s] = identity[s]
        BY <1>10, <3>2
      <4>2. PICK b \in Id : b = identity[s]
        BY <2>1, <4>1 DEF IInv, TypeOK
      <4>3. user[b].made
        BY <2>1, <4>1, <4>2 DEF IInv, Identities
      <4> QED
        BY <1>13, <4>1, <4>2, <4>3
    <3> QED
      BY <3>1, <3>2
  <2>2. ASSUME NEW p \in Request, NEW s \in Subject, <<"subject", s>> \in request'[p].held
        PROVE  /\ identity'[s] = NoId
               /\ \A k \in Request \ {p} : <<"subject", s>> \notin request'[k].held
    <3>1. p # r /\ <<"subject", s>> \in request[p].held
      BY <1>5, <1>7, <2>2
    <3>2. /\ identity[s] = NoId
          /\ \A k \in Request \ {p} : <<"subject", s>> \notin request[k].held
      BY <3>1 DEF IInv, Identities
    <3>3. <<"subject", s>> \notin q.held
      BY <1>1, <3>1, <3>2
    <3> QED
      BY <1>5, <1>7, <1>10, <3>2, <3>3
  <2> QED
    BY <2>1, <2>2 DEF Identities
<1>17. \A p \in Request : Fits(p, request[p])'
  <2> SUFFICES ASSUME NEW p \in Request PROVE Fits(p, request[p])'
    OBVIOUS
  <2>1. CASE p = r
    BY <1>5, <1>7, <2>1 DEF Fits
  <2>2. CASE p # r
    <3>1. PICK k : k = request[p]
      OBVIOUS
    <3>2. Fits(p, k) /\ request'[p] = k
      BY <1>7, <2>2, <3>1 DEF IInv
    <3>3. Fits(p, k)'
      BY <1>3, <3>2, FitsLasts
    <3> QED
      BY <3>2, <3>3 DEF Fits, MayMark, Went, Reads, Claims, Listed
  <2> QED
    BY <2>1, <2>2
<1>18. EveryAccountReachable'
  <2> SUFFICES ASSUME NEW b \in Id, user'[b].made, user'[b].password = None
               PROVE  \E s \in Subject : identity'[s] = b
    BY DEF EveryAccountReachable
  <2>1. CASE user[b].made
    <3>1. user[b].password = None
      BY <1>3, GrowsKeeps
    <3>2. PICK s \in Subject : identity[s] = b
      BY <2>1, <3>1 DEF IInv, EveryAccountReachable
    <3>3. identity[s] # NoId
      BY <3>2, Numbers
    <3>4. <<"subject", s>> \notin q.held
      BY <1>1, <3>3 DEF IInv, Identities
    <3> QED
      BY <1>10, <3>2, <3>4
  <2>2. CASE ~ user[b].made
    <3>1. b = q.account
      BY <1>1, <1>3, <2>2 DEF Grows
    <3>2. b = r /\ q.op \in {"register", "sign_in"}
      BY <1>2, <2>2, <3>1 DEF Fits
    <3>3. q.op = "sign_in"
      BY <1>1, <1>3, <3>1, <3>2 DEF Grows
    <3>4. Claims(q, <<"subject", q.subject>>) /\ q.subject \in Subject
      BY <1>2, <3>1, <3>2, <3>3 DEF Fits
    <3>5. <<"subject", q.subject>> \in q.held
      BY <1>2, <3>4 DEF Claims, Listed
    <3> QED
      BY <1>10, <3>1, <3>4, <3>5
  <2> QED
    BY <2>1, <2>2
<1> QED
  BY <1>3, <1>8, <1>12, <1>15, <1>16, <1>17, <1>18 DEF IInv

-------------------------------------------------------------------------------
(* Every step keeps the invariant.                                           *)
LEMMA StepInvariant == IInv /\ [Next]_vars => IInv'
<1> SUFFICES ASSUME IInv, [Next]_vars PROVE IInv'
  OBVIOUS
<1>1. CASE UNCHANGED vars
  <2>1. TypeOK'
    BY <1>1 DEF vars, IInv, TypeOK
  <2>2. Pool' /\ Identities'
    BY <1>1 DEF vars, IInv, Pool, Open, Identities
  <2>3. Rows'
    BY <1>1 DEF vars, IInv, Rows, Sound, Reads
  <2>4. Codes'
    BY <1>1 DEF vars, IInv, Codes, Issued, CodeFits, Went
  <2>5. ASSUME NEW r \in Request PROVE Fits(r, request[r])'
    <3>1. Fits(r, request[r]) /\ request' = request /\ user' = user
      BY <1>1 DEF vars, IInv
    <3> QED
      BY <3>1 DEF Fits, MayMark, Went, Reads, Claims, Listed
  <2>6. EveryAccountReachable'
    BY <1>1 DEF vars, IInv, EveryAccountReachable
  <2> QED
    BY <2>1, <2>2, <2>3, <2>4, <2>5, <2>6 DEF IInv
<1>2. ASSUME NEW r \in Request, Arrival(r) PROVE IInv'
  <2>0. request[r].pc = "idle"
    BY <1>2, RequestAssumption DEF Arrival
  <2>1. ASSUME NEW p \in Person, NEW e \in Address, register(r, p, e) PROVE IInv'
    BY <2>0, <2>1, RegisterKeeps
  <2>2. ASSUME NEW s \in Subject, NEW e \in Address \cup {None}, NEW proved \in BOOLEAN,
               sign_in_with_provider(r, s, e, proved)
        PROVE  IInv'
    BY <2>0, <2>2, SignInKeeps
  <2>3. ASSUME NEW a \in Id, NEW s \in Subject, link_provider(r, a, s) PROVE IInv'
    BY <2>0, <2>3, LinkKeeps
  <2>4. ASSUME NEW p \in Person, NEW a \in Id, NEW e \in Address,
               request_email_verification(r, p, a, e)
        PROVE  IInv'
    BY <2>0, <2>4, VerifyKeeps
  <2>5. ASSUME NEW p \in Person, NEW a \in Id, NEW c \in Id, NEW e \in Address,
               confirm_email(r, p, a, c, e)
        PROVE  IInv'
    BY <2>0, <2>5, ConfirmKeeps
  <2>6. ASSUME NEW p \in Person, NEW a \in Id, login(r, p, a) PROVE IInv'
    BY <2>0, <2>6, LoginKeeps
  <2>7. ASSUME NEW p \in Person, NEW c \in Id, verify_login_code(r, p, c) PROVE IInv'
    BY <2>0, <2>7, VerifyCodeKeeps
  <2>8. ASSUME NEW p \in Person, NEW c \in Id, resend_login_code(r, p, c) PROVE IInv'
    BY <2>0, <2>8, ResendKeeps
  <2>9. ASSUME NEW e \in Address, request_password_reset(r, e) PROVE IInv'
    BY <2>0, <2>9, ForgotKeeps
  <2>10. ASSUME NEW c \in Id, confirm_password_reset(r, c) PROVE IInv'
    BY <2>0, <2>10, ResetKeeps
  <2> QED
    BY <1>2, <2>1, <2>2, <2>3, <2>4, <2>5, <2>6, <2>7, <2>8, <2>9, <2>10 DEF Arrival
<1>3. ASSUME NEW r \in Request, Step(r) PROVE IInv'
  <2>1. Refused(r) => IInv'
    BY StopsKeep
  <2> QED
    BY <1>3, <2>1, EnforceKeeps, ResumeKeeps, TakeKeeps, SpendKeeps, CommitKeeps DEF Step
<1>4. ASSUME NEW r \in Request, Timeout(r) \/ Drop(r) PROVE IInv'
  BY <1>4, StopsKeep
<1> QED
  BY <1>1, <1>2, <1>3, <1>4 DEF Next

(* For every world of people, addresses and identities, however many         *)
(* requests and connections there are.                                       *)
THEOREM Invariance == Spec => []IInv
  BY InitInvariant, StepInvariant, PTL DEF Spec

(* Every variable keeps its type: users, oauth_identities, auth_tokens and   *)
(* the requests (users.rs, oauth.rs, auth_tokens.rs).                        *)
THEOREM TypeCorrectness == Spec => []TypeOK
<1>1. IInv => TypeOK
  BY DEF IInv
<1> QED
  BY <1>1, Invariance, PTL

(* A verified address was proved by a person who reads its mail, whichever   *)
(* of the codes, the links, the provider's claims and a change of address    *)
(* came first (confirm_email, verify_login_code, sign_in_with_provider,      *)
(* confirm_password_reset, update_email).                                    *)
THEOREM ProvedAddresses == Spec => []VerifiedWasProved
<1>1. IInv => VerifiedWasProved
  <2> SUFFICES ASSUME IInv, NEW a \in Id, user[a].verified
               PROVE  user[a].email # None /\ Inbox[user[a].email] = user[a].prover
    BY DEF VerifiedWasProved
  <2>1. Reads(user[a].email, user[a].prover)
    BY DEF IInv, Rows, Sound
  <2> QED
    BY <2>1, Numbers DEF Reads
<1> QED
  BY <1>1, Invariance, PTL

(* No account is left without a password and without an identity, whichever  *)
(* request won the identity and wherever one died (sign_in_with_provider,    *)
(* link_provider, oauth::insert).                                            *)
THEOREM NoAccountLost == Spec => []EveryAccountReachable
<1>1. IInv => EveryAccountReachable
  BY DEF IInv
<1> QED
  BY <1>1, Invariance, PTL
===============================================================================
