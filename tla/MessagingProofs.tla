---------------------------- MODULE MessagingProofs ----------------------------
(* Proofs about Messaging, for any number of users, jobs and requests.       *)
EXTENDS Messaging, FiniteSetTheorems, FunctionTheorems, TLAPS

(* What makes the properties inductive: who a request is between, which      *)
(* rows are there, and that no cursor is ahead of its conversation.          *)
Shape ==
  /\ \A r \in Requests :
       /\ req[r].pc \in Checked => req[r].user \in Users /\ req[r].peer \in Users
       /\ req[r].pc = "inserted" => req[r].thread = r
       /\ req[r].pc \in {"send", "numbered"} => req[r].thread \in Requests
  /\ \A t \in Requests :
       /\ thread[t].dm = {} => thread[t] = NoThread
       /\ thread[t].dm /= {} =>
            /\ \E a, b \in Users : thread[t].dm = {a, b}
            /\ thread[t].members = thread[t].dm
            /\ req[t].pc = "done"
  /\ \A m \in Messages : message[m].thread \in Threads /\ req[m].pc = "done"
  /\ \A u \in Users, t \in Requests : reader[u][t].cursor <= thread[t].last_seq

IInv ==
  /\ TypeOK /\ Shape /\ RequestsCoherent
  /\ OneThreadPerPair /\ AnswerIsUsable
  /\ GaplessSequence /\ NothingSkipped
  /\ BlockStopsLaterRequests

(* An account is not NULL, nor is a request.                                 *)
LEMMA NotNull == None \notin Users /\ None \notin Requests
  BY NullAssumption DEF Users

(* Init satisfies the inductive invariant: there are no rows.                *)
LEMMA InitInvariant == Init => IInv
<1> SUFFICES ASSUME Init PROVE IInv
  OBVIOUS
<1>1. NoThread \in Thread /\ NoMessage \in Message /\ Idle \in Request
  BY DEF NoThread, Thread, NoMessage, Message, Idle, Request
<1>2. listing \in [Listings -> Listing] /\ job \in [Jobs -> Job]
  BY DEF Init, Listing, Job
<1>3. reader \in [Users -> [Requests -> [last_read_seq : Nat, cursor : Nat]]]
  BY DEF Init
<1>4. TypeOK
  BY <1>1, <1>2, <1>3 DEF Init, TypeOK
<1>5. Threads = {} /\ Messages = {} /\ \A t \in Requests : In(t) = {}
  BY DEF Init, Threads, Messages, In, NoThread, NoMessage
<1>6. \A r \in Requests : req[r].pc = "idle"
  BY DEF Init, Idle
<1>7. \A t \in Requests : thread[t] = NoThread /\ thread[t].last_seq = 0 /\ thread[t].dm = {}
  BY DEF Init, NoThread
<1>8. \A u \in Users, t \in Requests : reader[u][t].cursor = 0
  BY DEF Init
<1>9. Shape
  BY <1>5, <1>6, <1>7, <1>8 DEF Shape, Checked
<1>10. RequestsCoherent /\ AnswerIsUsable
  BY <1>6 DEF RequestsCoherent, AnswerIsUsable
<1>11. OneThreadPerPair /\ GaplessSequence /\ NothingSkipped
  BY <1>5, <1>7 DEF OneThreadPerPair, GaplessSequence, NothingSkipped
<1>12. BlockStopsLaterRequests
  BY DEF Init, BlockStopsLaterRequests
<1> QED
  BY <1>4, <1>9, <1>10, <1>11, <1>12 DEF IInv

-------------------------------------------------------------------------------
(* What a request may become, given the rows there are.                      *)
Fits(r, x) ==
  /\ x \in Request
  /\ x.pc \in Checked =>
       /\ x.user \in Users /\ x.peer \in Users
       /\ \A p \in blocks : {x.user, x.peer} = {p[1], p[2]} => r \in before[p]
  /\ x.pc = "inserted" =>
       /\ x.thread = r
       /\ \A t \in Threads : thread[t].dm /= {x.user, x.peer}
       /\ \A q \in Requests \ {r} : req[q].pc = "inserted" => Pair(q) /= {x.user, x.peer}
  /\ x.pc \in {"send", "numbered"} =>
       /\ x.thread \in Requests
       /\ thread[x.thread].dm = {x.user, x.peer} /\ thread[x.thread].members = {x.user, x.peer}
  /\ x.pc = "numbered" =>
       /\ x.seq = thread[x.thread].last_seq + 1
       /\ \A q \in Requests \ {r} : req[q].pc = "numbered" => req[q].thread /= x.thread
  /\ x.pc = "done" /\ x.thread /= None =>
       /\ x.thread \in Threads
       /\ x.user \in thread[x.thread].members /\ x.peer \in thread[x.thread].members

(* A step of one request that writes no row.                                 *)
LEMMA RequestOnly ==
  ASSUME IInv, NEW r \in Requests, NEW x, Fits(r, x), req[r].pc /= "done",
         req' = [req EXCEPT ![r] = x],
         UNCHANGED <<directory, thread, message, blocking, reading>>
  PROVE  IInv'
<1>1. \A q \in Requests : req'[q] = IF q = r THEN x ELSE req[q]
  BY DEF IInv, TypeOK
<1>2. TypeOK'
  BY DEF IInv, TypeOK, Fits, directory, blocking, reading
<1>3. /\ Threads' = Threads /\ Messages' = Messages /\ thread' = thread /\ message' = message
      /\ reader' = reader /\ seen' = seen /\ blocks' = blocks /\ before' = before
  BY DEF Threads, Messages, blocking, reading
<1>4. \A t \in Requests : In(t)' = In(t)
  BY <1>3 DEF In
<1>5. Shape'
  <2>1. \A q \in Requests :
          /\ req'[q].pc \in Checked => req'[q].user \in Users /\ req'[q].peer \in Users
          /\ req'[q].pc = "inserted" => req'[q].thread = q
          /\ req'[q].pc \in {"send", "numbered"} => req'[q].thread \in Requests
    BY <1>1 DEF IInv, Shape, Fits
  <2>2. \A t \in Requests : thread[t].dm /= {} => req'[t].pc = "done"
    BY <1>1 DEF IInv, Shape
  <2>3. \A m \in Messages : req'[m].pc = "done"
    BY <1>1 DEF IInv, Shape, Messages
  <2> QED
    BY <1>3, <2>1, <2>2, <2>3 DEF IInv, Shape
<1>6. RequestsCoherent'
  <2> SUFFICES ASSUME NEW q \in Requests
               PROVE  /\ req'[q].pc = "inserted" => Existing(q)' = {} /\ Inserting(q)' = {}
                      /\ req'[q].pc \in {"send", "numbered"} =>
                           /\ thread'[req'[q].thread].dm = Pair(q)'
                           /\ thread'[req'[q].thread].members = Pair(q)'
                      /\ req'[q].pc = "numbered" =>
                           /\ req'[q].seq = thread'[req'[q].thread].last_seq + 1
                           /\ Writing(req[q].thread)' = {q}
    BY DEF RequestsCoherent
  <2>1. ASSUME req'[q].pc = "inserted" PROVE Existing(q)' = {}
    <3>1. CASE q = r
      BY <1>1, <1>3, <2>1, <3>1 DEF Fits, Existing, Pair
    <3>2. CASE q /= r
      BY <1>1, <1>3, <2>1, <3>2 DEF IInv, RequestsCoherent, Existing, Pair
    <3> QED
      BY <3>1, <3>2
  <2>2. ASSUME req'[q].pc = "inserted", NEW k \in Requests \ {q}, req'[k].pc = "inserted",
               {req'[k].user, req'[k].peer} = {req'[q].user, req'[q].peer}
        PROVE  FALSE
    <3>1. CASE q = r
      BY <1>1, <2>2, <3>1 DEF Fits, Pair
    <3>2. CASE k = r
      <4>1. req[q].pc = "inserted" /\ q \in Requests \ {r} /\ x.pc = "inserted"
        BY <1>1, <2>2, <3>2
      <4>2. Pair(q) = {x.user, x.peer}
        BY <1>1, <2>2, <3>2 DEF Pair
      <4> QED
        BY <4>1, <4>2 DEF Fits
    <3>3. CASE q /= r /\ k /= r
      <4>1. req[q].pc = "inserted" /\ k \in Inserting(q)
        BY <1>1, <2>2, <3>3 DEF Inserting, Pair
      <4> QED
        BY <4>1 DEF IInv, RequestsCoherent
    <3> QED
      BY <3>1, <3>2, <3>3
  <2>3. req'[q].pc = "inserted" => Inserting(q)' = {}
    BY <2>2 DEF Inserting, Pair
  <2>4. req'[q].pc \in {"send", "numbered"} =>
          /\ thread'[req'[q].thread].dm = Pair(q)' /\ thread'[req'[q].thread].members = Pair(q)'
    BY <1>1, <1>3 DEF IInv, RequestsCoherent, Fits, Pair
  <2>5. req'[q].pc = "numbered" => req'[q].seq = thread'[req'[q].thread].last_seq + 1
    BY <1>1, <1>3 DEF IInv, RequestsCoherent, Fits
  <2>6. ASSUME req'[q].pc = "numbered", NEW k \in Requests, req'[k].pc = "numbered",
               req'[k].thread = req'[q].thread
        PROVE  k = q
    <3>1. CASE q = r
      BY <1>1, <2>6, <3>1 DEF Fits
    <3>2. CASE k = r
      BY <1>1, <2>6, <3>2 DEF Fits
    <3>3. CASE q /= r /\ k /= r
      BY <1>1, <2>6, <3>3 DEF IInv, RequestsCoherent, Writing
    <3> QED
      BY <3>1, <3>2, <3>3
  <2>7. req'[q].pc = "numbered" => Writing(req[q].thread)' = {q}
    BY <2>6 DEF Writing
  <2> QED
    BY <2>1, <2>3, <2>4, <2>5, <2>7
<1>7. AnswerIsUsable'
  BY <1>1, <1>3 DEF IInv, AnswerIsUsable, Fits, is_participant
<1>8. BlockStopsLaterRequests'
  <2> SUFFICES ASSUME NEW p \in blocks, NEW q \in Requests, req'[q].pc \in Checked,
                      {req'[q].user, req'[q].peer} = {p[1], p[2]}
               PROVE  q \in before[p]
    BY <1>3 DEF BlockStopsLaterRequests, UnderWay
  <2>1. CASE q = r
    BY <1>1, <2>1 DEF Fits
  <2>2. CASE q /= r
    BY <1>1, <2>2 DEF IInv, BlockStopsLaterRequests, UnderWay
  <2> QED
    BY <2>1, <2>2
<1>9. OneThreadPerPair' /\ GaplessSequence' /\ NothingSkipped'
  BY <1>3, <1>4 DEF IInv, OneThreadPerPair, GaplessSequence, NothingSkipped
<1> QED
  BY <1>2, <1>5, <1>6, <1>7, <1>8, <1>9 DEF IInv

-------------------------------------------------------------------------------
(* Starting a conversation.                                                  *)

(* A start that has passed its checks.                                       *)
LEMMA StartFits ==
  ASSUME IInv, NEW r \in Requests, NEW u \in Users, NEW v \in Users, NEW j \in Jobs \cup {None},
         ~ blocked_either_way(u, v)
  PROVE  Fits(r, Started(u, v, j))
<1> DEFINE x == Started(u, v, j)
<1>1. /\ x.pc = "start" /\ x.user = u /\ x.peer = v /\ x.job = j /\ x.thread = None /\ x.seq = 0
      /\ x \in Request
  BY DEF Started, Idle, Request
<1>2. \A p \in blocks : {u, v} /= {p[1], p[2]}
  <2> SUFFICES ASSUME NEW p \in blocks, {u, v} = {p[1], p[2]} PROVE FALSE
    OBVIOUS
  <2>1. p = <<p[1], p[2]>>
    BY DEF IInv, TypeOK
  <2>2. p = <<u, v>> \/ p = <<v, u>>
    BY <2>1
  <2> QED
    BY <2>2 DEF blocked_either_way
<1> HIDE DEF x
<1>3. Fits(r, x)
  BY <1>1, <1>2 DEF Fits
<1> QED
  BY <1>3 DEF x

(* A homeowner writes to a listing.                                          *)
LEMMA StartWithContractorKeeps ==
  ASSUME IInv, NEW r \in Requests, NEW u \in Homeowners, NEW l \in Listings,
         start_with_contractor(r, u, l)
  PROVE  IInv'
<1>1. u \in Users /\ listing[l].owner \in Users
  BY DEF start_with_contractor, IInv, TypeOK, Listing, Users
<1>2. Fits(r, Started(u, listing[l].owner, None))
  BY <1>1, StartFits DEF start_with_contractor
<1> QED
  BY <1>2, RequestOnly DEF start_with_contractor

(* A contractor answers a posting.                                           *)
LEMMA StartWithJobKeeps ==
  ASSUME IInv, NEW r \in Requests, NEW u \in Contractors, NEW j \in Jobs, start_with_job(r, u, j)
  PROVE  IInv'
<1>1. u \in Users /\ job[j].poster \in Users
  BY DEF IInv, TypeOK, Job, Users
<1>2. Fits(r, Started(u, job[j].poster, j))
  BY <1>1, StartFits DEF start_with_job
<1> QED
  BY <1>2, RequestOnly DEF start_with_job

(* The unique index has let the row in: nobody has this pair.                *)
LEMMA InsertThreadKeeps ==
  ASSUME IInv, NEW r \in Requests, InsertThread(r)
  PROVE  IInv'
<1> DEFINE x == [req[r] EXCEPT !.pc = "inserted", !.thread = r]
<1>1. req[r] \in Request
  BY DEF IInv, TypeOK
<1>2. /\ x \in Request /\ x.pc = "inserted" /\ x.thread = r
      /\ x.user = req[r].user /\ x.peer = req[r].peer
  BY <1>1 DEF Request
<1>3. req' = [req EXCEPT ![r] = x]
  BY DEF InsertThread
<1>4. /\ x.user \in Users /\ x.peer \in Users
      /\ \A p \in blocks : {x.user, x.peer} = {p[1], p[2]} => r \in before[p]
  BY <1>2 DEF IInv, Shape, Checked, BlockStopsLaterRequests, UnderWay, InsertThread
<1>5. /\ \A t \in Threads : thread[t].dm /= {x.user, x.peer}
      /\ \A q \in Requests \ {r} : req[q].pc = "inserted" => Pair(q) /= {x.user, x.peer}
  BY <1>2 DEF InsertThread, Existing, Inserting, Pair
<1> HIDE DEF x
<1>6. Fits(r, x)
  BY <1>2, <1>4, <1>5 DEF Fits
<1> QED
  BY <1>3, <1>6, RequestOnly DEF InsertThread

(* The INSERT did nothing and the SELECT finds the pair's conversation.      *)
LEMMA FindThreadKeeps ==
  ASSUME IInv, NEW r \in Requests, FindThread(r)
  PROVE  IInv'
<1>1. PICK t \in Existing(r) : req' = [req EXCEPT ![r].pc = "done", ![r].thread = t]
  BY DEF FindThread
<1> DEFINE x == [req[r] EXCEPT !.pc = "done", !.thread = t]
<1>2. req[r] \in Request /\ t \in Requests /\ t \in Threads /\ thread[t].dm = Pair(r)
  BY DEF IInv, TypeOK, Existing, Threads
<1>3. /\ x \in Request /\ x.pc = "done" /\ x.thread = t
      /\ x.user = req[r].user /\ x.peer = req[r].peer
  BY <1>2 DEF Request
<1>4. thread[t].members = Pair(r)
  BY <1>2 DEF IInv, Shape, Threads
<1>5. req' = [req EXCEPT ![r] = x]
  BY <1>1
<1> HIDE DEF x
<1>6. Fits(r, x)
  BY <1>2, <1>3, <1>4 DEF Fits, Checked, Pair
<1> QED
  BY <1>5, <1>6, RequestOnly DEF FindThread

(* A rolled back transaction fits anywhere.                                  *)
LEMMA AbandonKeeps ==
  ASSUME IInv, NEW r \in Requests, Abandon(r)
  PROVE  IInv'
<1> DEFINE x == [Idle EXCEPT !.pc = "done"]
<1>1. x \in Request /\ x.pc = "done" /\ x.thread = None
  BY DEF Idle, Request
<1>2. req' = [req EXCEPT ![r] = x] /\ req[r].pc /= "done"
  BY DEF Abandon, Checked
<1> HIDE DEF x
<1>3. Fits(r, x)
  BY <1>1 DEF Fits, Checked
<1> QED
  BY <1>2, <1>3, RequestOnly DEF Abandon

(* A send that has passed its checks.                                        *)
LEMMA SendKeeps ==
  ASSUME IInv, NEW r \in Requests, NEW u \in Users, NEW t \in Requests, send(r, u, t)
  PROVE  IInv'
<1>1. PICK v \in thread[t].members \ {u} :
        /\ ~ blocked_either_way(u, v)
        /\ req' = [req EXCEPT ![r] =
                     [Idle EXCEPT !.pc = "send", !.user = u, !.peer = v, !.thread = t]]
  BY DEF send
<1> DEFINE x == [Idle EXCEPT !.pc = "send", !.user = u, !.peer = v, !.thread = t]
<1>2. v \in Users
  BY DEF IInv, TypeOK, Thread
<1>3. x \in Request /\ x.pc = "send" /\ x.user = u /\ x.peer = v /\ x.thread = t
  BY <1>2 DEF Idle, Request
<1>4. \A p \in blocks : {u, v} /= {p[1], p[2]}
  <2> SUFFICES ASSUME NEW p \in blocks, {u, v} = {p[1], p[2]} PROVE FALSE
    OBVIOUS
  <2>1. p = <<p[1], p[2]>>
    BY DEF IInv, TypeOK
  <2>2. p = <<u, v>> \/ p = <<v, u>>
    BY <2>1
  <2> QED
    BY <1>1, <2>2 DEF blocked_either_way
<1>5. thread[t].dm = {u, v} /\ thread[t].members = {u, v}
  <2>1. u \in thread[t].members /\ thread[t] /= NoThread
    BY DEF send, is_participant, NoThread
  <2>2. thread[t].members = thread[t].dm /\ \E a, b \in Users : thread[t].dm = {a, b}
    BY <2>1 DEF IInv, Shape
  <2> QED
    BY <2>1, <2>2
<1>6. req' = [req EXCEPT ![r] = x]
  BY <1>1
<1> HIDE DEF x
<1>7. Fits(r, x)
  BY <1>2, <1>3, <1>4, <1>5 DEF Fits
<1> QED
  BY <1>6, <1>7, RequestOnly DEF send

(* A request that takes a number is the same request otherwise.              *)
LEMMA NumberedType ==
  ASSUME NEW y \in Request, NEW n \in Nat
  PROVE  LET x == [y EXCEPT !.pc = "numbered", !.seq = n]
         IN  /\ x \in Request /\ x.pc = "numbered" /\ x.thread = y.thread /\ x.seq = n
             /\ x.user = y.user /\ x.peer = y.peer
  BY DEF Request

(* The row lock makes the number the next one and nobody else's.             *)
LEMMA TakeSeqKeeps ==
  ASSUME IInv, NEW r \in Requests, TakeSeq(r)
  PROVE  IInv'
<1> DEFINE t == req[r].thread
           x == [req[r] EXCEPT !.pc = "numbered", !.seq = thread[t].last_seq + 1]
<1>1. req[r] \in Request /\ req[r].pc = "send" /\ t \in Requests /\ thread[t].last_seq \in Nat
  BY DEF IInv, TypeOK, Shape, Thread, TakeSeq
<1>2. /\ x \in Request /\ x.pc = "numbered" /\ x.thread = t /\ x.seq = thread[t].last_seq + 1
      /\ x.user = req[r].user /\ x.peer = req[r].peer
  <2>1. thread[t].last_seq + 1 \in Nat
    BY <1>1
  <2> QED
    BY <1>1, <2>1, NumberedType
<1>3. req' = [req EXCEPT ![r] = x]
  BY DEF TakeSeq
<1>4. /\ x.user \in Users /\ x.peer \in Users
      /\ \A p \in blocks : {x.user, x.peer} = {p[1], p[2]} => r \in before[p]
  BY <1>1, <1>2 DEF IInv, Shape, Checked, BlockStopsLaterRequests, UnderWay
<1>5. thread[t].dm = {x.user, x.peer} /\ thread[t].members = {x.user, x.peer}
  BY <1>1, <1>2 DEF IInv, RequestsCoherent, Pair
<1>6. \A q \in Requests \ {r} : req[q].pc = "numbered" => req[q].thread /= t
  BY DEF TakeSeq, Writing
<1> HIDE DEF x, t
<1>7. Fits(r, x)
  BY <1>1, <1>2, <1>4, <1>5, <1>6 DEF Fits
<1> QED
  BY <1>1, <1>3, <1>7, RequestOnly DEF TakeSeq

-------------------------------------------------------------------------------
(* Steps that touch neither conversations nor requests.                      *)

(* A step that leaves alone what the invariant speaks of.                    *)
LEMMA Untouched ==
  ASSUME IInv, TypeOK', UNCHANGED <<thread, message, req, blocks, before, seen>>,
         \A u \in Users, t \in Requests : reader'[u][t].cursor = reader[u][t].cursor
  PROVE  IInv'
<1>1. Threads' = Threads /\ Messages' = Messages
  BY DEF Threads, Messages
<1>2. \A t \in Requests : In(t)' = In(t)
  BY <1>1 DEF In
<1>3. Shape'
  BY <1>1 DEF IInv, Shape
<1>4. RequestsCoherent'
  BY <1>1 DEF IInv, RequestsCoherent, Existing, Inserting, Writing, Pair
<1>5. OneThreadPerPair' /\ AnswerIsUsable' /\ BlockStopsLaterRequests'
  BY <1>1 DEF IInv, OneThreadPerPair, AnswerIsUsable, is_participant, BlockStopsLaterRequests,
              UnderWay
<1>6. GaplessSequence' /\ NothingSkipped'
  BY <1>2 DEF IInv, GaplessSequence, NothingSkipped
<1> QED
  BY <1>3, <1>4, <1>5, <1>6 DEF IInv

(* The directory changes under the requests.                                 *)
LEMMA DirectoryKeeps ==
  ASSUME IInv, Directory
  PROVE  IInv'
<1>1. UNCHANGED <<thread, message, req, blocks, before, seen, reader>>
  BY DEF Directory, ClaimListing, SetAcceptsDm, CloseJob, ReopenJob, blocking, reading
<1>2. listing' \in [Listings -> Listing] /\ job' \in [Jobs -> Job]
  <2>1. listing \in [Listings -> Listing] /\ job \in [Jobs -> Job]
    BY DEF IInv, TypeOK
  <2>2. ASSUME NEW l \in Listings, NEW u \in Contractors, ClaimListing(l, u)
        PROVE  listing' \in [Listings -> Listing] /\ job' \in [Jobs -> Job]
    BY <2>1, <2>2 DEF ClaimListing, Listing
  <2>3. ASSUME NEW l \in Listings, NEW b \in BOOLEAN, SetAcceptsDm(l, b)
        PROVE  listing' \in [Listings -> Listing] /\ job' \in [Jobs -> Job]
    <3>1. [listing[l] EXCEPT !.accepts_dm = b] \in Listing
      BY <2>1 DEF Listing
    <3> QED
      BY <2>1, <2>3, <3>1 DEF SetAcceptsDm
  <2>4. ASSUME NEW j \in Jobs, CloseJob(j) \/ ReopenJob(j)
        PROVE  listing' \in [Listings -> Listing] /\ job' \in [Jobs -> Job]
    <3>1. [job[j] EXCEPT !.open = FALSE] \in Job /\ [job[j] EXCEPT !.open = TRUE] \in Job
      BY <2>1 DEF Job
    <3> QED
      BY <2>1, <2>4, <3>1 DEF CloseJob, ReopenJob
  <2> QED
    BY <2>2, <2>3, <2>4 DEF Directory
<1>3. TypeOK'
  BY <1>1, <1>2 DEF IInv, TypeOK
<1> QED
  BY <1>1, <1>3, Untouched

(* A mark moves and the cursor does not.                                     *)
LEMMA MarkReadKeeps ==
  ASSUME IInv, NEW u \in Users, NEW t \in Requests, NEW n \in 0 .. thread[t].last_seq,
         MarkRead(u, t, n)
  PROVE  /\ IInv'
         /\ \A v \in Users, s \in Requests :
              reader'[v][s].last_read_seq >= reader[v][s].last_read_seq
<1> DEFINE Mark == [last_read_seq : Nat, cursor : Nat]
<1>1. reader \in [Users -> [Requests -> Mark]] /\ reader[u][t] \in Mark
  BY DEF IInv, TypeOK
<1>2. n \in Nat /\ Greatest(reader[u][t].last_read_seq, n) \in Nat
  BY <1>1 DEF Greatest
<1>3. [reader[u][t] EXCEPT !.last_read_seq = Greatest(@, n)] \in Mark
  BY <1>1, <1>2
<1>4. reader' \in [Users -> [Requests -> Mark]]
  BY <1>1, <1>3 DEF MarkRead
<1>5. \A v \in Users, s \in Requests :
        /\ reader'[v][s].cursor = reader[v][s].cursor
        /\ reader'[v][s].last_read_seq >= reader[v][s].last_read_seq
  BY <1>1, <1>2 DEF MarkRead, Greatest
<1>6. TypeOK'
  BY <1>4 DEF IInv, TypeOK, MarkRead, directory, blocking
<1> QED
  BY <1>5, <1>6, Untouched DEF MarkRead, blocking

(* A page reaches from the cursor to its last message without a gap.         *)
LEMMA PollKeeps ==
  ASSUME IInv, NEW u \in Users, NEW t \in Requests, Poll(u, t)
  PROVE  /\ IInv'
         /\ \A v \in Users, s \in Requests :
              reader'[v][s].last_read_seq >= reader[v][s].last_read_seq
<1> DEFINE Mark == [last_read_seq : Nat, cursor : Nat]
           after == reader[u][t].cursor
<1>1. PICK last \in {m \in In(t) : message[m].seq > after} :
        LET page == {m \in In(t) : message[m].seq \in after + 1 .. message[last].seq}
        IN  /\ reader' = [reader EXCEPT ![u][t].cursor = message[last].seq]
            /\ seen' = [seen EXCEPT ![u] = @ \cup page]
  BY DEF Poll
<1> DEFINE top == message[last].seq
<1>2. reader \in [Users -> [Requests -> Mark]] /\ reader[u][t] \in Mark
  BY DEF IInv, TypeOK
<1>3. /\ last \in In(t) /\ last \in Requests /\ top \in Nat /\ top > after
      /\ \A s \in Requests : In(s) \subseteq Requests
      /\ \A m \in Requests : message[m].seq \in Nat
  BY DEF In, Messages, IInv, TypeOK, Message
<1>4. [reader[u][t] EXCEPT !.cursor = top] \in Mark
  BY <1>2, <1>3
<1>5. reader' \in [Users -> [Requests -> Mark]]
  BY <1>1, <1>2, <1>4
<1>6. \A v \in Users, s \in Requests :
        /\ reader'[v][s].last_read_seq = reader[v][s].last_read_seq
        /\ reader'[v][s].cursor = IF v = u /\ s = t THEN top ELSE reader[v][s].cursor
  BY <1>1, <1>2
<1>7. /\ seen' \in [Users -> SUBSET Requests]
      /\ \A v \in Users : seen[v] \subseteq seen'[v]
      /\ \A m \in In(t) : message[m].seq \in after + 1 .. top => m \in seen'[u]
  BY <1>1, <1>3 DEF IInv, TypeOK
<1>8. UNCHANGED <<listing, job, thread, message, req, blocks, before>>
  BY DEF Poll, directory, blocking
<1>9. TypeOK'
  BY <1>5, <1>7, <1>8 DEF IInv, TypeOK
<1>10. Threads' = Threads /\ Messages' = Messages /\ \A s \in Requests : In(s)' = In(s)
  BY <1>8 DEF Threads, Messages, In
<1> HIDE DEF top, after
<1>11. top <= thread[t].last_seq
  BY <1>3 DEF IInv, GaplessSequence, top
<1>12. Shape'
  <2>1. \A v \in Users, s \in Requests : reader'[v][s].cursor <= thread'[s].last_seq
    BY <1>6, <1>8, <1>11 DEF IInv, Shape
  <2> QED
    BY <1>8, <1>10, <2>1 DEF IInv, Shape
<1>13. NothingSkipped'
  <2> SUFFICES ASSUME NEW v \in Users, NEW s \in Requests, NEW m \in In(s),
                      message[m].seq <= reader'[v][s].cursor
               PROVE  m \in seen'[v]
    BY <1>8, <1>10 DEF NothingSkipped
  <2>1. CASE v = u /\ s = t /\ message[m].seq > after
    BY <1>2, <1>3, <1>6, <1>7, <2>1 DEF after
  <2>2. CASE v = u /\ s = t /\ message[m].seq <= after
    BY <1>7, <2>2 DEF IInv, NothingSkipped, after
  <2>3. CASE ~ (v = u /\ s = t)
    BY <1>6, <1>7, <2>3 DEF IInv, NothingSkipped
  <2> QED
    BY <1>2, <1>3, <2>1, <2>2, <2>3 DEF after
<1>14. RequestsCoherent' /\ OneThreadPerPair' /\ AnswerIsUsable' /\ BlockStopsLaterRequests'
  BY <1>8, <1>10 DEF IInv, RequestsCoherent, Existing, Inserting, Writing, Pair, OneThreadPerPair,
       AnswerIsUsable, is_participant, BlockStopsLaterRequests, UnderWay
<1>15. GaplessSequence'
  BY <1>8, <1>10 DEF IInv, GaplessSequence
<1>16. \A v \in Users, s \in Requests :
         reader'[v][s].last_read_seq >= reader[v][s].last_read_seq
  BY <1>2, <1>6
<1> QED
  BY <1>9, <1>12, <1>13, <1>14, <1>15, <1>16 DEF IInv

(* A block is made: the requests under way are the ones it records.          *)
LEMMA BlockKeeps ==
  ASSUME IInv, NEW u \in Users, NEW v \in Users, Block(u, v) \/ Unblock(u, v)
  PROVE  IInv'
<1>1. UNCHANGED <<listing, job, thread, message, req, reader, seen>>
  BY DEF Block, Unblock, directory, reading
<1>2. TypeOK'
  <2>1. UnderWay(u, v) \in SUBSET Requests
    BY DEF UnderWay
  <2>2. blocks' \in SUBSET (Users \X Users)
    BY DEF IInv, TypeOK, Block, Unblock
  <2>3. before' \in [Users \X Users -> SUBSET Requests]
    <3>1. before \in [Users \X Users -> SUBSET Requests]
      BY DEF IInv, TypeOK
    <3>2. \E S \in SUBSET Requests : before' = [before EXCEPT ![<<u, v>>] = S]
      BY <2>1 DEF Block, Unblock
    <3> QED
      BY <3>1, <3>2
  <2> QED
    BY <1>1, <2>2, <2>3 DEF IInv, TypeOK
<1>3. Threads' = Threads /\ Messages' = Messages /\ \A s \in Requests : In(s)' = In(s)
  BY <1>1 DEF Threads, Messages, In
<1>4. \A a, b \in Users : UnderWay(a, b)' = UnderWay(a, b)
  BY <1>1 DEF UnderWay
<1>5. BlockStopsLaterRequests'
  <2> SUFFICES ASSUME NEW p \in blocks' PROVE UnderWay(p[1], p[2])' \subseteq before'[p]
    BY DEF BlockStopsLaterRequests
  <2>1. p \in Users \X Users /\ before \in [Users \X Users -> SUBSET Requests]
    BY DEF IInv, TypeOK, Block, Unblock
  <2>2. UnderWay(p[1], p[2])' = UnderWay(p[1], p[2])
    BY <1>4, <2>1
  <2>3. CASE p = <<u, v>>
    <3>1. Block(u, v) /\ before'[p] = UnderWay(u, v) /\ p[1] = u /\ p[2] = v
      BY <2>1, <2>3 DEF Block, Unblock
    <3> QED
      BY <2>2, <3>1
  <2>4. CASE p /= <<u, v>>
    BY <2>1, <2>2, <2>4 DEF IInv, BlockStopsLaterRequests, Block, Unblock
  <2> QED
    BY <2>3, <2>4
<1>6. Shape'
  BY <1>1, <1>3 DEF IInv, Shape
<1>7. RequestsCoherent' /\ OneThreadPerPair' /\ AnswerIsUsable'
  BY <1>1, <1>3 DEF IInv, RequestsCoherent, Existing, Inserting, Writing, Pair, OneThreadPerPair,
       AnswerIsUsable, is_participant
<1>8. GaplessSequence' /\ NothingSkipped'
  BY <1>1, <1>3 DEF IInv, GaplessSequence, NothingSkipped
<1> QED
  BY <1>2, <1>5, <1>6, <1>7, <1>8 DEF IInv

(* A message loses its text and keeps its place.                             *)
LEMMA DeleteMessageKeeps ==
  ASSUME IInv, NEW u \in Users, NEW m \in Requests, DeleteMessage(u, m)
  PROVE  IInv'
<1> DEFINE x == [message[m] EXCEPT !.deleted_by = u]
<1>1. message \in [Requests -> Message] /\ message[m] \in Message
  BY DEF IInv, TypeOK
<1>2. /\ x \in Message /\ x.thread = message[m].thread /\ x.seq = message[m].seq
  BY <1>1 DEF Message
<1>3. message' = [message EXCEPT ![m] = x]
  BY DEF DeleteMessage
<1> HIDE DEF x
<1>4. \A k \in Requests : message'[k].thread = message[k].thread /\ message'[k].seq = message[k].seq
  BY <1>1, <1>2, <1>3
<1>5. UNCHANGED <<listing, job, thread, req, blocks, before, reader, seen>>
  BY DEF DeleteMessage, directory, blocking, reading
<1>6. TypeOK'
  BY <1>1, <1>2, <1>3, <1>5 DEF IInv, TypeOK
<1>7. Threads' = Threads /\ Messages' = Messages
  BY <1>4, <1>5 DEF Threads, Messages
<1>8. \A s \in Requests : In(s)' = In(s)
  BY <1>4, <1>7 DEF In, Messages
<1>9. \A s \in Requests : \A k \in In(s) : k \in Requests
  BY DEF In, Messages
<1>10. Shape'
  BY <1>4, <1>5, <1>7 DEF IInv, Shape, Messages
<1>11. RequestsCoherent' /\ OneThreadPerPair' /\ AnswerIsUsable' /\ BlockStopsLaterRequests'
  BY <1>5, <1>7 DEF IInv, RequestsCoherent, Existing, Inserting, Writing, Pair, OneThreadPerPair,
       AnswerIsUsable, is_participant, BlockStopsLaterRequests, UnderWay
<1>12. GaplessSequence'
  BY <1>4, <1>5, <1>8, <1>9 DEF IInv, GaplessSequence
<1>13. NothingSkipped'
  BY <1>4, <1>5, <1>8, <1>9 DEF IInv, NothingSkipped
<1> QED
  BY <1>6, <1>10, <1>11, <1>12, <1>13 DEF IInv

-------------------------------------------------------------------------------
(* Commits.                                                                  *)

(* A conversation appears, empty, for a pair that had none.                  *)
LEMMA StartCommitKeeps ==
  ASSUME IInv, NEW r \in Requests, StartCommit(r)
  PROVE  IInv'
<1> DEFINE row == [dm |-> Pair(r), members |-> Pair(r), job_id |-> req[r].job, last_seq |-> 0]
           x == [req[r] EXCEPT !.pc = "done"]
<1>1. /\ req \in [Requests -> Request] /\ req[r] \in Request /\ thread \in [Requests -> Thread]
      /\ req[r].pc = "inserted" /\ req[r].thread = r
      /\ req[r].user \in Users /\ req[r].peer \in Users
  BY DEF IInv, TypeOK, Shape, Checked, StartCommit
<1>2. /\ x \in Request /\ x.pc = "done" /\ x.thread = r
      /\ x.user = req[r].user /\ x.peer = req[r].peer
  BY <1>1 DEF Request
<1>3. /\ row \in Thread /\ row.dm = Pair(r) /\ row.members = Pair(r) /\ row.last_seq = 0
      /\ Pair(r) /= {} /\ \E a, b \in Users : Pair(r) = {a, b}
  BY <1>1 DEF Thread, Pair, Request
<1>4. thread' = [thread EXCEPT ![r] = row] /\ req' = [req EXCEPT ![r] = x]
  BY DEF StartCommit
<1> HIDE DEF row, x
<1>5. /\ \A t \in Requests : thread'[t] = IF t = r THEN row ELSE thread[t]
      /\ \A q \in Requests : req'[q] = IF q = r THEN x ELSE req[q]
  BY <1>1, <1>4
<1>6. UNCHANGED <<listing, job, message, blocks, before, reader, seen>>
  BY DEF StartCommit, directory, blocking, reading
<1>7. TypeOK'
  BY <1>1, <1>2, <1>3, <1>4, <1>6 DEF IInv, TypeOK
<1>8. r \notin Threads /\ thread[r].dm = {} /\ thread[r].last_seq = 0
  BY <1>1 DEF IInv, Shape, Threads, NoThread
<1>9. Threads' = Threads \cup {r}
  BY <1>3, <1>5 DEF Threads
<1>10. Messages' = Messages /\ \A s \in Requests : In(s)' = In(s)
  BY <1>6 DEF Messages, In
<1>11. In(r) = {} /\ \A s \in Requests : thread'[s].last_seq = thread[s].last_seq
  BY <1>3, <1>5, <1>8 DEF IInv, Shape, In
<1>12. \A t \in Threads : thread'[t] = thread[t] /\ thread[t].dm /= Pair(r)
  BY <1>1, <1>5, <1>8 DEF IInv, RequestsCoherent, Existing, Threads
<1>13. Shape'
  <2>1. \A q \in Requests :
          /\ req'[q].pc \in Checked => req'[q].user \in Users /\ req'[q].peer \in Users
          /\ req'[q].pc = "inserted" => req'[q].thread = q
          /\ req'[q].pc \in {"send", "numbered"} => req'[q].thread \in Requests
    BY <1>2, <1>5 DEF IInv, Shape, Checked
  <2>2. \A t \in Requests :
          /\ thread'[t].dm = {} => thread'[t] = NoThread
          /\ thread'[t].dm /= {} =>
               /\ \E a, b \in Users : thread'[t].dm = {a, b}
               /\ thread'[t].members = thread'[t].dm
               /\ req'[t].pc = "done"
    <3> SUFFICES ASSUME NEW t \in Requests
                 PROVE  /\ thread'[t].dm = {} => thread'[t] = NoThread
                        /\ thread'[t].dm /= {} =>
                             /\ \E a, b \in Users : thread'[t].dm = {a, b}
                             /\ thread'[t].members = thread'[t].dm
                             /\ req'[t].pc = "done"
      OBVIOUS
    <3>1. CASE t = r
      BY <1>2, <1>3, <1>5, <3>1
    <3>2. CASE t /= r
      BY <1>5, <3>2 DEF IInv, Shape
    <3> QED
      BY <3>1, <3>2
  <2>3. \A m \in Messages' : message'[m].thread \in Threads' /\ req'[m].pc = "done"
    BY <1>2, <1>5, <1>6, <1>9, <1>10 DEF IInv, Shape, Messages
  <2>4. \A u \in Users, t \in Requests : reader'[u][t].cursor <= thread'[t].last_seq
    BY <1>6, <1>11 DEF IInv, Shape
  <2> QED
    BY <2>1, <2>2, <2>3, <2>4 DEF Shape
<1>14. RequestsCoherent'
  <2> SUFFICES ASSUME NEW q \in Requests
               PROVE  /\ req'[q].pc = "inserted" => Existing(q)' = {} /\ Inserting(q)' = {}
                      /\ req'[q].pc \in {"send", "numbered"} =>
                           /\ thread'[req'[q].thread].dm = Pair(q)'
                           /\ thread'[req'[q].thread].members = Pair(q)'
                      /\ req'[q].pc = "numbered" =>
                           /\ req'[q].seq = thread'[req'[q].thread].last_seq + 1
                           /\ Writing(req[q].thread)' = {q}
    BY DEF RequestsCoherent
  <2>1. CASE q = r
    BY <1>2, <1>5, <2>1
  <2>2. CASE q /= r
    <3>1. req'[q] = req[q] /\ Pair(q)' = Pair(q)
      BY <1>5, <2>2 DEF Pair
    <3>2. ASSUME req[q].pc = "inserted" PROVE Pair(q) /= Pair(r) /\ Existing(q) = {} /\ Inserting(q) = {}
      BY <1>1, <2>2, <3>2 DEF IInv, RequestsCoherent, Inserting
    <3>3. req[q].pc = "inserted" => Existing(q)' = {}
      BY <1>3, <1>5, <1>9, <1>12, <3>1, <3>2 DEF Existing
    <3>4. req[q].pc = "inserted" => Inserting(q)' = {}
      BY <1>2, <1>5, <3>1, <3>2 DEF Inserting, Pair
    <3>5. ASSUME req[q].pc \in {"send", "numbered"}
          PROVE  /\ req[q].thread \in Requests /\ req[q].thread /= r
                 /\ thread[req[q].thread].dm = Pair(q) /\ thread[req[q].thread].members = Pair(q)
      <4>1. req[q].thread \in Requests /\ thread[req[q].thread].dm = Pair(q)
        BY <3>5 DEF IInv, Shape, RequestsCoherent
      <4>2. Pair(q) /= {}
        BY DEF Pair
      <4> QED
        BY <1>8, <3>5, <4>1, <4>2 DEF IInv, RequestsCoherent
    <3>6. req[q].pc = "numbered" => Writing(req[q].thread)' = {q}
      BY <1>1, <1>2, <1>5, <3>1, <2>2 DEF IInv, RequestsCoherent, Writing
    <3>7. req[q].pc = "numbered" => req[q].seq = thread[req[q].thread].last_seq + 1
      BY DEF IInv, RequestsCoherent
    <3> QED
      BY <1>5, <1>11, <3>1, <3>3, <3>4, <3>5, <3>6, <3>7
  <2> QED
    BY <2>1, <2>2
<1>15. OneThreadPerPair'
  BY <1>3, <1>5, <1>9, <1>12 DEF IInv, OneThreadPerPair
<1>16. AnswerIsUsable'
  BY <1>2, <1>3, <1>5, <1>9, <1>12 DEF IInv, AnswerIsUsable, is_participant, Pair
<1>17. BlockStopsLaterRequests'
  BY <1>2, <1>5, <1>6 DEF IInv, BlockStopsLaterRequests, UnderWay, Checked
<1>18. GaplessSequence' /\ NothingSkipped'
  BY <1>6, <1>10, <1>11 DEF IInv, GaplessSequence, NothingSkipped
<1> QED
  BY <1>7, <1>13, <1>14, <1>15, <1>16, <1>17, <1>18 DEF IInv

(* A message appears with the number after the last.                         *)
LEMMA SendCommitKeeps ==
  ASSUME IInv, NEW r \in Requests, SendCommit(r)
  PROVE  IInv'
<1> DEFINE t == req[r].thread
           n == req[r].seq
           row == [thread[t] EXCEPT !.last_seq = n]
           x == [req[r] EXCEPT !.pc = "done"]
           new == [thread |-> t, seq |-> n, sender |-> req[r].user, deleted_by |-> None]
<1>1. /\ req \in [Requests -> Request] /\ req[r] \in Request /\ thread \in [Requests -> Thread]
      /\ message \in [Requests -> Message] /\ req[r].pc = "numbered" /\ t \in Requests
      /\ n \in Nat /\ thread[t] \in Thread /\ thread[t].last_seq \in Nat
  BY DEF IInv, TypeOK, Shape, SendCommit, Request, Thread
<1>2. /\ thread[t].dm = Pair(r) /\ thread[t].members = Pair(r) /\ n = thread[t].last_seq + 1
      /\ \A q \in Requests : req[q].pc = "numbered" /\ req[q].thread = t => q = r
  BY <1>1 DEF IInv, RequestsCoherent, Writing
<1>3. /\ x \in Request /\ x.pc = "done" /\ x.thread = t
      /\ x.user = req[r].user /\ x.peer = req[r].peer
  BY <1>1 DEF Request
<1>4. /\ row \in Thread /\ row.dm = thread[t].dm /\ row.members = thread[t].members
      /\ row.last_seq = n
  BY <1>1 DEF Thread
<1>5. new \in Message /\ new.thread = t /\ new.seq = n
  BY <1>1 DEF Message, Request
<1>6. /\ thread' = [thread EXCEPT ![t] = row] /\ req' = [req EXCEPT ![r] = x]
      /\ message' = [message EXCEPT ![r] = new]
  BY DEF SendCommit
<1> HIDE DEF row, x, new, n, t
<1>7. /\ \A s \in Requests : thread'[s] = IF s = t THEN row ELSE thread[s]
      /\ \A q \in Requests : req'[q] = IF q = r THEN x ELSE req[q]
      /\ \A m \in Requests : message'[m] = IF m = r THEN new ELSE message[m]
  BY <1>1, <1>6
<1>8. UNCHANGED <<listing, job, blocks, before, reader, seen>>
  BY DEF SendCommit, directory, blocking, reading
<1>9. TypeOK'
  BY <1>1, <1>3, <1>4, <1>5, <1>6, <1>8 DEF IInv, TypeOK
<1>10. \A s \in Requests : thread'[s].dm = thread[s].dm /\ thread'[s].members = thread[s].members
  BY <1>4, <1>7
<1>11. \A s \in Requests : thread'[s].last_seq = IF s = t THEN n ELSE thread[s].last_seq
  BY <1>4, <1>7
<1>12. Threads' = Threads /\ t \in Threads
  <2>1. Pair(r) /= {}
    BY DEF Pair
  <2> QED
    BY <1>1, <1>2, <1>10, <2>1 DEF Threads
<1>13. r \notin Messages
  BY <1>1 DEF IInv, Shape
<1>14. Messages' = Messages \cup {r}
  BY <1>1, <1>5, <1>7, <1>13, NotNull DEF Messages
<1>15. \A s \in Requests : In(s)' = IF s = t THEN In(t) \cup {r} ELSE In(s)
  BY <1>5, <1>7, <1>13, <1>14 DEF In, Messages
<1>16. /\ \A s \in Requests : In(s) \subseteq Messages /\ In(s) \subseteq Requests
       /\ \A m \in Messages : message'[m] = message[m]
       /\ message'[r].seq = n /\ message'[r].thread = t
       /\ \A m \in Requests : message[m].seq \in Nat
  BY <1>1, <1>5, <1>7, <1>13 DEF In, Messages, Message
<1>17. Shape'
  <2>1. \A q \in Requests :
          /\ req'[q].pc \in Checked => req'[q].user \in Users /\ req'[q].peer \in Users
          /\ req'[q].pc = "inserted" => req'[q].thread = q
          /\ req'[q].pc \in {"send", "numbered"} => req'[q].thread \in Requests
    BY <1>3, <1>7 DEF IInv, Shape, Checked
  <2>2. \A s \in Requests :
          /\ thread'[s].dm = {} => thread'[s] = NoThread
          /\ thread'[s].dm /= {} =>
               /\ \E a, b \in Users : thread'[s].dm = {a, b}
               /\ thread'[s].members = thread'[s].dm
               /\ req'[s].pc = "done"
    <3> SUFFICES ASSUME NEW s \in Requests
                 PROVE  /\ thread'[s].dm = {} => thread'[s] = NoThread
                        /\ thread'[s].dm /= {} =>
                             /\ \E a, b \in Users : thread'[s].dm = {a, b}
                             /\ thread'[s].members = thread'[s].dm
                             /\ req'[s].pc = "done"
      OBVIOUS
    <3>1. thread[s].dm = {} => s /= t
      BY <1>12 DEF Threads
    <3> QED
      BY <1>3, <1>7, <1>10, <3>1 DEF IInv, Shape
  <2>3. \A m \in Messages' : message'[m].thread \in Threads' /\ req'[m].pc = "done"
    BY <1>3, <1>7, <1>12, <1>14, <1>16 DEF IInv, Shape, Messages
  <2>4. \A u \in Users, s \in Requests : reader'[u][s].cursor <= thread'[s].last_seq
    <3>1. \A u \in Users, s \in Requests : reader[u][s].cursor \in Nat
      BY DEF IInv, TypeOK
    <3> QED
      BY <1>1, <1>2, <1>8, <1>11, <3>1 DEF IInv, Shape
  <2> QED
    BY <2>1, <2>2, <2>3, <2>4 DEF Shape
<1>18. RequestsCoherent'
  <2> SUFFICES ASSUME NEW q \in Requests
               PROVE  /\ req'[q].pc = "inserted" => Existing(q)' = {} /\ Inserting(q)' = {}
                      /\ req'[q].pc \in {"send", "numbered"} =>
                           /\ thread'[req'[q].thread].dm = Pair(q)'
                           /\ thread'[req'[q].thread].members = Pair(q)'
                      /\ req'[q].pc = "numbered" =>
                           /\ req'[q].seq = thread'[req'[q].thread].last_seq + 1
                           /\ Writing(req[q].thread)' = {q}
    BY DEF RequestsCoherent
  <2>1. CASE q = r
    BY <1>3, <1>7, <2>1
  <2>2. CASE q /= r
    <3>1. req'[q] = req[q] /\ Pair(q)' = Pair(q)
      BY <1>7, <2>2 DEF Pair
    <3>2. req[q].pc = "inserted" => Existing(q) = {} /\ Inserting(q) = {}
      BY DEF IInv, RequestsCoherent
    <3>3. req[q].pc = "inserted" => Existing(q)' = {}
      BY <1>10, <1>12, <3>1, <3>2 DEF Existing, Threads
    <3>4. req[q].pc = "inserted" => Inserting(q)' = {}
      BY <1>3, <1>7, <3>1, <3>2 DEF Inserting, Pair
    <3>5. req[q].pc \in {"send", "numbered"} =>
            /\ req[q].thread \in Requests
            /\ thread[req[q].thread].dm = Pair(q) /\ thread[req[q].thread].members = Pair(q)
      BY DEF IInv, Shape, RequestsCoherent
    <3>6. req[q].pc = "numbered" =>
            /\ Writing(req[q].thread)' = {q}
            /\ req[q].thread /= t /\ req[q].seq = thread[req[q].thread].last_seq + 1
      BY <1>2, <1>3, <1>7, <2>2, <3>1 DEF IInv, RequestsCoherent, Writing
    <3> QED
      BY <1>10, <1>11, <3>1, <3>3, <3>4, <3>5, <3>6
  <2> QED
    BY <2>1, <2>2
<1>19. OneThreadPerPair'
  BY <1>10, <1>12 DEF IInv, OneThreadPerPair, Threads
<1>20. AnswerIsUsable'
  <2>1. x.user \in thread[t].members /\ x.peer \in thread[t].members
    BY <1>2, <1>3 DEF Pair
  <2> QED
    BY <1>3, <1>7, <1>10, <1>12, <2>1 DEF IInv, AnswerIsUsable, is_participant, Threads
<1>21. BlockStopsLaterRequests'
  BY <1>3, <1>7, <1>8 DEF IInv, BlockStopsLaterRequests, UnderWay, Checked
<1>22. GaplessSequence'
  <2> SUFFICES ASSUME NEW s \in Requests
               PROVE  /\ \A m \in In(s)' : message'[m].seq \in 1 .. thread'[s].last_seq
                      /\ \A k \in 1 .. thread'[s].last_seq : \E m \in In(s)' : message'[m].seq = k
                      /\ \A m, k \in In(s)' : message'[m].seq = message'[k].seq => m = k
    BY DEF GaplessSequence
  <2>1. /\ \A m \in In(s) : message[m].seq \in 1 .. thread[s].last_seq /\ message'[m] = message[m]
        /\ \A k \in 1 .. thread[s].last_seq : \E m \in In(s) : message[m].seq = k
        /\ \A m, k \in In(s) : message[m].seq = message[k].seq => m = k
    BY <1>16 DEF IInv, GaplessSequence
  <2>2. CASE s /= t
    BY <1>11, <1>15, <2>1, <2>2
  <2>3. CASE s = t
    <3>1. In(s)' = In(s) \cup {r} /\ thread'[s].last_seq = n /\ n = thread[s].last_seq + 1
      BY <1>2, <1>11, <1>15, <2>3
    <3>2. \A m \in In(s) : message'[m].seq \in 1 .. thread[s].last_seq /\ message'[m].seq /= n
      BY <1>1, <2>1, <2>3, <3>1
    <3>3. \A m \in In(s)' : message'[m].seq \in 1 .. n
      BY <1>1, <1>16, <2>3, <3>1, <3>2
    <3>4. \A k \in 1 .. n : \E m \in In(s)' : message'[m].seq = k
      <4> SUFFICES ASSUME NEW k \in 1 .. n PROVE \E m \in In(s)' : message'[m].seq = k
        OBVIOUS
      <4>1. CASE k = n
        BY <1>16, <3>1, <4>1
      <4>2. CASE k /= n
        <5>1. k \in 1 .. thread[s].last_seq
          BY <1>1, <2>3, <3>1, <4>2
        <5> QED
          BY <2>1, <3>1, <5>1
      <4> QED
        BY <4>1, <4>2
    <3>5. \A m, k \in In(s)' : message'[m].seq = message'[k].seq => m = k
      BY <1>16, <2>1, <3>1, <3>2
    <3> QED
      BY <3>1, <3>3, <3>4, <3>5
  <2> QED
    BY <2>2, <2>3
<1>23. NothingSkipped'
  <2> SUFFICES ASSUME NEW u \in Users, NEW s \in Requests, NEW m \in In(s)',
                      message'[m].seq <= reader[u][s].cursor
               PROVE  m \in seen[u]
    BY <1>8 DEF NothingSkipped
  <2>1. reader[u][s].cursor <= thread[s].last_seq /\ reader[u][s].cursor \in Nat
    BY DEF IInv, Shape, TypeOK
  <2>2. m \in In(s)
    BY <1>1, <1>2, <1>15, <1>16, <2>1
  <2> QED
    BY <1>16, <2>2 DEF IInv, NothingSkipped
<1> QED
  BY <1>9, <1>17, <1>18, <1>19, <1>20, <1>21, <1>22, <1>23 DEF IInv

-------------------------------------------------------------------------------
(* Every step keeps the inductive invariant.                                 *)
LEMMA StepInvariant == IInv /\ [Next]_vars => IInv'
<1> SUFFICES ASSUME IInv, [Next]_vars PROVE IInv'
  OBVIOUS
<1>1. CASE Directory
  BY <1>1, DirectoryKeeps
<1>2. ASSUME NEW r \in Requests, Begin(r) PROVE IInv'
  BY <1>2, StartWithContractorKeeps, StartWithJobKeeps, SendKeeps DEF Begin
<1>3. ASSUME NEW r \in Requests, Proceed(r) PROVE IInv'
  BY <1>3, InsertThreadKeeps, FindThreadKeeps, StartCommitKeeps, TakeSeqKeeps, SendCommitKeeps
  DEF Proceed
<1>4. ASSUME NEW r \in Requests, Abandon(r) PROVE IInv'
  BY <1>4, AbandonKeeps
<1>5. ASSUME NEW u \in Users, Read(u) PROVE IInv'
  BY <1>5, PollKeeps, MarkReadKeeps, DeleteMessageKeeps DEF Read
<1>6. ASSUME NEW u \in Users, Protect(u) PROVE IInv'
  BY <1>6, BlockKeeps DEF Protect
<1>7. CASE UNCHANGED vars
  <2>1. TypeOK'
    BY <1>7 DEF IInv, TypeOK, vars
  <2> QED
    BY <1>7, <2>1, Untouched DEF vars
<1> QED
  BY <1>1, <1>2, <1>3, <1>4, <1>5, <1>6, <1>7 DEF Next

(* The inductive invariant holds throughout.                                 *)
THEOREM Invariance == Spec => []IInv
  BY InitInvariant, StepInvariant, PTL DEF Spec

(* Every table and every request keeps its type.                             *)
THEOREM TypeCorrectness == Spec => []TypeOK
<1>1. IInv => TypeOK
  BY DEF IInv
<1> QED
  BY <1>1, Invariance, PTL

(* Racing starts never leave a pair with two conversations                   *)
(* (find_or_create_dm).                                                      *)
THEOREM OneConversation == Spec => []OneThreadPerPair
<1>1. IInv => OneThreadPerPair
  BY DEF IInv
<1> QED
  BY <1>1, Invariance, PTL

(* What start_with_contractor and start_with_job return can be written to.   *)
THEOREM UsableAnswers == Spec => []AnswerIsUsable
<1>1. IInv => AnswerIsUsable
  BY DEF IInv
<1> QED
  BY <1>1, Invariance, PTL

(* What a request has found out stays true until it commits.                 *)
THEOREM Coherence == Spec => []RequestsCoherent
<1>1. IInv => RequestsCoherent
  BY DEF IInv
<1> QED
  BY <1>1, Invariance, PTL

(* The numbers of a conversation have no gap and no repetition               *)
(* (messaging::send).                                                        *)
THEOREM Gapless == Spec => []GaplessSequence
<1>1. IInv => GaplessSequence
  BY DEF IInv
<1> QED
  BY <1>1, Invariance, PTL

(* A client that polls on its cursor is given every message (after_seq).     *)
THEOREM NoMessageLost == Spec => []NothingSkipped
<1>1. IInv => NothingSkipped
  BY DEF IInv
<1> QED
  BY <1>1, Invariance, PTL

(* Numbers without a gap count what carries them: of the numbers up to b,    *)
(* those above a are b - a of them.                                          *)
LEMMA CountAbove ==
  ASSUME NEW S, NEW f \in [S -> Nat], NEW a \in Nat, NEW b \in Nat,
         \A m \in S : f[m] \in 1 .. b,
         \A n \in 1 .. b : \E m \in S : f[m] = n,
         \A m, k \in S : f[m] = f[k] => m = k
  PROVE  Cardinality({m \in S : f[m] > a}) = Greatest(b - a, 0)
<1> DEFINE Above == {m \in S : f[m] > a}
           g == [m \in Above |-> f[m]]
<1>1. CASE a >= b
  <2>1. Above = {}
    BY <1>1
  <2> QED
    BY <1>1, <2>1, FS_EmptySet DEF Greatest
<1>2. CASE a < b
  <2>1. /\ IsFiniteSet(a + 1 .. b) /\ Cardinality(a + 1 .. b) = b - a
    <3>1. a + 1 \in Int /\ b \in Int /\ ~ (a + 1 > b) /\ b - (a + 1) + 1 = b - a
      BY <1>2
    <3> QED
      BY <3>1, FS_Interval
  <2>2. g \in [Above -> a + 1 .. b] /\ \A m \in Above : g[m] = f[m]
    OBVIOUS
  <2>3. \A m, k \in Above : g[m] = g[k] => m = k
    BY <2>2
  <2>4. \A n \in a + 1 .. b : \E m \in Above : g[m] = n
    <3> SUFFICES ASSUME NEW n \in a + 1 .. b PROVE \E m \in Above : g[m] = n
      OBVIOUS
    <3>1. n \in 1 .. b /\ n > a
      OBVIOUS
    <3>2. PICK m \in S : f[m] = n
      BY <3>1
    <3> QED
      BY <2>2, <3>1, <3>2
  <2> HIDE DEF g, Above
  <2>5. g \in Bijection(Above, a + 1 .. b)
    BY <2>2, <2>3, <2>4, Fun_IsBij, Zenon
  <2>6. ExistsBijection(a + 1 .. b, Above)
    BY <2>5, Fun_ExistsBijSymmetric, Zenon DEF ExistsBijection
  <2>7. Cardinality(Above) = b - a
    BY <2>1, <2>6, FS_Bijection
  <2> QED
    BY <1>2, <2>7 DEF Greatest, Above
<1> QED
  BY <1>1, <1>2

(* The inbox's subtraction is a count: no number is missing, none is used    *)
(* twice, and a removed message keeps its own (list_for_user).               *)
THEOREM UnreadCounts == Spec => []UnreadExact
<1>1. IInv => UnreadExact
  <2> SUFFICES ASSUME IInv, NEW t \in Threads, NEW u \in thread[t].members
               PROVE  unread(u, t) =
                        Cardinality({m \in In(t) : message[m].seq > reader[u][t].last_read_seq})
    BY DEF UnreadExact
  <2> DEFINE f == [m \in In(t) |-> message[m].seq]
             a == reader[u][t].last_read_seq
             b == thread[t].last_seq
  <2>1. t \in Requests /\ u \in Users
    BY DEF Threads, IInv, TypeOK, Thread
  <2>2. a \in Nat /\ b \in Nat
    BY <2>1 DEF IInv, TypeOK, Thread
  <2>3. f \in [In(t) -> Nat] /\ \A m \in In(t) : f[m] = message[m].seq
    BY DEF In, Messages, IInv, TypeOK, Message
  <2>4. /\ \A m \in In(t) : f[m] \in 1 .. b
        /\ \A n \in 1 .. b : \E m \in In(t) : f[m] = n
        /\ \A m, k \in In(t) : f[m] = f[k] => m = k
    BY <2>1, <2>3 DEF IInv, GaplessSequence
  <2> HIDE DEF f, a, b
  <2>5. Cardinality({m \in In(t) : f[m] > a}) = Greatest(b - a, 0)
    BY <2>2, <2>3, <2>4, CountAbove
  <2>6. {m \in In(t) : f[m] > a} = {m \in In(t) : message[m].seq > a}
    BY <2>3
  <2> QED
    BY <2>5, <2>6 DEF a, b, unread
<1> QED
  BY <1>1, Invariance, PTL

(* A block stops every request that was not under way when it was made       *)
(* (blocked_either_way).                                                     *)
THEOREM BlocksHold == Spec => []BlockStopsLaterRequests
<1>1. IInv => BlockStopsLaterRequests
  BY DEF IInv
<1> QED
  BY <1>1, Invariance, PTL

(* The part of the database that each step leaves alone.                     *)
LEMMA MessagesOnlyBy ==
  ASSUME IInv, [Next]_vars
  PROVE  \/ message' = message
         \/ \E r \in Requests : SendCommit(r)
         \/ \E u \in Users, m \in Requests : DeleteMessage(u, m)
<1>1. CASE Directory
  BY <1>1 DEF Directory, ClaimListing, SetAcceptsDm, CloseJob, ReopenJob
<1>2. ASSUME NEW r \in Requests, Begin(r) \/ Abandon(r) PROVE message' = message
  BY <1>2 DEF Begin, start_with_contractor, start_with_job, send, Abandon
<1>3. ASSUME NEW r \in Requests, Proceed(r) PROVE message' = message \/ SendCommit(r)
  BY <1>3 DEF Proceed, InsertThread, FindThread, StartCommit, TakeSeq
<1>4. ASSUME NEW u \in Users, Read(u)
      PROVE  message' = message \/ \E m \in Requests : DeleteMessage(u, m)
  BY <1>4 DEF Read, Poll, MarkRead
<1>5. ASSUME NEW u \in Users, Protect(u) PROVE message' = message
  BY <1>5 DEF Protect, Block, Unblock
<1>6. CASE UNCHANGED vars
  BY <1>6 DEF vars
<1> QED
  BY <1>1, <1>2, <1>3, <1>4, <1>5, <1>6 DEF Next

(* A message that was sent stays, with its sender and its place, and only    *)
(* its sender can remove its text (soft_delete).                             *)
THEOREM Evidence == Spec => EvidenceKept
<1> DEFINE Kept == \A m \in Messages :
                     \/ message'[m] = message[m]
                     \/ /\ message[m].deleted_by = None
                        /\ message'[m] = [message[m] EXCEPT !.deleted_by = message[m].sender]
<1>1. IInv /\ [Next]_vars => [Kept]_vars
  <2> SUFFICES ASSUME IInv, [Next]_vars, NEW m \in Messages
               PROVE  \/ message'[m] = message[m]
                      \/ /\ message[m].deleted_by = None
                         /\ message'[m] = [message[m] EXCEPT !.deleted_by = message[m].sender]
    OBVIOUS
  <2>1. m \in Requests /\ req[m].pc = "done" /\ message \in [Requests -> Message]
    BY DEF IInv, Shape, TypeOK, Messages
  <2>2. ASSUME NEW r \in Requests, SendCommit(r) PROVE message'[m] = message[m]
    BY <2>1, <2>2 DEF SendCommit
  <2>3. ASSUME NEW u \in Users, NEW k \in Requests, DeleteMessage(u, k)
        PROVE  \/ message'[m] = message[m]
               \/ /\ message[m].deleted_by = None
                  /\ message'[m] = [message[m] EXCEPT !.deleted_by = message[m].sender]
    BY <2>1, <2>3 DEF DeleteMessage
  <2> QED
    BY <2>2, <2>3, MessagesOnlyBy
<1> QED
  BY <1>1, Invariance, PTL DEF Spec, EvidenceKept

(* Read marks never go back, in whatever order the calls arrive (mark_read). *)
THEOREM MarksAdvance == Spec => ReadMarksAdvance
<1> DEFINE Advance == \A u \in Users, t \in Requests :
                        reader'[u][t].last_read_seq >= reader[u][t].last_read_seq
<1>1. IInv /\ [Next]_vars => [Advance]_vars
  <2> SUFFICES ASSUME IInv, [Next]_vars PROVE Advance
    OBVIOUS
  <2>1. ASSUME reader' = reader PROVE Advance
    <3>1. \A u \in Users, t \in Requests : reader[u][t].last_read_seq \in Nat
      BY DEF IInv, TypeOK
    <3> QED
      BY <2>1, <3>1
  <2>2. CASE Directory
    BY <2>1, <2>2 DEF Directory, ClaimListing, SetAcceptsDm, CloseJob, ReopenJob, reading
  <2>3. ASSUME NEW r \in Requests, Begin(r) \/ Proceed(r) \/ Abandon(r) PROVE reader' = reader
    BY <2>3 DEF Begin, start_with_contractor, start_with_job, send, Proceed, InsertThread,
         FindThread, StartCommit, TakeSeq, SendCommit, Abandon, reading
  <2>4. ASSUME NEW u \in Users, Read(u) PROVE Advance
    <3>1. ASSUME NEW m \in Requests, DeleteMessage(u, m) PROVE reader' = reader
      BY <3>1 DEF DeleteMessage, reading
    <3> QED
      BY <2>1, <2>4, <3>1, PollKeeps, MarkReadKeeps DEF Read
  <2>5. ASSUME NEW u \in Users, Protect(u) PROVE reader' = reader
    BY <2>5 DEF Protect, Block, Unblock, reading
  <2>6. CASE UNCHANGED vars
    BY <2>1, <2>6 DEF vars
  <2> QED
    BY <2>1, <2>2, <2>3, <2>4, <2>5, <2>6 DEF Next
<1> QED
  BY <1>1, Invariance, PTL DEF Spec, ReadMarksAdvance
===============================================================================
