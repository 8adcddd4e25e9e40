------------------------------- MODULE Messaging -------------------------------
(***************************************************************************)
(* Direct messages and blocks                                              *)
(* (crates/cm-domain/src/messaging.rs, crates/cm-db/src/repo/messaging.rs  *)
(* and crates/cm-api/src/handlers/messaging.rs).                           *)
(*                                                                         *)
(* Starting a conversation and sending a message are transactions of       *)
(* several statements at READ COMMITTED: the checks read what is committed *)
(* at that moment, the INSERT into conversations waits on the unique index *)
(* over the pair, and the UPDATE that takes the next sequence number holds *)
(* the conversation's row until the commit.  The other operations are one  *)
(* statement each.  A conversation and a message are named by the request  *)
(* that made them.  The rate limits and the checks on bodies only end a    *)
(* request early and are left out, as are the rows that nothing here reads  *)
(* back: the audit and the reports.                                        *)
(***************************************************************************)
EXTENDS Integers, FiniteSets

CONSTANTS
  Homeowners,    \* accounts that may hire
  Contractors,   \* accounts that may claim a listing
  Listings,      \* rows of contractors
  Jobs,          \* rows of jobs
  Requests,      \* requests to start a conversation or to send
  None,          \* NULL
  MaxPage,       \* MAX_PAGE, the most messages one poll returns
  MaxBlocks      \* bound: how many blocks stand at once

ASSUME PeopleAssumption == Homeowners \cap Contractors = {}
ASSUME NullAssumption ==
  /\ None \notin Homeowners \cup Contractors
  /\ None \notin Jobs /\ None \notin Requests
ASSUME BoundAssumption == MaxPage \in Nat \ {0} /\ MaxBlocks \in Nat

Users == Homeowners \cup Contractors

VARIABLES
  listing,   \* who owns a listing and whether it takes messages
  job,       \* who posted a job and whether it is open
  thread,    \* conversations with their participants, as committed
  message,   \* messages, as committed
  req,       \* requests under way
  blocks,    \* user_blocks: <<blocker, blocked>>
  before,    \* observer: who had passed the checks when a block was made
  reader,    \* last_read_seq, and the cursor of the client's poll
  seen       \* observer: the messages a user's polls have returned

vars == <<listing, job, thread, message, req, blocks, before, reader, seen>>
directory == <<listing, job>>
blocking == <<blocks, before>>
reading == <<reader, seen>>

Listing == [owner : Contractors \cup {None}, accepts_dm : BOOLEAN]
Job == [poster : Homeowners, open : BOOLEAN]
Thread ==
  [dm       : SUBSET Users,            \* {dm_lo, dm_hi}
   members  : SUBSET Users,            \* conversation_participants
   job_id   : Jobs \cup {None},
   last_seq : Nat]
NoThread == [dm |-> {}, members |-> {}, job_id |-> None, last_seq |-> 0]
Message ==
  [thread     : Requests \cup {None},
   seq        : Nat,
   sender     : Users \cup {None},
   deleted_by : Users \cup {None}]
NoMessage == [thread |-> None, seq |-> 0, sender |-> None, deleted_by |-> None]
Request ==
  [pc     : {"idle", "start", "inserted", "send", "numbered", "done"},
   user   : Users \cup {None},
   peer   : Users \cup {None},
   job    : Jobs \cup {None},
   thread : Requests \cup {None},      \* the conversation it found, made or writes to
   seq    : Nat]                       \* the number it took
Idle == [pc |-> "idle", user |-> None, peer |-> None, job |-> None, thread |-> None, seq |-> 0]

TypeOK ==
  /\ listing \in [Listings -> Listing]
  /\ job \in [Jobs -> Job]
  /\ thread \in [Requests -> Thread]
  /\ message \in [Requests -> Message]
  /\ req \in [Requests -> Request]
  /\ blocks \in SUBSET (Users \X Users)
  /\ before \in [Users \X Users -> SUBSET Requests]
  /\ reader \in [Users -> [Requests -> [last_read_seq : Nat, cursor : Nat]]]
  /\ seen \in [Users -> SUBSET Requests]

Init ==
  /\ listing = [l \in Listings |-> [owner |-> None, accepts_dm |-> FALSE]]
  /\ job \in [Jobs -> [poster : Homeowners, open : {TRUE}]]
  /\ thread = [r \in Requests |-> NoThread]
  /\ message = [r \in Requests |-> NoMessage]
  /\ req = [r \in Requests |-> Idle]
  /\ blocks = {}
  /\ before = [p \in Users \X Users |-> {}]
  /\ reader = [u \in Users |-> [t \in Requests |-> [last_read_seq |-> 0, cursor |-> 0]]]
  /\ seen = [u \in Users |-> {}]

-------------------------------------------------------------------------------
(* What the statements read.                                                 *)

Threads == {t \in Requests : thread[t].dm /= {}}
Messages == {m \in Requests : message[m].thread /= None}
In(t) == {m \in Messages : message[m].thread = t}

is_participant(t, u) == u \in thread[t].members

\* Mutant: only the blocks that the sender has made count.
BlockedOneWay(a, b) == <<a, b>> \in blocks
blocked_either_way(a, b) == <<a, b>> \in blocks \/ <<b, a>> \in blocks

(* Requests past their checks between two users, and not yet committed.      *)
Checked == {"start", "inserted", "send", "numbered"}
UnderWay(u, v) == {r \in Requests : req[r].pc \in Checked /\ {req[r].user, req[r].peer} = {u, v}}

-------------------------------------------------------------------------------
(* The directory, as far as messaging reads it.                              *)

(* attach_claimant; an account claims one listing at most.                   *)
ClaimListing(l, u) ==
  /\ listing[l].owner = None
  /\ \A k \in Listings : listing[k].owner /= u
  /\ listing' = [listing EXCEPT ![l] = [owner |-> u, accepts_dm |-> TRUE]]
  /\ UNCHANGED <<job, thread, message, req, blocking, reading>>

(* update_profile, by the listing's owner.                                   *)
SetAcceptsDm(l, b) ==
  /\ listing[l].owner /= None
  /\ listing' = [listing EXCEPT ![l].accepts_dm = b]
  /\ UNCHANGED <<job, thread, message, req, blocking, reading>>

(* close, for good if cancelled, and reopen.                                 *)
CloseJob(j) ==
  /\ job[j].open
  /\ job' = [job EXCEPT ![j].open = FALSE]
  /\ UNCHANGED <<listing, thread, message, req, blocking, reading>>

ReopenJob(j) ==
  /\ ~ job[j].open
  /\ job' = [job EXCEPT ![j].open = TRUE]
  /\ UNCHANGED <<listing, thread, message, req, blocking, reading>>

-------------------------------------------------------------------------------
(* Starting a conversation.                                                  *)

Started(u, v, j) == [Idle EXCEPT !.pc = "start", !.user = u, !.peer = v, !.job = j]

start_with_contractor(r, u, l) ==
  /\ req[r].pc = "idle"
  /\ listing[l].owner /= None /\ listing[l].accepts_dm
  /\ ~ blocked_either_way(u, listing[l].owner)
  /\ req' = [req EXCEPT ![r] = Started(u, listing[l].owner, None)]
  /\ UNCHANGED <<directory, thread, message, blocking, reading>>

start_with_job(r, u, j) ==
  /\ req[r].pc = "idle"
  /\ \E l \in Listings : listing[l].owner = u
  /\ job[j].open
  /\ ~ blocked_either_way(u, job[j].poster)
  /\ req' = [req EXCEPT ![r] = Started(u, job[j].poster, j)]
  /\ UNCHANGED <<directory, thread, message, blocking, reading>>

Pair(r) == {req[r].user, req[r].peer}
Existing(r) == {t \in Threads : thread[t].dm = Pair(r)}
Inserting(r) == {q \in Requests \ {r} : req[q].pc = "inserted" /\ Pair(q) = Pair(r)}

\* Mutant: no unique index, so only what is committed is looked at.
InsertUnindexed(r) ==
  /\ req[r].pc = "start"
  /\ Existing(r) = {}
  /\ req' = [req EXCEPT ![r].pc = "inserted", ![r].thread = r]
  /\ UNCHANGED <<directory, thread, message, blocking, reading>>
(* INSERT ... ON CONFLICT DO NOTHING waits for whoever is inserting the same *)
(* pair, and inserts if that one rolled back or never was.                   *)
InsertThread(r) ==
  /\ req[r].pc = "start"
  /\ Inserting(r) = {}
  /\ Existing(r) = {}
  /\ req' = [req EXCEPT ![r].pc = "inserted", ![r].thread = r]
  /\ UNCHANGED <<directory, thread, message, blocking, reading>>

\* Mutant: the row that made the INSERT do nothing is returned as it is found,
\* committed or not.
FindUncommitted(r) ==
  /\ req[r].pc = "start"
  /\ \E t \in Existing(r) \cup Inserting(r) :
       req' = [req EXCEPT ![r].pc = "done", ![r].thread = t]
  /\ UNCHANGED <<directory, thread, message, blocking, reading>>
(* The INSERT did nothing: the SELECT after it finds the row, committed by   *)
(* then, and the transaction commits without a change.                       *)
FindThread(r) ==
  /\ req[r].pc = "start"
  /\ Inserting(r) = {}
  /\ \E t \in Existing(r) : req' = [req EXCEPT ![r].pc = "done", ![r].thread = t]
  /\ UNCHANGED <<directory, thread, message, blocking, reading>>

(* The conversation and both its participants become visible together.       *)
StartCommit(r) ==
  /\ req[r].pc = "inserted"
  /\ thread' = [thread EXCEPT ![r] =
                  [dm |-> Pair(r), members |-> Pair(r), job_id |-> req[r].job, last_seq |-> 0]]
  /\ req' = [req EXCEPT ![r].pc = "done"]
  /\ UNCHANGED <<directory, message, blocking, reading>>

-------------------------------------------------------------------------------
(* Sending.                                                                  *)

(* send up to its last check: participation, the counterpart and the blocks  *)
(* between the two.                                                          *)
send(r, u, t) ==
  /\ req[r].pc = "idle"
  /\ is_participant(t, u)
  /\ \E v \in thread[t].members \ {u} :
       /\ ~ blocked_either_way(u, v)
       /\ req' = [req EXCEPT ![r] =
                    [Idle EXCEPT !.pc = "send", !.user = u, !.peer = v, !.thread = t]]
  /\ UNCHANGED <<directory, thread, message, blocking, reading>>

Writing(t) == {q \in Requests : req[q].pc = "numbered" /\ req[q].thread = t}

\* Mutant: the number is read and the row is not locked.
TakeSeqUnlocked(r) ==
  /\ req[r].pc = "send"
  /\ req' = [req EXCEPT ![r].pc = "numbered", ![r].seq = thread[req[r].thread].last_seq + 1]
  /\ UNCHANGED <<directory, thread, message, blocking, reading>>
\* Mutant: the number comes from a counter outside the transactions.
TakeSeqFromCounter(r) ==
  /\ req[r].pc = "send"
  /\ req' = [req EXCEPT ![r].pc = "numbered",
                        ![r].seq = thread[req[r].thread].last_seq + Cardinality(Writing(req[r].thread)) + 1]
  /\ UNCHANGED <<directory, thread, message, blocking, reading>>
(* UPDATE conversations SET last_seq = last_seq + 1 ... RETURNING last_seq,  *)
(* which holds the row from here to the commit.                              *)
TakeSeq(r) ==
  /\ req[r].pc = "send"
  /\ Writing(req[r].thread) = {}
  /\ req' = [req EXCEPT ![r].pc = "numbered", ![r].seq = thread[req[r].thread].last_seq + 1]
  /\ UNCHANGED <<directory, thread, message, blocking, reading>>

SendCommit(r) ==
  /\ req[r].pc = "numbered"
  /\ thread' = [thread EXCEPT ![req[r].thread].last_seq = req[r].seq]
  /\ message' = [message EXCEPT ![r] =
                   [thread |-> req[r].thread, seq |-> req[r].seq, sender |-> req[r].user,
                    deleted_by |-> None]]
  /\ req' = [req EXCEPT ![r].pc = "done"]
  /\ UNCHANGED <<directory, blocking, reading>>

(* A transaction that ends in an error or a timeout leaves nothing behind.   *)
Abandon(r) ==
  /\ req[r].pc \in Checked
  /\ req' = [req EXCEPT ![r] = [Idle EXCEPT !.pc = "done"]]
  /\ UNCHANGED <<directory, thread, message, blocking, reading>>

-------------------------------------------------------------------------------
(* Reading.                                                                  *)

(* Messages after the cursor in order of seq, as many as the client asked    *)
(* for and at most MAX_PAGE; next_seq is the last one's.  An empty page, or  *)
(* an answer that is lost, leaves the client where it was.                   *)
Poll(u, t) ==
  /\ is_participant(t, u)
  /\ \E last \in {m \in In(t) : message[m].seq > reader[u][t].cursor} :
       LET page == {m \in In(t) : message[m].seq \in reader[u][t].cursor + 1 .. message[last].seq}
       IN  /\ Cardinality(page) <= MaxPage
           /\ reader' = [reader EXCEPT ![u][t].cursor = message[last].seq]
           /\ seen' = [seen EXCEPT ![u] = @ \cup page]
  /\ UNCHANGED <<directory, thread, message, req, blocking>>

Greatest(a, b) == IF a >= b THEN a ELSE b

(* A client marks up to what a poll or the inbox's last_seq has told it.     *)
(* Its calls may be delayed and overtake one another, so any number that was *)
(* ever the last may arrive.                                                 *)
MarkRead(u, t, up_to_seq) ==
  /\ is_participant(t, u)
  /\ reader' = [reader EXCEPT ![u][t].last_read_seq = Greatest(@, up_to_seq)]
  /\ UNCHANGED <<directory, thread, message, req, blocking, seen>>

(* list_for_user's count.                                                    *)
unread(u, t) == Greatest(thread[t].last_seq - reader[u][t].last_read_seq, 0)

\* Mutant: the row is deleted.
HardDelete(u, m) ==
  /\ message[m].sender = u
  /\ message' = [message EXCEPT ![m] = NoMessage]
  /\ UNCHANGED <<directory, thread, req, blocking, reading>>
\* Mutant: any participant may remove a message.
DeleteAnybodys(u, m) ==
  /\ message[m].thread /= None /\ is_participant(message[m].thread, u)
  /\ message[m].deleted_by = None
  /\ message' = [message EXCEPT ![m].deleted_by = u]
  /\ UNCHANGED <<directory, thread, req, blocking, reading>>
(* soft_delete: the row stays, and its body is no longer returned.           *)
DeleteMessage(u, m) ==
  /\ message[m].thread /= None
  /\ is_participant(message[m].thread, u)
  /\ message[m].sender = u
  /\ message[m].deleted_by = None
  /\ message' = [message EXCEPT ![m].deleted_by = u]
  /\ UNCHANGED <<directory, thread, req, blocking, reading>>

-------------------------------------------------------------------------------
(* Blocking.                                                                 *)

Block(u, v) ==
  /\ Cardinality(blocks) < MaxBlocks
  /\ <<u, v>> \notin blocks
  /\ blocks' = blocks \cup {<<u, v>>}
  /\ before' = [before EXCEPT ![<<u, v>>] = UnderWay(u, v)]
  /\ UNCHANGED <<directory, thread, message, req, reading>>

Unblock(u, v) ==
  /\ blocks' = blocks \ {<<u, v>>}
  /\ before' = [before EXCEPT ![<<u, v>>] = {}]
  /\ UNCHANGED <<directory, thread, message, req, reading>>

-------------------------------------------------------------------------------
Directory ==
  \/ \E l \in Listings, u \in Contractors : ClaimListing(l, u)
  \/ \E l \in Listings, b \in BOOLEAN : SetAcceptsDm(l, b)
  \/ \E j \in Jobs : CloseJob(j) \/ ReopenJob(j)

Begin(r) ==
  \/ \E u \in Homeowners, l \in Listings : start_with_contractor(r, u, l)
  \/ \E u \in Contractors, j \in Jobs : start_with_job(r, u, j)
  \/ \E u \in Users, t \in Requests : send(r, u, t)

Proceed(r) == InsertThread(r) \/ FindThread(r) \/ StartCommit(r) \/ TakeSeq(r) \/ SendCommit(r)

Read(u) ==
  \/ \E t \in Requests : Poll(u, t)
  \/ \E t \in Requests : \E n \in 0 .. thread[t].last_seq : MarkRead(u, t, n)
  \/ \E m \in Requests : DeleteMessage(u, m)

Protect(u) ==
  \E v \in Users \ {u} : Block(u, v) \/ Unblock(u, v)

Next ==
  \/ Directory
  \/ \E r \in Requests : Begin(r) \/ Proceed(r) \/ Abandon(r)
  \/ \E u \in Users : Read(u) \/ Protect(u)

Spec == Init /\ [][Next]_vars

-------------------------------------------------------------------------------
(* Properties.                                                               *)

(* A pair of users has one conversation however many starts race, from       *)
(* either side: the unique index decides and the loser finds the winner's    *)
(* (find_or_create_dm).                                                      *)
OneThreadPerPair ==
  \A t, s \in Threads : thread[t].dm = thread[s].dm => t = s

(* What a request has found out stays true until it commits: the pair it     *)
(* inserts has no conversation and no other inserter, the conversation it    *)
(* writes to holds both parties, and its number is the next one and nobody   *)
(* else's.                                                                   *)
RequestsCoherent ==
  \A r \in Requests :
    /\ req[r].pc = "inserted" => Existing(r) = {} /\ Inserting(r) = {}
    /\ req[r].pc \in {"send", "numbered"} =>
         /\ thread[req[r].thread].dm = Pair(r)
         /\ thread[req[r].thread].members = Pair(r)
    /\ req[r].pc = "numbered" =>
         /\ req[r].seq = thread[req[r].thread].last_seq + 1
         /\ Writing(req[r].thread) = {r}

(* A start that was answered named a conversation that is there, with both   *)
(* parties in it, whatever became of the request that inserted it.           *)
AnswerIsUsable ==
  \A r \in Requests :
    req[r].pc = "done" /\ req[r].thread /= None =>
      /\ req[r].thread \in Threads
      /\ is_participant(req[r].thread, req[r].user)
      /\ is_participant(req[r].thread, req[r].peer)

(* The messages of a conversation are numbered 1 to last_seq, without a gap  *)
(* and without a repetition, although senders race and transactions roll     *)
(* back (messaging::send).                                                   *)
GaplessSequence ==
  \A t \in Requests :
    /\ \A m \in In(t) : message[m].seq \in 1 .. thread[t].last_seq
    /\ \A n \in 1 .. thread[t].last_seq : \E m \in In(t) : message[m].seq = n
    /\ \A m, k \in In(t) : message[m].seq = message[k].seq => m = k

(* A poll cursor has no message behind it that the client was not given:     *)
(* numbers become visible in order (after_seq).                              *)
NothingSkipped ==
  \A u \in Users, t \in Requests : \A m \in In(t) :
    message[m].seq <= reader[u][t].cursor => m \in seen[u]

(* The inbox's unread count, a subtraction, is the number of messages after  *)
(* the read mark; removed ones keep their place (list_for_user, soft_delete).*)
UnreadExact ==
  \A t \in Threads : \A u \in thread[t].members :
    unread(u, t) = Cardinality({m \in In(t) : message[m].seq > reader[u][t].last_read_seq})

(* While a block stands, in either direction, the only requests between the  *)
(* two that can still take effect are the ones that had passed their checks  *)
(* when it was made.                                                         *)
BlockStopsLaterRequests ==
  \A p \in blocks : UnderWay(p[1], p[2]) \subseteq before[p]

(* A message stays where it is, with its sender, for ever; the one thing     *)
(* that happens to it is that its own sender removes its text.               *)
EvidenceKept ==
  [][\A m \in Messages :
       \/ message'[m] = message[m]
       \/ /\ message[m].deleted_by = None
          /\ message'[m] = [message[m] EXCEPT !.deleted_by = message[m].sender]]_vars

(* A read mark never goes back, in whatever order the calls arrive.          *)
ReadMarksAdvance ==
  [][\A u \in Users, t \in Requests :
       reader'[u][t].last_read_seq >= reader[u][t].last_read_seq]_vars
===============================================================================
