-------------------------------- MODULE Alerts ---------------------------------
(***************************************************************************)
(* Saved searches (crates/cm-db/src/repo/saved_searches.rs, the handlers   *)
(* beside it) and the weekly pass that turns new jobs into digests         *)
(* (crates/cm-domain/src/job_alerts.rs).                                   *)
(*                                                                         *)
(* A pass is a process: a timer starts it, an operator may start another,  *)
(* and either may die.  A batch is one transaction, whose row locks keep   *)
(* the claimed jobs from every other writer until it ends; what it writes  *)
(* shows when it commits.  A search's filters are the set of jobs they     *)
(* would show on the board, which the reverse match uses with the sides    *)
(* swapped.  The wording of a digest and last_notified_at, which nothing   *)
(* reads back, are left out, and every account is active: support alone    *)
(* suspends one, and matches_for_jobs passes it over as it does one whose  *)
(* address is not verified.                                                *)
(***************************************************************************)
EXTENDS Integers, FiniteSets, SequencesExt

CONSTANTS
  User,       \* who saves searches
  Poster,     \* who posts jobs; a user may be one of them
  Search,     \* saved_searches rows, each the outcome of one save request
  Job,        \* jobs, numbered in the order of created_at
  Pass,       \* alert passes that may run at once
  None,
  Wanted,     \* the jobs a search's filters show
  MaxPerUser, \* MAX_PER_USER
  Batch,      \* BATCH
  MaxBatches, \* MAX_BATCHES
  MaxChanges, \* bound: addresses proved, and searches and jobs changed
  MaxDeaths   \* bound: passes that die

ASSUME NoneAssumption == None \notin User \cup Poster
ASSUME JobAssumption == Job \subseteq Nat
ASSUME WantedAssumption == Wanted \in [Search -> SUBSET Job]
ASSUME BoundAssumption ==
  /\ {MaxPerUser, Batch, MaxBatches} \subseteq Nat \ {0}
  /\ {MaxChanges, MaxDeaths} \subseteq Nat

VARIABLES
  verified,  \* the users whose address is verified
  search,    \* the saved_searches table and the saves in progress
  job,       \* the jobs table
  pass,      \* the passes
  outbox,    \* the digests enqueued for each user, in order
  owed,      \* ghost: whom a job was found to interest when it was last matched
  changes, deaths

vars == <<verified, search, job, pass, outbox, owed, changes, deaths>>

SearchRow ==
  [state : {"absent", "saving", "saved", "refused", "deleted"},
   owner : User \cup {None},
   notify : BOOLEAN]

JobRow ==
  [status : {"absent", "open", "closed"},   \* a cancelled job is one that stays closed
   poster : Poster \cup {None},
   matched : BOOLEAN]                       \* alerts_matched_at IS NOT NULL

PassState ==
  [pc : {"down", "claim", "match", "commit"},
   batches : 0..MaxBatches,                 \* batches begun
   claimed : SUBSET Job,                    \* the rows its transaction has locked
   matches : SUBSET (Search \X Job)]

TypeOK ==
  /\ verified \subseteq User
  /\ search \in [Search -> SearchRow]
  /\ job \in [Job -> JobRow]
  /\ pass \in [Pass -> PassState]
  /\ outbox \in [User -> Seq(SUBSET Job)]
  /\ owed \in [Job -> SUBSET User]
  /\ changes \in 0..MaxChanges /\ deaths \in 0..MaxDeaths

Down == [pc |-> "down", batches |-> 0, claimed |-> {}, matches |-> {}]

Init ==
  /\ verified \in SUBSET User
  /\ search = [s \in Search |-> [state |-> "absent", owner |-> None, notify |-> FALSE]]
  /\ job = [j \in Job |-> [status |-> "absent", poster |-> None, matched |-> FALSE]]
  /\ pass = [p \in Pass |-> Down]
  /\ outbox = [u \in User |-> <<>>]
  /\ owed = [j \in Job |-> {}]
  /\ changes = 0 /\ deaths = 0

\* Mutant: the jobs are selected without FOR UPDATE.
NeverLocked(j) == FALSE
(* Whether a batch holds the job's row.                                      *)
Locked(j) == \E p \in Pass : j \in pass[p].claimed
Change == changes < MaxChanges /\ changes' = changes + 1

-------------------------------------------------------------------------------
(* Users, and the searches they save.                                        *)

(* confirm_email or verify_login_code proves the account's address; nothing  *)
(* takes the proof away, for a change of address proves the new one.         *)
mark_email_verified(u) ==
  /\ Change
  /\ verified' = verified \cup {u}
  /\ UNCHANGED <<search, job, pass, outbox, owed, deaths>>

SavedBy(u) == {s \in Search : search[s].state = "saved" /\ search[s].owner = u}

(* The first half of create: the INSERT counts the user's searches in the    *)
(* snapshot it begins with, which holds no other save in progress.           *)
Save(s, u) ==
  /\ search[s].state = "absent"
  /\ search' = [search EXCEPT ![s] =
       [state |-> IF Cardinality(SavedBy(u)) < MaxPerUser THEN "saving" ELSE "refused",
        owner |-> u, notify |-> TRUE]]
  /\ UNCHANGED <<verified, job, pass, outbox, owed, changes, deaths>>

create(s) ==
  /\ search[s].state = "saving"
  /\ search' = [search EXCEPT ![s].state = "saved"]
  /\ UNCHANGED <<verified, job, pass, outbox, owed, changes, deaths>>

(* delete, by its owner; for anyone else no row is found.                    *)
delete(s) ==
  /\ Change
  /\ search[s].state = "saved"
  /\ search' = [search EXCEPT ![s].state = "deleted"]
  /\ UNCHANGED <<verified, job, pass, outbox, owed, deaths>>

(* unsubscribe: whoever holds the link turns a search's mail off, once or    *)
(* again.                                                                    *)
set_notify_off(s) ==
  /\ Change
  /\ search[s].state = "saved" /\ search[s].notify
  /\ search' = [search EXCEPT ![s].notify = FALSE]
  /\ UNCHANGED <<verified, job, pass, outbox, owed, deaths>>

-------------------------------------------------------------------------------
(* The board.                                                                *)

Post(j, u) ==
  /\ \A i \in Job : job[i].status = "absent" <=> i >= j
  /\ job' = [job EXCEPT ![j] = [status |-> "open", poster |-> u, matched |-> FALSE]]
  /\ UNCHANGED <<verified, search, pass, outbox, owed, changes, deaths>>

(* close and reopen wait for a batch that holds the row, and neither puts    *)
(* the job back among the unmatched.                                         *)
CloseOrReopen(j) ==
  /\ Change
  /\ job[j].status # "absent" /\ ~Locked(j)
  /\ job' = [job EXCEPT ![j].status = IF @ = "open" THEN "closed" ELSE "open"]
  /\ UNCHANGED <<verified, search, pass, outbox, owed, deaths>>

-------------------------------------------------------------------------------
(* A pass.                                                                   *)

Start(p) ==
  /\ pass[p].pc = "down"
  /\ pass' = [pass EXCEPT ![p].pc = "claim"]
  /\ UNCHANGED <<verified, search, job, outbox, owed, changes, deaths>>

(* The oldest of a set of jobs, as many as a batch takes.                    *)
Oldest(jobs) == {j \in jobs : Cardinality({i \in jobs : i < j}) < Batch}

\* Mutant: the jobs are selected with no lock at all.
ClaimUnlocked(p) == {j \in Job : job[j].status # "absent" /\ ~job[j].matched}
(* The jobs claim_unmatched_jobs sees: not matched, and no other batch's.    *)
Unmatched(p) == {j \in Job : job[j].status # "absent" /\ ~job[j].matched /\ ~Locked(j)}

(* A batch begins.  One that finds nothing ends its transaction and the pass. *)
claim_unmatched_jobs(p) ==
  /\ pass[p].pc = "claim"
  /\ LET claimed == Oldest(Unmatched(p))
     IN pass' = [pass EXCEPT ![p] = IF claimed = {} THEN Down
                                    ELSE [pc |-> "match", batches |-> @.batches + 1,
                                          claimed |-> claimed, matches |-> {}]]
  /\ UNCHANGED <<verified, search, job, outbox, owed, changes, deaths>>

\* Mutant: the poster hears of their own job.
AlertsToo(s, j) ==
  /\ search[s].state = "saved" /\ search[s].notify
  /\ j \in Wanted[s]
  /\ search[s].owner \in verified
  /\ job[j].status = "open"
(* The join of matches_for_jobs.                                             *)
Alerts(s, j) ==
  /\ search[s].state = "saved" /\ search[s].notify
  /\ j \in Wanted[s]
  /\ search[s].owner \in verified
  /\ job[j].status = "open" /\ job[j].poster # search[s].owner

matches_for_jobs(p) ==
  /\ pass[p].pc = "match"
  /\ pass' = [pass EXCEPT ![p].pc = "commit",
                          ![p].matches = {m \in Search \X pass[p].claimed : Alerts(m[1], m[2])}]
  /\ owed' = [j \in Job |->
       IF j \in pass[p].claimed /\ job[j].status = "open"
       THEN {u \in verified \ {job[j].poster} :
               \E s \in SavedBy(u) : search[s].notify /\ j \in Wanted[s]}
       ELSE IF j \in pass[p].claimed THEN {} ELSE owed[j]]
  /\ UNCHANGED <<verified, search, job, outbox, changes, deaths>>

(* The jobs a user's digest covers: every match of every search of theirs.   *)
Digest(u, matches) == {m[2] : m \in {n \in matches : search[n[1]].owner = u}}

\* Mutant: a job that interests nobody is left for the next pass.
MarkMatchedOnly(p) == {m[2] : m \in pass[p].matches}
(* mark_jobs_matched, of every job claimed.                                  *)
Considered(p) == pass[p].claimed

(* One digest for each user who has a match goes into the outbox, the jobs   *)
(* are marked and the transaction commits.  A batch that was full is         *)
(* followed by another until MAX_BATCHES.                                    *)
run_batch(p) ==
  /\ pass[p].pc = "commit"
  /\ outbox' = [u \in User |-> IF Digest(u, pass[p].matches) = {} THEN outbox[u]
                               ELSE Append(outbox[u], Digest(u, pass[p].matches))]
  /\ job' = [j \in Job |-> IF j \in Considered(p) THEN [job[j] EXCEPT !.matched = TRUE] ELSE job[j]]
  /\ pass' = [pass EXCEPT ![p] =
       IF Cardinality(@.claimed) = Batch /\ @.batches < MaxBatches
       THEN [Down EXCEPT !.pc = "claim", !.batches = pass[p].batches] ELSE Down]
  /\ UNCHANGED <<verified, search, owed, changes, deaths>>

(* The process ends, and its transaction is rolled back.                     *)
Die(p) ==
  /\ pass[p].pc # "down" /\ deaths < MaxDeaths
  /\ pass' = [pass EXCEPT ![p] = Down]
  /\ deaths' = deaths + 1
  /\ UNCHANGED <<verified, search, job, outbox, owed, changes>>

Step(p) == claim_unmatched_jobs(p) \/ matches_for_jobs(p) \/ run_batch(p)

Next ==
  \/ \E u \in User : mark_email_verified(u)
  \/ \E s \in Search : create(s) \/ delete(s) \/ set_notify_off(s) \/ \E u \in User : Save(s, u)
  \/ \E j \in Job : CloseOrReopen(j) \/ \E u \in Poster : Post(j, u)
  \/ \E p \in Pass : Start(p) \/ Step(p) \/ Die(p)

Spec == Init /\ [][Next]_vars

(* The timer fires every week (Persistent=true: a box that was down catches  *)
(* up), and a pass that runs goes on: it only talks to the database.         *)
FairSpec == Spec /\ \A p \in Pass : WF_vars(Start(p)) /\ WF_vars(Step(p))

-------------------------------------------------------------------------------
(* Properties                                                                *)

Tellings(u, j) == {i \in DOMAIN outbox[u] : j \in outbox[u][i]}

(* "Nothing alerts twice": no two digests tell a user of the same job,       *)
(* whether passes overlap, a pass dies and is run again, or the job is       *)
(* closed and reopened between them (claim_unmatched_jobs, run_batch).       *)
ToldOnce == \A u \in User, j \in Job : Cardinality(Tellings(u, j)) <= 1

(* The digests and the marks commit together: a job that was considered has  *)
(* been told to exactly those it interested when it was matched, and one     *)
(* that was not has been told to nobody, whichever pass died on the way.     *)
(* Nobody hears of their own job, or after they unsubscribed, or at an       *)
(* address they have not proved (matches_for_jobs, run_batch).               *)
ToldWhoWasOwed ==
  \A j \in Job : {u \in User : Tellings(u, j) # {}} = IF job[j].matched THEN owed[j] ELSE {}

(* A digest announces only jobs that are open as it is committed: the lock   *)
(* the claim took keeps a close out until then (claim_unmatched_jobs).       *)
OnlyOpenAnnounced ==
  [][\A u \in User : outbox'[u] # outbox[u] => \A j \in Last(outbox'[u]) : job[j].status = "open"]_vars

(* Every job that is posted is considered in the end, whatever it interests  *)
(* and however many are queued before it (run, mark_jobs_matched).           *)
EveryJobConsidered == \A j \in Job : job[j].status = "open" ~> job[j].matched

(* create: "two racing saves cannot both sneak past it by reading the same   *)
(* count".                                                                   *)
CapHolds == \A u \in User : Cardinality(SavedBy(u)) <= MaxPerUser
===============================================================================
