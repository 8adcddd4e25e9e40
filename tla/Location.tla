------------------------------- MODULE Location --------------------------------
(***************************************************************************)
(* Where a listing appears on the map: the published point                 *)
(* (crates/cm-domain/src/location.rs), the geocode queue                   *)
(* (crates/cm-db/src/repo/geocode.rs), the workers that drain it           *)
(* (cm-domain/src/geocode_worker.rs), and the two writers they race with,  *)
(* the owner's profile edit and the licence import.                        *)
(*                                                                         *)
(* There is one listing: a transaction touches the location of one at a    *)
(* time and the queue's constraint is per listing.  A point is the address *)
(* it was found for, or the centroid of a ZIP.  A worker holds nothing     *)
(* while it asks the geocoder, and may be slow, die or be stopped between  *)
(* any two statements.  Rates, backoff times and counters are left out;    *)
(* time appears as what it makes true.  Settled jobs, which nobody reads,  *)
(* are deleted by the maintenance pass in the code and kept here.          *)
(***************************************************************************)
EXTENDS Integers, FiniteSets

CONSTANTS
  Address,     \* street addresses
  FirstAddress,\* those a licence may have when its listing is created
  OwnAddress,  \* those an owner may enter
  None,
  ZipOf,       \* the ZIP of an address
  Located,     \* the ZIPs that have a centroid
  Job,         \* geocode_queue rows, numbered as they are inserted
  Worker,
  MaxAttempts, \* config.max_attempts
  MaxStops,    \* bound: how often workers die
  MaxEdits     \* bound: how often the owner or the register change the listing

ASSUME NoneAssumption == None \notin Address /\ None \notin Job /\ None \notin Worker
ASSUME AddressAssumption == OwnAddress \subseteq Address /\ FirstAddress \subseteq Address
ASSUME BoundAssumption == Job \subseteq Nat /\ MaxAttempts \in Nat \ {0} /\ MaxStops \in Nat /\ MaxEdits \in Nat

VARIABLES
  listing,  \* the contractors row and its licence record
  job,      \* the geocode_queue table
  worker,   \* the passes in progress
  holder,   \* the worker whose transaction holds the listing's row
  stops,    \* how often a worker has died
  edits     \* how often the listing has been edited

vars == <<listing, job, worker, holder, stops, edits>>

NoPoint == [source |-> "none", at |-> None]
Exact(a) == [source |-> "exact", at |-> a]
Centroid(zip) == [source |-> "zip_centroid", at |-> zip]
Zip == {ZipOf[a] : a \in Address}
Point == {Exact(a) : a \in Address} \cup {Centroid(z) : z \in Zip} \cup {NoPoint}

Listing ==
  [visibility : {"public", "protected"},
   owner      : OwnAddress \cup {None},   \* the claimant's own address
   licence    : Address,               \* the licence record's
   postal     : Zip,                   \* contractors.postal_code, the licence's
   precise    : Address \cup {None},   \* precise_point
   published  : Point]                 \* public_point and its source

JobRow ==
  [status   : {"absent", "queued", "in_progress", "succeeded", "failed", "skipped"},
   attempts : Nat,
   due      : BOOLEAN,    \* next_attempt_at <= now()
   stale    : BOOLEAN]    \* locked_at is older than stale_after_secs

Pass ==
  [pc      : {"idle", "read", "lock", "apply", "skip", "fail"},
   job     : Job \cup {None},
   address : Address \cup {None},
   inputs  : Listing \cup {None}]   \* what republish has read

TypeOK ==
  /\ listing \in Listing
  /\ job \in [Job -> JobRow]
  /\ worker \in [Worker -> Pass]
  /\ holder \in Worker \cup {None}
  /\ stops \in 0..MaxStops /\ edits \in 0..MaxEdits

-------------------------------------------------------------------------------
(* The rule.                                                                 *)

\* Mutant: the precise point is written as NULL with the centroid.
RepublishErasing(x) ==
  IF x.visibility = "public" /\ x.precise # None THEN [x EXCEPT !.published = Exact(x.precise)]
  ELSE IF x.postal \in Located THEN [x EXCEPT !.published = Centroid(x.postal), !.precise = None]
  ELSE [x EXCEPT !.published = NoPoint]
(* set_location of what the rule says: a public listing that has a point     *)
(* publishes it, any other the centroid of its ZIP, or nothing.              *)
republish(x) ==
  IF x.visibility = "public" /\ x.precise # None THEN [x EXCEPT !.published = Exact(x.precise)]
  ELSE IF x.postal \in Located THEN [x EXCEPT !.published = Centroid(x.postal)]
  ELSE [x EXCEPT !.published = NoPoint]

geocodable_address(x) == IF x.owner # None THEN x.owner ELSE x.licence

-------------------------------------------------------------------------------
(* The queue.                                                                *)

Open(x) == x.status \in {"queued", "in_progress"}
Settled == {"succeeded", "failed", "skipped"}
Row(status, attempts, due) == [status |-> status, attempts |-> attempts, due |-> due, stale |-> FALSE]

(* A partial unique index allows one open job: an insert beside it does      *)
(* nothing.                                                                  *)
enqueue(table) ==
  IF \E j \in Job : Open(table[j]) THEN {table}
  ELSE {[table EXCEPT ![j] = Row("queued", 0, TRUE)] :
          j \in {j \in Job : \A i \in Job : table[i].status = "absent" <=> i >= j}}

claim(x) == Row("in_progress", x.attempts, x.due)
requeue_stalled(x) == Row("queued", x.attempts, x.due)
mark_succeeded(x) == Row("succeeded", x.attempts, x.due)
mark_skipped(x) == Row("skipped", x.attempts, x.due)

\* Mutant: the last failure is retried as well, for ever.
MarkFailedForever(x) == Row("queued", 0, FALSE)
mark_failed(x) ==
  Row(IF x.attempts + 1 >= MaxAttempts THEN "failed" ELSE "queued", x.attempts + 1, FALSE)

At(pc) == [pc |-> pc, job |-> None, address |-> None, inputs |-> None]

Init ==
  /\ \E a \in FirstAddress :
       listing = republish([visibility |-> "public", owner |-> None, licence |-> a, postal |-> ZipOf[a],
                            precise |-> None, published |-> NoPoint])
  /\ job \in enqueue([j \in Job |-> Row("absent", 0, TRUE)])
  /\ worker = [w \in Worker |-> At("idle")]
  /\ holder = None
  /\ stops = 0 /\ edits = 0

-------------------------------------------------------------------------------
(* The owner and the register.                                               *)

(* What an edit says nothing of stays as it is.                              *)
update_profile(x, visibility, address) ==
  [x EXCEPT !.visibility = IF visibility = "same" THEN @ ELSE visibility,
            !.owner = IF address = "same" THEN @ ELSE address]

relocate_after_address_change(table) == enqueue(table)

(* The UPDATE takes the row's lock, and its transaction publishes again if a *)
(* visibility came with it, and queues the address if one did.               *)
UpdateProfile(visibility, address) ==
  /\ holder = None
  /\ LET updated == update_profile(listing, visibility, address)
     IN /\ updated # listing
        /\ listing' = IF visibility = "same" THEN updated ELSE republish(updated)
  /\ job' \in IF address = "same" THEN {job} ELSE relocate_after_address_change(job)
  /\ edits < MaxEdits /\ edits' = edits + 1
  /\ UNCHANGED <<worker, holder, stops>>

upsert_from_license(x, address) == [x EXCEPT !.licence = address, !.postal = ZipOf[address]]

(* flush of one licence record: only a new ZIP moves the listing and queues  *)
(* it; a new street in the old ZIP does neither.                             *)
Import(address) ==
  /\ holder = None /\ address # listing.licence
  /\ LET updated == upsert_from_license(listing, address)
     IN IF ZipOf[address] # listing.postal
        THEN listing' = republish(updated) /\ job' \in enqueue(job)
        ELSE listing' = updated /\ UNCHANGED job
  /\ edits < MaxEdits /\ edits' = edits + 1
  /\ UNCHANGED <<worker, holder, stops>>

-------------------------------------------------------------------------------
(* A worker's pass.                                                          *)

(* What a dead worker left is queued again and a job that is due is taken:   *)
(* two statements one after the other, and what another worker does to the   *)
(* queue between them it could as well have done before both or after.       *)
Claim(w) ==
  /\ worker[w].pc = "idle"
  /\ LET swept == [j \in Job |-> IF job[j].status = "in_progress" /\ job[j].stale
                                 THEN requeue_stalled(job[j]) ELSE job[j]]
         due == {j \in Job : swept[j].status = "queued" /\ swept[j].due}
     IN IF due = {}
        THEN job' = swept /\ UNCHANGED worker
        ELSE \E j \in due :
               /\ job' = [swept EXCEPT ![j] = claim(@)]
               /\ worker' = [worker EXCEPT ![w] = [At("read") EXCEPT !.job = j]]
  /\ UNCHANGED <<listing, holder, stops, edits>>

(* The geocoder finds the address, does not know it, or fails: what the pass *)
(* goes on with.                                                             *)
locate == {"lock", "skip", "fail"}

(* The address is read, the connection let go and the geocoder asked; the    *)
(* pass goes on when the answer is there.                                    *)
Read(w, answer) ==
  /\ worker[w].pc = "read"
  /\ worker' = [worker EXCEPT ![w] = [@ EXCEPT !.pc = answer, !.address = geocodable_address(listing)]]
  /\ UNCHANGED <<listing, job, holder, stops, edits>>

\* Mutant: the inputs of the rule are read before the row is locked.
LockLate(w) ==
  /\ worker[w].pc = "lock"
  /\ worker' = [worker EXCEPT ![w] = [@ EXCEPT !.pc = "apply",
                                               !.inputs = [listing EXCEPT !.precise = worker[w].address]]]
  /\ UNCHANGED <<listing, job, holder, stops, edits>>
set_precise_point(x, address) == [x EXCEPT !.precise = address]

(* apply_geocode: set_precise_point locks the row, and what republish reads  *)
(* after it nobody else can change until the commit.                         *)
SetPrecisePoint(w) ==
  /\ worker[w].pc = "lock" /\ holder = None
  /\ holder' = w
  /\ worker' = [worker EXCEPT ![w] = [@ EXCEPT !.pc = "apply",
                                               !.inputs = set_precise_point(listing, worker[w].address)]]
  /\ UNCHANGED <<listing, job, stops, edits>>

(* The three location columns are written, the job is marked by its id       *)
(* alone, and the transaction commits.                                       *)
Apply(w) ==
  /\ worker[w].pc = "apply"
  /\ LET point == republish(worker[w].inputs)
     IN listing' = [listing EXCEPT !.precise = point.precise, !.published = point.published]
  /\ job' = [job EXCEPT ![worker[w].job] = mark_succeeded(@)]
  /\ holder' = IF holder = w THEN None ELSE holder
  /\ worker' = [worker EXCEPT ![w] = At("idle")]
  /\ UNCHANGED <<stops, edits>>

(* No match: the job is closed and the listing is left as it is.             *)
Skip(w) ==
  /\ worker[w].pc = "skip"
  /\ job' = [job EXCEPT ![worker[w].job] = mark_skipped(@)]
  /\ worker' = [worker EXCEPT ![w] = At("idle")]
  /\ UNCHANGED <<listing, holder, stops, edits>>

(* A failure is counted.  Where that would open a second job beside another  *)
(* the statement fails, which ends the process: its job stays as it was.     *)
Fail(w) ==
  /\ worker[w].pc = "fail"
  /\ LET j == worker[w].job
         failed == [job EXCEPT ![j] = mark_failed(@)]
         refused == Open(failed[j]) /\ \E i \in Job \ {j} : Open(job[i])
     IN /\ job' = IF refused THEN job ELSE failed
        /\ worker' = [worker EXCEPT ![w] = At("idle")]
  /\ UNCHANGED <<listing, holder, stops, edits>>

(* The worker dies, or select! drops its pass on SIGTERM; a transaction is   *)
(* rolled back.  The process that is started in its place begins a new pass. *)
Die(w) ==
  /\ worker[w].pc # "idle" /\ stops < MaxStops
  /\ worker' = [worker EXCEPT ![w] = At("idle")]
  /\ holder' = IF holder = w THEN None ELSE holder
  /\ stops' = stops + 1
  /\ UNCHANGED <<listing, job, edits>>

-------------------------------------------------------------------------------
(* Time.                                                                     *)

ClaimGoesStale(j) ==
  /\ job[j].status = "in_progress" /\ ~job[j].stale
  /\ job' = [job EXCEPT ![j].stale = TRUE]
  /\ UNCHANGED <<listing, worker, holder, stops, edits>>

BackoffElapses(j) ==
  /\ job[j].status = "queued" /\ ~job[j].due
  /\ job' = [job EXCEPT ![j].due = TRUE]
  /\ UNCHANGED <<listing, worker, holder, stops, edits>>

Step(w) ==
  \/ Claim(w) \/ SetPrecisePoint(w) \/ Apply(w) \/ Skip(w) \/ Fail(w)
  \/ \E answer \in locate : Read(w, answer)

Next ==
  \/ \E visibility \in {"same", "public", "protected"}, address \in OwnAddress \cup {None, "same"} :
       UpdateProfile(visibility, address)
  \/ \E address \in Address : Import(address)
  \/ \E w \in Worker : Step(w) \/ Die(w)
  \/ \E j \in Job : ClaimGoesStale(j) \/ BackoffElapses(j)

Spec == Init /\ [][Next]_vars

(* A worker keeps working (every call of the geocoder ends: it has a         *)
(* timeout), one that ended is started again, and time passes.               *)
FairSpec ==
  /\ Spec
  /\ \A w \in Worker : WF_vars(Step(w))
  /\ \A j \in Job : WF_vars(ClaimGoesStale(j)) /\ WF_vars(BackoffElapses(j))

-------------------------------------------------------------------------------
(* Properties                                                                *)

(* "One function decides this for the whole system": at every moment the     *)
(* published point is what the rule makes of the committed row, however the  *)
(* worker, the owner and the import interleave.  A listing that asked to be  *)
(* kept off the map never shows its exact point (republish, apply_geocode,   *)
(* reapply).                                                                 *)
PublishedIsTheRule ==
  listing.published =
    IF listing.visibility = "public" /\ listing.precise # None THEN Exact(listing.precise)
    ELSE IF listing.postal \in Located THEN Centroid(listing.postal) ELSE NoPoint

(* A point once found is never lost, by a re-import, by a change of          *)
(* visibility or by a worker (republish, set_location).                      *)
PreciseNeverLost ==
  [][listing.precise # None => listing'.precise # None]_vars

(* Every job that is queued is settled for good in the end: located, without *)
(* a match or given up, whatever dies and however late a worker answers      *)
(* (run_once, requeue_stalled).                                              *)
JobSettles ==
  \A j \in Job : job[j].status = "queued" ~> [](job[j].status \in Settled)

(* relocate_after_address_change: "a contractor who corrects their address   *)
(* would otherwise keep the old pin".  Once every job has succeeded, the pin *)
(* is where the owner's address is.                                          *)
PinFollowsOwner ==
  listing.owner # None /\ (\A j \in Job : job[j].status \in {"absent", "succeeded"})
    => listing.precise = listing.owner
===============================================================================
