---------------------------- MODULE LocationProofs -----------------------------
(***************************************************************************)
(* For any number of jobs, workers, edits and deaths: the point a listing  *)
(* publishes is the one the rule gives for its row, and a point that was   *)
(* found is not lost.                                                      *)
(*                                                                         *)
(* The invariant says what a worker about to write has in its hands: the   *)
(* row's lock, and the row as it is but for the new point.  That is why    *)
(* republish, which reads before it writes, cannot write a stale point.    *)
(***************************************************************************)
EXTENDS Location, TLAPS

(* What a pass carries from statement to statement is still true: it has a   *)
(* job, an address if it got that far, and under the row's lock the row      *)
(* itself (run_once, apply_geocode).                                         *)
PassFine(w) ==
  /\ worker[w].pc # "idle" => worker[w].job \in Job
  /\ worker[w].pc \in {"lock", "apply"} => worker[w].address \in Address
  /\ worker[w].pc = "apply" =>
       holder = w /\ worker[w].inputs = [listing EXCEPT !.precise = worker[w].address]

IInv == TypeOK /\ PublishedIsTheRule /\ \A w \in Worker : PassFine(w)

-------------------------------------------------------------------------------
(* Operators                                                                 *)

(* The rule, as a function of the row.                                       *)
Rule(x) ==
  IF x.visibility = "public" /\ x.precise # None THEN Exact(x.precise)
  ELSE IF x.postal \in Located THEN Centroid(x.postal) ELSE NoPoint

(* republish writes what the rule says and nothing else.                     *)
LEMMA Republished ==
  ASSUME NEW x \in Listing
  PROVE  /\ republish(x) = [x EXCEPT !.published = Rule(x)]
         /\ republish(x) \in Listing
         /\ republish(x).precise = x.precise
         /\ republish(x).published = Rule(x)
         /\ Rule(republish(x)) = Rule(x)
<1>1. republish(x) = [x EXCEPT !.published = Rule(x)]
  BY DEF republish, Rule
<1>2. Rule(x) \in Point
  BY DEF Rule, Listing, Point, Exact, Centroid, NoPoint
<1>3. QED
  BY <1>1, <1>2 DEF Listing, Rule

(* The invariant in terms of the rule.                                       *)
LEMMA RuleOfRow == PublishedIsTheRule <=> listing.published = Rule(listing)
BY DEF PublishedIsTheRule, Rule

(* A row of the queue is one again after every statement.                    *)
LEMMA RowTyped ==
  ASSUME NEW s \in {"absent", "queued", "in_progress", "succeeded", "failed", "skipped"},
         NEW n \in Nat, NEW d \in BOOLEAN
  PROVE  Row(s, n, d) \in JobRow
BY DEF Row, JobRow

LEMMA StatementsTyped ==
  ASSUME NEW x \in JobRow
  PROVE  /\ claim(x) \in JobRow /\ requeue_stalled(x) \in JobRow
         /\ mark_succeeded(x) \in JobRow /\ mark_skipped(x) \in JobRow
         /\ mark_failed(x) \in JobRow
BY BoundAssumption DEF JobRow, claim, requeue_stalled, mark_succeeded, mark_skipped, mark_failed, Row

(* Enqueueing leaves a queue.                                                *)
LEMMA EnqueueTyped ==
  ASSUME NEW table \in [Job -> JobRow], NEW next \in enqueue(table)
  PROVE  next \in [Job -> JobRow]
<1>1. Row("queued", 0, TRUE) \in JobRow
  BY RowTyped
<1>2. QED
  BY <1>1 DEF enqueue

-------------------------------------------------------------------------------
(* The invariant is inductive                                                *)

(* A new listing is published by the rule and its address is queued.         *)
LEMMA InitIInv == Init => IInv
<1> SUFFICES ASSUME Init PROVE IInv
  OBVIOUS
<1>1. PICK a \in FirstAddress :
        listing = republish([visibility |-> "public", owner |-> None, licence |-> a, postal |-> ZipOf[a],
                             precise |-> None, published |-> NoPoint])
  BY DEF Init
<1>2. [visibility |-> "public", owner |-> None, licence |-> a, postal |-> ZipOf[a],
       precise |-> None, published |-> NoPoint] \in Listing
  BY AddressAssumption DEF Listing, Zip, Point
<1>3. listing \in Listing /\ PublishedIsTheRule
  BY <1>1, <1>2, Republished, RuleOfRow
<1>4. job \in [Job -> JobRow]
  <2>1. Row("absent", 0, TRUE) \in JobRow
    BY RowTyped
  <2>2. QED
    BY <2>1, EnqueueTyped DEF Init
<1>5. worker \in [Worker -> Pass] /\ \A w \in Worker : worker[w].pc = "idle"
  BY DEF Init, At, Pass
<1>6. QED
  BY <1>3, <1>4, <1>5, BoundAssumption DEF IInv, TypeOK, PassFine, Init

(* Who changes the row without its lock finds it free, so that no worker is  *)
(* about to write.                                                           *)
LEMMA EditsKeep ==
  ASSUME IInv, holder = None, listing' \in Listing, PublishedIsTheRule', job' \in [Job -> JobRow],
         edits < MaxEdits, edits' = edits + 1, UNCHANGED <<worker, holder, stops>>
  PROVE  IInv'
<1>1. TypeOK'
  BY BoundAssumption DEF IInv, TypeOK
<1>2. \A w \in Worker : PassFine(w)'
  BY NoneAssumption DEF IInv, PassFine
<1>3. QED
  BY <1>1, <1>2 DEF IInv

(* The owner's edit.                                                         *)
LEMMA UpdateProfileKeeps ==
  ASSUME IInv, NEW visibility \in {"same", "public", "protected"},
         NEW address \in OwnAddress \cup {None, "same"}, UpdateProfile(visibility, address)
  PROVE  IInv'
<1> DEFINE updated == update_profile(listing, visibility, address)
<1>1. updated \in Listing
  BY DEF IInv, TypeOK, Listing, update_profile
<1>2. CASE visibility = "same"
  <2>1. listing' = updated
    BY <1>2 DEF UpdateProfile
  <2>2. updated.published = listing.published /\ Rule(updated) = Rule(listing)
    BY <1>2 DEF update_profile, Rule, IInv, TypeOK, Listing
  <2>3. PublishedIsTheRule'
    BY <2>1, <2>2, RuleOfRow DEF IInv, PublishedIsTheRule, Rule
  <2>4. job' \in [Job -> JobRow]
    BY EnqueueTyped DEF UpdateProfile, relocate_after_address_change, IInv, TypeOK
  <2>5. QED
    BY <1>1, <2>1, <2>3, <2>4, EditsKeep DEF UpdateProfile
<1>3. CASE visibility # "same"
  <2>1. listing' = republish(updated)
    BY <1>3 DEF UpdateProfile
  <2>2. listing' \in Listing /\ PublishedIsTheRule'
    BY <1>1, <2>1, Republished DEF PublishedIsTheRule, Rule
  <2>3. job' \in [Job -> JobRow]
    BY EnqueueTyped DEF UpdateProfile, relocate_after_address_change, IInv, TypeOK
  <2>4. QED
    BY <2>2, <2>3, EditsKeep DEF UpdateProfile
<1>4. QED
  BY <1>2, <1>3

(* The import of a licence record.                                           *)
LEMMA ImportKeeps ==
  ASSUME IInv, NEW address \in Address, Import(address)
  PROVE  IInv'
<1> DEFINE updated == upsert_from_license(listing, address)
<1>1. updated \in Listing
  BY DEF IInv, TypeOK, Listing, upsert_from_license, Zip
<1>2. CASE ZipOf[address] # listing.postal
  <2>1. listing' = republish(updated) /\ job' \in enqueue(job)
    BY <1>2 DEF Import
  <2>2. listing' \in Listing /\ PublishedIsTheRule'
    BY <1>1, <2>1, Republished DEF PublishedIsTheRule, Rule
  <2>3. job' \in [Job -> JobRow]
    BY <2>1, EnqueueTyped DEF IInv, TypeOK
  <2>4. QED
    BY <2>2, <2>3, EditsKeep DEF Import
<1>3. CASE ZipOf[address] = listing.postal
  <2>1. listing' = updated /\ job' = job
    BY <1>3 DEF Import
  <2>2. updated.published = listing.published /\ Rule(updated) = Rule(listing)
    BY <1>3 DEF upsert_from_license, Rule, IInv, TypeOK, Listing
  <2>3. PublishedIsTheRule'
    BY <2>1, <2>2, RuleOfRow DEF IInv, PublishedIsTheRule, Rule
  <2>4. QED
    BY <1>1, <2>1, <2>3, EditsKeep DEF Import, IInv, TypeOK
<1>4. QED
  BY <1>2, <1>3

(* Steps that leave the row and its lock alone and move one worker to a      *)
(* place where it is not about to write.                                     *)
LEMMA WorkerMoves ==
  ASSUME IInv, NEW w \in Worker, NEW next \in Pass,
         worker' = [worker EXCEPT ![w] = next], worker[w].pc # "apply", next.pc # "apply",
         next.pc # "idle" => next.job \in Job,
         next.pc = "lock" => next.address \in Address,
         job' \in [Job -> JobRow], UNCHANGED <<listing, holder, stops, edits>>
  PROVE  IInv'
<1>1. TypeOK'
  BY DEF IInv, TypeOK
<1>2. PublishedIsTheRule'
  BY DEF IInv, PublishedIsTheRule
<1>3. ASSUME NEW v \in Worker PROVE PassFine(v)'
  BY DEF IInv, TypeOK, PassFine
<1>4. QED
  BY <1>1, <1>2, <1>3 DEF IInv

(* Claiming sweeps the stale claims and takes a job that is due.             *)
LEMMA ClaimKeeps ==
  ASSUME IInv, NEW w \in Worker, Claim(w)
  PROVE  IInv'
<1> DEFINE swept == [j \in Job |-> IF job[j].status = "in_progress" /\ job[j].stale
                                   THEN requeue_stalled(job[j]) ELSE job[j]]
           due == {j \in Job : swept[j].status = "queued" /\ swept[j].due}
<1>1. swept \in [Job -> JobRow]
  BY StatementsTyped DEF IInv, TypeOK
<1>2. CASE due = {}
  <2>1. job' = swept /\ worker' = worker
    BY <1>2 DEF Claim
  <2>2. TypeOK'
    BY <1>1, <2>1 DEF IInv, TypeOK, Claim
  <2>3. PublishedIsTheRule' /\ \A v \in Worker : PassFine(v)'
    BY <2>1 DEF IInv, PublishedIsTheRule, PassFine, Claim
  <2>4. QED
    BY <2>2, <2>3 DEF IInv
<1>3. CASE due # {}
  <2>1. PICK j \in due : /\ job' = [swept EXCEPT ![j] = claim(@)]
                         /\ worker' = [worker EXCEPT ![w] = [At("read") EXCEPT !.job = j]]
    BY <1>3 DEF Claim
  <2>2. job' \in [Job -> JobRow]
    BY <1>1, <2>1, StatementsTyped
  <2> DEFINE next == [At("read") EXCEPT !.job = j]
  <2>3. next \in Pass /\ next.pc = "read" /\ next.job \in Job
    BY DEF At, Pass
  <2>4. worker[w].pc # "apply" /\ UNCHANGED <<listing, holder, stops, edits>>
    BY DEF Claim
  <2> HIDE DEF next, swept, due
  <2>5. worker' = [worker EXCEPT ![w] = next]
    BY <2>1 DEF next
  <2>6. QED
    BY <2>2, <2>3, <2>4, <2>5, WorkerMoves
<1>4. QED
  BY <1>2, <1>3

(* Reading the address: it is the owner's or else the licence's.             *)
LEMMA ReadKeeps ==
  ASSUME IInv, NEW w \in Worker, NEW answer \in locate, Read(w, answer)
  PROVE  IInv'
<1> DEFINE next == [worker[w] EXCEPT !.pc = answer, !.address = geocodable_address(listing)]
<1>1. geocodable_address(listing) \in Address
  BY AddressAssumption DEF geocodable_address, IInv, TypeOK, Listing
<1>2. next \in Pass /\ next.pc = answer /\ next.job = worker[w].job /\ next.address \in Address
  BY <1>1 DEF IInv, TypeOK, Pass, locate
<1>3. worker[w].job \in Job
  BY DEF IInv, PassFine, Read
<1>4. QED
  BY <1>2, <1>3, WorkerMoves DEF Read, locate, IInv, TypeOK

(* set_precise_point finds the row free and takes it: from now on what it    *)
(* read is what is there.                                                    *)
LEMMA SetPrecisePointKeeps ==
  ASSUME IInv, NEW w \in Worker, SetPrecisePoint(w)
  PROVE  IInv'
<1> DEFINE inputs == set_precise_point(listing, worker[w].address)
<1>1. worker[w].address \in Address /\ worker[w].job \in Job
  BY DEF IInv, PassFine, SetPrecisePoint
<1>2. inputs \in Listing
  BY <1>1 DEF set_precise_point, IInv, TypeOK, Listing
<1>3. [worker[w] EXCEPT !.pc = "apply", !.inputs = inputs] \in Pass
  BY <1>2 DEF IInv, TypeOK, Pass
<1>4. TypeOK'
  BY <1>3 DEF SetPrecisePoint, IInv, TypeOK
<1>5. ASSUME NEW v \in Worker PROVE PassFine(v)'
  <2>1. CASE v = w
    BY <1>1, <2>1 DEF SetPrecisePoint, set_precise_point, PassFine, IInv, TypeOK, Pass
  <2>2. CASE v # w
    <3>1. worker'[v] = worker[v] /\ worker[v].pc # "apply"
      BY <2>2, NoneAssumption DEF SetPrecisePoint, PassFine, IInv, TypeOK
    <3>2. QED
      BY <3>1 DEF SetPrecisePoint, PassFine, IInv
  <2>3. QED
    BY <2>1, <2>2
<1>6. PublishedIsTheRule'
  BY DEF SetPrecisePoint, IInv, PublishedIsTheRule
<1>7. QED
  BY <1>4, <1>5, <1>6 DEF IInv

(* Writing what republish made of the row that the worker holds.             *)
LEMMA ApplyWrites ==
  ASSUME IInv, NEW w \in Worker, Apply(w)
  PROVE  /\ holder = w
         /\ listing' = republish([listing EXCEPT !.precise = worker[w].address])
         /\ [listing EXCEPT !.precise = worker[w].address] \in Listing
         /\ worker[w].address \in Address
<1> DEFINE inputs == [listing EXCEPT !.precise = worker[w].address]
<1>1. holder = w /\ worker[w].inputs = inputs /\ worker[w].address \in Address
  BY DEF IInv, PassFine, Apply
<1>2. inputs \in Listing
  BY <1>1 DEF IInv, TypeOK, Listing
<1>3. listing' = [listing EXCEPT !.precise = republish(inputs).precise, !.published = republish(inputs).published]
  BY <1>1 DEF Apply
<1>4. republish(inputs) = [inputs EXCEPT !.published = Rule(inputs)]
  BY <1>2, Republished
<1>5. listing' = republish(inputs)
  BY <1>3, <1>4 DEF IInv, TypeOK, Listing
<1>6. QED
  BY <1>1, <1>2, <1>5

LEMMA ApplyKeeps ==
  ASSUME IInv, NEW w \in Worker, Apply(w)
  PROVE  IInv'
<1> DEFINE inputs == [listing EXCEPT !.precise = worker[w].address]
<1>0. inputs \in Listing /\ listing' = republish(inputs)
  BY ApplyWrites
<1> HIDE DEF inputs
<1>1. listing' \in Listing /\ PublishedIsTheRule'
  BY <1>0, Republished DEF PublishedIsTheRule, Rule
<1>2. job' \in [Job -> JobRow]
  BY StatementsTyped DEF Apply, IInv, TypeOK
<1>3. At("idle") \in Pass
  BY DEF At, Pass
<1>4. TypeOK'
  BY <1>1, <1>2, <1>3, ApplyWrites DEF Apply, IInv, TypeOK
<1>5. ASSUME NEW v \in Worker PROVE PassFine(v)'
  <2>1. CASE v = w
    BY <2>1 DEF Apply, PassFine, IInv, TypeOK, At
  <2>2. CASE v # w
    <3>1. worker'[v] = worker[v] /\ worker[v].pc # "apply"
      BY <2>2, ApplyWrites DEF Apply, PassFine, IInv, TypeOK
    <3>2. QED
      BY <3>1 DEF PassFine, IInv
  <2>3. QED
    BY <2>1, <2>2
<1>6. QED
  BY <1>1, <1>4, <1>5 DEF IInv

(* A job without a match, and one that failed.                               *)
LEMMA SkipKeeps ==
  ASSUME IInv, NEW w \in Worker, Skip(w)
  PROVE  IInv'
<1>1. job' \in [Job -> JobRow]
  BY StatementsTyped DEF Skip, IInv, TypeOK
<1>2. At("idle") \in Pass /\ At("idle").pc = "idle"
  BY DEF At, Pass
<1>3. QED
  BY <1>1, <1>2, WorkerMoves DEF Skip

LEMMA FailKeeps ==
  ASSUME IInv, NEW w \in Worker, Fail(w)
  PROVE  IInv'
<1>1. [job EXCEPT ![worker[w].job] = mark_failed(@)] \in [Job -> JobRow]
  BY StatementsTyped DEF IInv, TypeOK
<1>2. job' \in [Job -> JobRow]
  BY <1>1 DEF Fail, IInv, TypeOK
<1>3. At("idle") \in Pass /\ At("idle").pc = "idle"
  BY DEF At, Pass
<1>4. QED
  BY <1>2, <1>3, WorkerMoves DEF Fail

(* A death gives the row back unwritten.                                     *)
LEMMA DieKeeps ==
  ASSUME IInv, NEW w \in Worker, Die(w)
  PROVE  IInv'
<1>1. At("idle") \in Pass /\ At("idle").pc = "idle"
  BY DEF At, Pass
<1>2. TypeOK'
  BY <1>1, BoundAssumption DEF Die, IInv, TypeOK
<1>3. ASSUME NEW v \in Worker PROVE PassFine(v)'
  BY <1>1 DEF Die, PassFine, IInv, TypeOK
<1>4. QED
  BY <1>2, <1>3 DEF Die, IInv, PublishedIsTheRule

(* Time touches the queue alone.                                             *)
LEMMA TimeKeeps ==
  ASSUME IInv, NEW j \in Job, ClaimGoesStale(j) \/ BackoffElapses(j)
  PROVE  IInv'
<1>1. job' \in [Job -> JobRow]
  BY DEF ClaimGoesStale, BackoffElapses, IInv, TypeOK, JobRow
<1>2. UNCHANGED <<listing, worker, holder, stops, edits>>
  BY DEF ClaimGoesStale, BackoffElapses
<1>3. QED
  BY <1>1, <1>2 DEF IInv, TypeOK, PublishedIsTheRule, PassFine

LEMMA NextIInv == IInv /\ [Next]_vars => IInv'
<1> SUFFICES ASSUME IInv, [Next]_vars PROVE IInv'
  OBVIOUS
<1>1. ASSUME NEW visibility \in {"same", "public", "protected"},
             NEW address \in OwnAddress \cup {None, "same"}, UpdateProfile(visibility, address)
      PROVE  IInv'
  BY <1>1, UpdateProfileKeeps
<1>2. ASSUME NEW address \in Address, Import(address) PROVE IInv'
  BY <1>2, ImportKeeps
<1>3. ASSUME NEW w \in Worker, Step(w) PROVE IInv'
  BY <1>3, ClaimKeeps, ReadKeeps, SetPrecisePointKeeps, ApplyKeeps, SkipKeeps, FailKeeps DEF Step
<1>4. ASSUME NEW w \in Worker, Die(w) PROVE IInv'
  BY <1>4, DieKeeps
<1>5. ASSUME NEW j \in Job, ClaimGoesStale(j) \/ BackoffElapses(j) PROVE IInv'
  BY <1>5, TimeKeeps
<1>6. CASE UNCHANGED vars
  BY <1>6 DEF vars, IInv, TypeOK, PublishedIsTheRule, PassFine
<1>7. QED
  BY <1>1, <1>2, <1>3, <1>4, <1>5, <1>6 DEF Next

LEMMA Invariance == Spec => []IInv
BY InitIInv, NextIInv, PTL DEF Spec

-------------------------------------------------------------------------------
(* The results                                                               *)

(* The listing's row, the queue and the passes keep their types              *)
(* (repo/geocode.rs, repo/contractors.rs).                                   *)
THEOREM TypeCorrect == Spec => []TypeOK
<1>1. IInv => TypeOK
  BY DEF IInv
<1>2. QED
  BY <1>1, Invariance, PTL

(* However workers, edits and imports interleave, what is published is what  *)
(* the rule makes of the row (republish, apply_geocode).                     *)
THEOREM RuleHolds == Spec => []PublishedIsTheRule
<1>1. IInv => PublishedIsTheRule
  BY DEF IInv
<1>2. QED
  BY <1>1, Invariance, PTL

(* No step takes a point away that was found (republish, set_location).      *)
LEMMA StepKeepsPoint ==
  ASSUME IInv, Next, listing.precise # None
  PROVE  listing'.precise # None
<1>1. ASSUME NEW visibility \in {"same", "public", "protected"},
             NEW address \in OwnAddress \cup {None, "same"}, UpdateProfile(visibility, address)
      PROVE  listing'.precise # None
  <2> DEFINE updated == update_profile(listing, visibility, address)
  <2>1. updated \in Listing /\ updated.precise = listing.precise
    BY DEF IInv, TypeOK, Listing, update_profile
  <2>2. listing' = updated \/ listing' = republish(updated)
    BY <1>1 DEF UpdateProfile
  <2>3. QED
    BY <2>1, <2>2, Republished
<1>2. ASSUME NEW address \in Address, Import(address) PROVE listing'.precise # None
  <2> DEFINE updated == upsert_from_license(listing, address)
  <2>1. updated \in Listing /\ updated.precise = listing.precise
    BY DEF IInv, TypeOK, Listing, upsert_from_license, Zip
  <2>2. listing' = updated \/ listing' = republish(updated)
    BY <1>2 DEF Import
  <2>3. QED
    BY <2>1, <2>2, Republished
<1>3. ASSUME NEW w \in Worker, Apply(w) PROVE listing'.precise # None
  <2>1. [listing EXCEPT !.precise = worker[w].address].precise = worker[w].address
    BY DEF IInv, TypeOK, Listing
  <2>2. QED
    BY <1>3, <2>1, ApplyWrites, Republished, NoneAssumption
<1>4. ASSUME NEW w \in Worker, Step(w), ~Apply(w) PROVE listing' = listing
  BY <1>4 DEF Step, Claim, Read, SetPrecisePoint, Skip, Fail
<1>5. ASSUME NEW w \in Worker, Die(w) PROVE listing' = listing
  BY <1>5 DEF Die
<1>6. ASSUME NEW j \in Job, ClaimGoesStale(j) \/ BackoffElapses(j) PROVE listing' = listing
  BY <1>6 DEF ClaimGoesStale, BackoffElapses
<1>7. QED
  BY <1>1, <1>2, <1>3, <1>4, <1>5, <1>6 DEF Next

(* A point once found stays, whoever writes the listing next.                *)
THEOREM PointKept == Spec => PreciseNeverLost
<1>1. IInv /\ [Next]_vars => [listing.precise # None => listing'.precise # None]_vars
  BY StepKeepsPoint
<1>2. QED
  BY <1>1, Invariance, PTL DEF Spec, PreciseNeverLost
===============================================================================
