----------------------------- MODULE VerifiedBadge -----------------------------
(***************************************************************************)
(* Claims on listings, the licence register behind them and the verified   *)
(* badge (crates/cm-domain/src/claims.rs, verification.rs, import.rs and   *)
(* the repositories claims, licenses and contractors).                     *)
(*                                                                         *)
(* Three kinds of transactions meet here at READ COMMITTED: requests that  *)
(* open, decide or withdraw a claim, the batches of a licence import, and  *)
(* the pages of the nightly re-check.  All of them end in recompute, which *)
(* reads the owner and the licence, and then writes the badge.  A row of a *)
(* table is a cell: what is committed, what the transaction that holds its *)
(* lock has written, and who that is.                                      *)
(*                                                                         *)
(* Left out: rows that nothing here reads back (audit, verification_checks,*)
(* roles, licence versions), the text of the reasons, trades, names and    *)
(* the location work of the import.  One import runs at a time, as the     *)
(* operator starts them.                                                   *)
(***************************************************************************)
EXTENDS Integers, FiniteSets

CONSTANTS
  Listings,      \* contractors with their licences, numbered in order of id
  Users,         \* contractor accounts
  Requests,      \* requests about claims; the claim that one opens has its name
  Waiting,       \* claims that were left pending when claims began to approve themselves
  Imports,       \* import runs
  Nightly,       \* the re-check
  None,          \* NULL
  Register,      \* the licences as the model begins
  Files,         \* files of the register: what each says of a licence
  BatchSize,     \* rows of an import batch
  PageSize,      \* rows of a page of the re-check
  MaxFailures    \* bound: how often the re-check may die

(* What the register says of a licence: active without an end, active until  *)
(* a date, or anything else.  "absent" is a licence it does not name.        *)
Contents == {"active", "dated", "inactive"}
Tx == Requests \cup Imports \cup {Nightly}
Claims == Requests \cup Waiting

ASSUME ListingsAssumption == Listings \subseteq Nat \ {0}
ASSUME NamesAssumption ==
  /\ Requests \cap Imports = {} /\ Requests \cap Waiting = {}
  /\ Nightly \notin Requests \cup Imports
  /\ None \notin Tx /\ None \notin Users /\ None \notin Claims /\ None \notin Listings
ASSUME FilesAssumption ==
  /\ Register \in [Listings -> Contents \cup {"absent"}]
  /\ Files \subseteq [Listings -> Contents \cup {"absent"}]
ASSUME BoundAssumption ==
  BatchSize \in Nat \ {0} /\ PageSize \in Nat \ {0} /\ MaxFailures \in Nat

VARIABLES
  licence,   \* license_records: cells of contents
  listing,   \* contractors: cells of owner and badge
  claim,     \* contractor_claims: cells
  tx,        \* where each transaction stands
  run,       \* license_import_runs
  late,      \* the date of the dated licences has passed
  failures   \* how often the re-check has died

tables == <<licence, listing, claim>>
vars == <<tables, tx, run, late, failures>>

-------------------------------------------------------------------------------
(* Rows under READ COMMITTED.                                                *)

Cell(V) == [now : V, new : V, by : Tx \cup {None}]
At(v) == [now |-> v, new |-> v, by |-> None]
Free(t, c) == c.by \in {t, None}
See(t, c) == IF c.by = t THEN c.new ELSE c.now
Put(t, c, v) == [now |-> c.now, new |-> v, by |-> t]
Committed(t, table) ==
  [k \in DOMAIN table |-> IF table[k].by = t THEN At(table[k].new) ELSE table[k]]
RolledBack(t, table) ==
  [k \in DOMAIN table |-> IF table[k].by = t THEN At(table[k].now) ELSE table[k]]

CommitTables(t) ==
  /\ licence' = Committed(t, licence)
  /\ listing' = Committed(t, listing)
  /\ claim' = Committed(t, claim)
RollBackTables(t) ==
  /\ licence' = RolledBack(t, licence)
  /\ listing' = RolledBack(t, listing)
  /\ claim' = RolledBack(t, claim)

-------------------------------------------------------------------------------
Status == {"none", "pending", "approved", "rejected", "withdrawn"}
Claim == [listing : Listings \cup {None}, user : Users \cup {None}, status : Status]
NoClaim == [listing |-> None, user |-> None, status |-> "none"]
Listing == [owner : Users \cup {None}, verified : BOOLEAN]
Unowned == [owner |-> None, verified |-> FALSE]

Step ==
  [pc      : {"idle", "insert", "decide", "attach", "facts", "badge", "commit", "done",
              "batch", "row", "project", "page"},
   l       : Listings \cup {None},
   user    : Users \cup {None},
   claim   : Claims \cup {None},
   verdict : Status \cup {None},
   badge   : BOOLEAN,                   \* what recompute has decided
   todo    : SUBSET Listings,           \* rows of this batch or page still to do
   rest    : SUBSET Listings,           \* rows of the file after this batch
   after   : Nat]                       \* the last id of the page
Idle == [pc |-> "idle", l |-> None, user |-> None, claim |-> None, verdict |-> None,
         badge |-> FALSE, todo |-> {}, rest |-> {}, after |-> 0]
Done == [Idle EXCEPT !.pc = "done"]
NoRun == [file |-> Register, status |-> "none"]

TypeOK ==
  /\ licence \in [Listings -> Cell(Contents \cup {"absent"})]
  /\ listing \in [Listings -> Cell(Listing)]
  /\ claim \in [Claims -> Cell(Claim)]
  /\ tx \in [Tx -> Step]
  /\ run \in [Imports -> [file : Files \cup {Register},
                          status : {"none", "running", "succeeded", "failed"}]]
  /\ late \in BOOLEAN
  /\ failures \in Nat

Init ==
  /\ licence = [l \in Listings |-> At(Register[l])]
  /\ listing = [l \in Listings |-> At(Unowned)]
  /\ \E p \in [Waiting -> {l \in Listings : Register[l] /= "absent"} \X Users] :
       /\ \A j, k \in Waiting : p[j] = p[k] => j = k
       /\ claim = [k \in Claims |->
                     At(IF k \in Waiting
                        THEN [listing |-> p[k][1], user |-> p[k][2], status |-> "pending"]
                        ELSE NoClaim)]
  /\ tx = [t \in Tx |-> Idle]
  /\ run = [i \in Imports |-> NoRun]
  /\ late = FALSE
  /\ failures = 0

Go(t, pc) == tx' = [tx EXCEPT ![t].pc = pc]

-------------------------------------------------------------------------------
(* The badge.                                                                *)

\* Mutant: an active licence is enough.
DecideByLicence(claimed, content) ==
  content = "active" \/ (content = "dated" /\ ~ late)
(* verification::decide: both halves, and a date that has not passed.        *)
decide(claimed, content) ==
  /\ content = "active" \/ (content = "dated" /\ ~ late)
  /\ claimed

(* Rows that refer to l, a claim or the check recorded with a rejection, hold *)
(* the listing's row FOR KEY SHARE.  Only a change of owner keeps them out.   *)
KeyShare(l) ==
  {r \in Requests : \/ claim[r].by = r /\ claim[r].new.listing = l
                    \/ tx[r].verdict = "rejected" /\ tx[r].pc = "badge" /\ tx[r].l = l}
MayRefer(t, l) ==
  Free(t, listing[l]) \/ listing[l].new.owner = listing[l].now.owner

(* recompute's reads: the owner and the licence, the transaction's own       *)
(* writes included.  A rejection records its check before them.              *)
ReadFacts(t) ==
  /\ tx[t].pc = "facts"
  /\ tx[t].verdict = "rejected" => MayRefer(t, tx[t].l)
  /\ tx' = [tx EXCEPT ![t].pc = "badge",
                      ![t].badge = decide(See(t, listing[tx[t].l]).owner /= None,
                                          See(t, licence[tx[t].l]))]
  /\ UNCHANGED <<tables, run, late, failures>>

(* set_verification waits for the row and writes what was decided.           *)
set_verification(t) ==
  LET l == tx[t].l IN
  /\ tx[t].pc = "badge"
  /\ Free(t, listing[l])
  /\ listing' = [listing EXCEPT ![l] = Put(t, @, [See(t, @) EXCEPT !.verified = tx[t].badge])]
  /\ tx' = [tx EXCEPT ![t].pc = IF t \in Requests THEN "commit" ELSE "row",
                      ![t].l = None, ![t].badge = FALSE]
  /\ UNCHANGED <<licence, claim, run, late, failures>>

(* A date passes.                                                            *)
DatePasses ==
  /\ ~ late
  /\ late' = TRUE
  /\ UNCHANGED <<tables, tx, run, failures>>

-------------------------------------------------------------------------------
(* Requests about claims.                                                    *)

(* open: the listing is there and free, and so is the account.               *)
Open(r, u, l) ==
  /\ tx[r].pc = "idle"
  /\ licence[l].now /= "absent"
  /\ listing[l].now.owner = None
  /\ \A k \in Listings : listing[k].now.owner /= u
  /\ tx' = [tx EXCEPT ![r] = [Idle EXCEPT !.pc = "insert", !.l = l, !.user = u, !.claim = r,
                                          !.verdict = "approved"]]
  /\ UNCHANGED <<tables, run, late, failures>>

(* claims::open: one pending claim per pair; whoever is inserting one for    *)
(* the same pair is waited for.                                              *)
InsertClaim(r) ==
  /\ tx[r].pc = "insert"
  /\ MayRefer(r, tx[r].l)
  /\ \A k \in Claims \ {r} :
       claim[k].new.listing = tx[r].l /\ claim[k].new.user = tx[r].user =>
         claim[k].by = None /\ claim[k].now.status /= "pending"
  /\ claim' = [claim EXCEPT ![r] =
                 Put(r, @, [listing |-> tx[r].l, user |-> tx[r].user, status |-> "pending"])]
  /\ Go(r, "decide")
  /\ UNCHANGED <<licence, listing, run, late, failures>>

(* Claims that stand in the way of approving k: the listing or the account   *)
(* has an approved one, committed (then it is a conflict) or not (then it is *)
(* waited for).                                                              *)
Rivals(k) ==
  {j \in Claims \ {k} :
     /\ claim[j].new.status = "approved"
     /\ \/ claim[j].new.listing = claim[k].new.listing
        \/ claim[j].new.user = claim[k].new.user}

(* decide, and withdraw with its look at who asks: only a pending claim.     *)
Review(r, k, verdict) ==
  /\ tx[r].pc = "idle"
  /\ claim[k].now.status = "pending"
  /\ tx' = [tx EXCEPT ![r] = [Idle EXCEPT !.pc = "decide", !.l = claim[k].now.listing,
                                          !.user = claim[k].now.user, !.claim = k,
                                          !.verdict = verdict]]
  /\ UNCHANGED <<tables, run, late, failures>>

\* Mutant: attach_claimant is not under "if approve".
AfterAnyVerdict(verdict) ==
  IF verdict = "withdrawn" THEN "commit" ELSE "attach"
AfterVerdict(verdict) ==
  CASE verdict = "approved" -> "attach"
    [] verdict = "rejected" -> "facts"
    [] OTHER -> "commit"

\* Mutant: the UPDATE lacks its condition on the status.
DecideAgain(r) ==
  LET k == tx[r].claim IN
  /\ tx[r].pc = "decide"
  /\ Free(r, claim[k])
  /\ tx[r].verdict = "approved" => Rivals(k) = {}
  /\ claim' = [claim EXCEPT ![k] = Put(r, @, [See(r, @) EXCEPT !.status = tx[r].verdict])]
  /\ Go(r, AfterVerdict(tx[r].verdict))
  /\ UNCHANGED <<licence, listing, run, late, failures>>
(* claims::decide: from pending only, and one approved claim per listing and *)
(* per account.                                                              *)
DecideClaim(r) ==
  LET k == tx[r].claim IN
  /\ tx[r].pc = "decide"
  /\ Free(r, claim[k])
  /\ See(r, claim[k]).status = "pending"
  /\ tx[r].verdict = "approved" => Rivals(k) = {}
  /\ claim' = [claim EXCEPT ![k] = Put(r, @, [See(r, @) EXCEPT !.status = tx[r].verdict])]
  /\ Go(r, AfterVerdict(tx[r].verdict))
  /\ UNCHANGED <<licence, listing, run, late, failures>>

(* withdraw does not look at how many rows its UPDATE changed: a claim that  *)
(* was decided meanwhile stays as it is, and the answer is the same.         *)
WithdrawNothing(r) ==
  LET k == tx[r].claim IN
  /\ tx[r].pc = "decide" /\ tx[r].verdict = "withdrawn"
  /\ Free(r, claim[k])
  /\ See(r, claim[k]).status /= "pending"
  /\ Go(r, "commit")
  /\ UNCHANGED <<tables, run, late, failures>>

(* attach_claimant: the UPDATE of a column with a unique index waits for     *)
(* every other lock on the row, KEY SHARE included.                          *)
attach_claimant(r) ==
  LET l == tx[r].l IN
  /\ tx[r].pc = "attach"
  /\ Free(r, listing[l])
  /\ KeyShare(l) \subseteq {r}
  /\ listing[l].now.owner = None
  /\ \A k \in Listings : listing[k].new.owner /= tx[r].user
  /\ listing' = [listing EXCEPT ![l] = Put(r, @, [See(r, @) EXCEPT !.owner = tx[r].user])]
  /\ Go(r, "facts")
  /\ UNCHANGED <<licence, claim, run, late, failures>>

CommitRequest(r) ==
  /\ tx[r].pc = "commit"
  /\ CommitTables(r)
  /\ tx' = [tx EXCEPT ![r] = Done]
  /\ UNCHANGED <<run, late, failures>>

(* A conflict, an error, a timeout or a deadlock.                            *)
GiveUp(r) ==
  /\ tx[r].pc \notin {"idle", "done"}
  /\ RollBackTables(r)
  /\ tx' = [tx EXCEPT ![r] = Done]
  /\ UNCHANGED <<run, late, failures>>

-------------------------------------------------------------------------------
(* The import.                                                               *)

InFile(f) == {l \in Listings : f[l] /= "absent"}

(* begin_run refuses bytes that were imported before.                        *)
begin_run(i, f) ==
  /\ tx[i].pc = "idle"
  /\ \A j \in Imports : tx[j].pc \in {"idle", "done"}
  /\ \A j \in Imports : ~ (run[j].file = f /\ run[j].status = "succeeded")
  /\ run' = [run EXCEPT ![i] = [file |-> f, status |-> "running"]]
  /\ tx' = [tx EXCEPT ![i] = [Idle EXCEPT !.pc = "batch", !.rest = InFile(f)]]
  /\ UNCHANGED <<tables, late, failures>>

(* import_rows gathers a batch, in the order of the file.                    *)
Gather(i) ==
  /\ tx[i].pc = "batch"
  /\ \E batch \in SUBSET tx[i].rest :
       /\ batch /= {}
       /\ Cardinality(batch) = BatchSize \/ (Cardinality(batch) < BatchSize /\ batch = tx[i].rest)
       /\ tx' = [tx EXCEPT ![i].pc = "row", ![i].todo = batch, ![i].rest = @ \ batch]
  /\ UNCHANGED <<tables, run, late, failures>>

(* licenses::upsert: a row whose content is known is only touched, and needs *)
(* no projection.                                                            *)
upsert(i, l) ==
  /\ tx[i].pc = "row" /\ l \in tx[i].todo
  /\ LET content == run[i].file[l] IN
       IF licence[l].now = content
       THEN /\ tx' = [tx EXCEPT ![i].todo = @ \ {l}]
            /\ UNCHANGED licence
       ELSE /\ licence' = [licence EXCEPT ![l] = Put(i, @, content)]
            /\ tx' = [tx EXCEPT ![i].pc = "project", ![i].l = l, ![i].todo = @ \ {l}]
  /\ UNCHANGED <<listing, claim, run, late, failures>>

\* Mutant: a listing that nobody owns is not written, and so not locked.
ProjectUnlocked(i) ==
  /\ tx[i].pc = "project"
  /\ Go(i, "facts")
  /\ UNCHANGED <<tables, run, late, failures>>
(* upsert_from_license inserts the listing, or refreshes the name of one     *)
(* that nobody owns; of one that is owned it writes the place if that moved. *)
upsert_from_license(i) ==
  LET l == tx[i].l IN
  /\ tx[i].pc = "project"
  /\ \/ /\ Free(i, listing[l])
        /\ listing' = [listing EXCEPT ![l] = Put(i, @, See(i, @))]
     \/ /\ listing[l].now.owner /= None
        /\ UNCHANGED listing
  /\ Go(i, "facts")
  /\ UNCHANGED <<licence, claim, run, late, failures>>

CommitBatch(i) ==
  /\ tx[i].pc = "row" /\ tx[i].todo = {}
  /\ CommitTables(i)
  /\ Go(i, "batch")
  /\ UNCHANGED <<run, late, failures>>

finish_run(i) ==
  /\ tx[i].pc = "batch" /\ tx[i].rest = {}
  /\ run' = [run EXCEPT ![i].status = "succeeded"]
  /\ tx' = [tx EXCEPT ![i] = Done]
  /\ UNCHANGED <<tables, late, failures>>

(* An error is recorded as failed; a death leaves the run running.  The      *)
(* batches before this one stay.                                             *)
ImportStops(i, status) ==
  /\ tx[i].pc \notin {"idle", "done"}
  /\ RollBackTables(i)
  /\ run' = [run EXCEPT ![i].status = status]
  /\ tx' = [tx EXCEPT ![i] = Done]
  /\ UNCHANGED <<late, failures>>

-------------------------------------------------------------------------------
(* The nightly re-check.                                                     *)

StartPass ==
  /\ tx[Nightly].pc = "idle"
  /\ tx' = [tx EXCEPT ![Nightly] = [Idle EXCEPT !.pc = "page"]]
  /\ UNCHANGED <<tables, run, late, failures>>

Beyond == {l \in Listings : licence[l].now /= "absent" /\ l > tx[Nightly].after}

\* Mutant: a page that is full is taken for the last one.
OnlyFirstPage ==
  /\ tx[Nightly].pc = "page"
  /\ \/ /\ Beyond = {} \/ tx[Nightly].after > 0
        /\ tx' = [tx EXCEPT ![Nightly] = Idle]
     \/ \E last \in Beyond :
          LET page == {l \in Beyond : l <= last} IN
          /\ tx[Nightly].after = 0
          /\ Cardinality(page) = PageSize \/ (Cardinality(page) < PageSize /\ page = Beyond)
          /\ tx' = [tx EXCEPT ![Nightly].pc = "row", ![Nightly].todo = page, ![Nightly].after = last]
  /\ UNCHANGED <<tables, run, late, failures>>
(* recompute_all takes the ids after the last page's, and ends at an empty   *)
(* page.                                                                     *)
NextPage ==
  /\ tx[Nightly].pc = "page"
  /\ \/ /\ Beyond = {}
        /\ tx' = [tx EXCEPT ![Nightly] = Idle]
     \/ \E last \in Beyond :
          LET page == {l \in Beyond : l <= last} IN
          /\ Cardinality(page) = PageSize \/ (Cardinality(page) < PageSize /\ page = Beyond)
          /\ tx' = [tx EXCEPT ![Nightly].pc = "row", ![Nightly].todo = page, ![Nightly].after = last]
  /\ UNCHANGED <<tables, run, late, failures>>

NextRow ==
  /\ tx[Nightly].pc = "row"
  /\ \E l \in tx[Nightly].todo :
       /\ \A k \in tx[Nightly].todo : l <= k
       /\ tx' = [tx EXCEPT ![Nightly].pc = "facts", ![Nightly].l = l, ![Nightly].todo = @ \ {l}]
  /\ UNCHANGED <<tables, run, late, failures>>

CommitPage ==
  /\ tx[Nightly].pc = "row" /\ tx[Nightly].todo = {}
  /\ CommitTables(Nightly)
  /\ Go(Nightly, "page")
  /\ UNCHANGED <<run, late, failures>>

(* An error ends the pass; the timer starts the next one.                    *)
PassFails ==
  /\ tx[Nightly].pc /= "idle" /\ failures < MaxFailures
  /\ RollBackTables(Nightly)
  /\ tx' = [tx EXCEPT ![Nightly] = Idle]
  /\ failures' = failures + 1
  /\ UNCHANGED <<run, late>>

-------------------------------------------------------------------------------
Begin(r) ==
  \/ \E u \in Users, l \in Listings : Open(r, u, l)
  \/ \E k \in Claims, v \in {"approved", "rejected", "withdrawn"} : Review(r, k, v)

Recompute(t) == ReadFacts(t) \/ set_verification(t)

Proceed(r) ==
  InsertClaim(r) \/ DecideClaim(r) \/ WithdrawNothing(r) \/ attach_claimant(r) \/ Recompute(r)
    \/ CommitRequest(r) \/ GiveUp(r)

ImportStep(i) ==
  \/ Gather(i) \/ (\E l \in Listings : upsert(i, l)) \/ upsert_from_license(i) \/ Recompute(i)
  \/ CommitBatch(i) \/ finish_run(i)
  \/ \E status \in {"running", "failed"} : ImportStops(i, status)

NightStep == StartPass \/ NextPage \/ NextRow \/ Recompute(Nightly) \/ CommitPage

Next ==
  \/ \E r \in Requests : Begin(r) \/ Proceed(r)
  \/ \E i \in Imports : ImportStep(i) \/ \E f \in Files : begin_run(i, f)
  \/ NightStep \/ PassFails
  \/ DatePasses

Spec == Init /\ [][Next]_vars

(* Requests end (they time out), an import ends one way or the other, and    *)
(* the timer runs the re-check again and again.                              *)
FairSpec ==
  /\ Spec
  /\ \A r \in Requests : WF_vars(Proceed(r))
  /\ \A i \in Imports : WF_vars(ImportStep(i))
  /\ WF_vars(NightStep)

-------------------------------------------------------------------------------
(* Properties.                                                               *)

(* A listing has an owner exactly when that account has an approved claim on *)
(* it, and an account owns one listing: the decision and the ownership       *)
(* become visible together, and the indexes settle every race (claims::open, *)
(* claims::decide).                                                          *)
OwnershipMatchesClaims ==
  /\ \A l \in Listings, u \in Users :
       listing[l].now.owner = u <=>
         \E k \in Claims : claim[k].now = [listing |-> l, user |-> u, status |-> "approved"]
  /\ \A k, j \in Claims :
       /\ claim[k].now.status = "approved" /\ claim[j].now.status = "approved"
       /\ claim[k].now.listing = claim[j].now.listing \/ claim[k].now.user = claim[j].now.user
       => k = j

(* A badge is never seen on a listing that nobody owns, however old the      *)
(* facts it was decided on (verification::recompute).                        *)
NeverVerifiedUnowned ==
  \A l \in Listings : listing[l].now.verified => listing[l].now.owner /= None

(* The rule, with a date that may have passed since it was applied.          *)
Follows(verified, claimed, content) ==
  \/ verified = decide(claimed, content)
  \/ content = "dated" /\ late /\ verified = claimed

Rechecked(t, l) ==
  \/ tx[t].pc = "commit" /\ tx[t].verdict = "approved"
  \/ t \in Imports /\ tx[t].pc = "row" /\ l \notin tx[t].todo

(* A transaction that changes the facts, an approval or an import, commits a *)
(* badge that follows from the facts as it leaves them, although others      *)
(* change the other half meanwhile.                                          *)
ChangersLeaveBadgeRight ==
  \A t \in Requests \cup Imports, l \in Listings :
    listing[l].by = t /\ Rechecked(t, l) =>
      Follows(listing[l].new.verified, listing[l].new.owner /= None, See(t, licence[l]))

(* A file that succeeded is in the register, row by row, whether it took one *)
(* run or several that died between their batches.                           *)
FileStored ==
  \A i \in Imports :
    /\ run[i].status = "succeeded"
    /\ \A j \in Imports : run[j].status = "none" \/ run[j].file = run[i].file
    => \A l \in InFile(run[i].file) : licence[l].now = run[i].file[l]

(* A claim that was decided, and the owner of a listing, never change.       *)
DecisionsFinal ==
  [][/\ \A k \in Claims :
          claim[k].now.status \in {"approved", "rejected", "withdrawn"} => claim'[k].now = claim[k].now
     /\ \A l \in Listings :
          listing[l].now.owner /= None => listing'[l].now.owner = listing[l].now.owner]_vars

(* Once claims, imports and dates have come to rest, every badge is right    *)
(* for good: the nightly re-check repairs what a race or a date left wrong.  *)
BadgesSettle ==
  \A l \in Listings :
    <>[](listing[l].now.verified = decide(listing[l].now.owner /= None, licence[l].now))

(* "An import that changes a licence must move the badge with it": a         *)
(* verified listing's licence is not inactive (import::flush,                *)
(* verification::recompute).                                                 *)
ImportMovesBadge ==
  \A l \in Listings : listing[l].now.verified => licence[l].now /= "inactive"

(* r waits for q: for its claim, which the unique index would refuse, or for *)
(* its lock on the listing's row.                                            *)
WaitsFor(r, q) ==
  \/ /\ tx[r].pc = "decide" /\ tx[r].verdict = "approved"
     /\ \E j \in Rivals(tx[r].claim) : claim[j].by = q
  \/ tx[r].pc = "attach" /\ q \in KeyShare(tx[r].l)

(* Of two simultaneous claims on a listing one wins and the other is told:   *)
(* they never wait for each other (claims::open).                            *)
NoMutualWait ==
  \A r, q \in Requests : r /= q => ~ (WaitsFor(r, q) /\ WaitsFor(q, r))
===============================================================================
