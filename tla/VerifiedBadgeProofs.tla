-------------------------- MODULE VerifiedBadgeProofs --------------------------
(* Proofs about VerifiedBadge, for any listings, accounts, requests, imports *)
(* and files.                                                                *)
EXTENDS VerifiedBadge, TLAPS

(* What a row operation returns is a row.                                    *)
LEMMA CellTypes ==
  ASSUME NEW V, NEW t \in Tx, NEW c \in Cell(V), NEW v \in V
  PROVE  /\ Put(t, c, v) \in Cell(V)
         /\ At(v) \in Cell(V)
         /\ See(t, c) \in V
  BY DEF Cell, Put, At, See

(* What the end of a transaction leaves is a table.                          *)
LEMMA TableTypes ==
  ASSUME NEW K, NEW V, NEW t \in Tx, NEW table \in [K -> Cell(V)]
  PROVE  /\ Committed(t, table) \in [K -> Cell(V)]
         /\ RolledBack(t, table) \in [K -> Cell(V)]
         /\ \A k \in K :
              /\ Committed(t, table)[k] = IF table[k].by = t THEN At(table[k].new) ELSE table[k]
              /\ RolledBack(t, table)[k] = IF table[k].by = t THEN At(table[k].now) ELSE table[k]
<1>1. DOMAIN table = K
  OBVIOUS
<1>2. \A k \in K : At(table[k].new) \in Cell(V) /\ At(table[k].now) \in Cell(V)
  BY DEF Cell, At
<1> QED
  BY <1>1, <1>2 DEF Committed, RolledBack

(* Steps of a transaction are records of the type.                           *)
LEMMA StepTypes ==
  /\ Idle \in Step /\ Done \in Step
  /\ Requests \subseteq Tx /\ Imports \subseteq Tx /\ Nightly \in Tx /\ Requests \subseteq Claims
<1>1. Idle \in Step
  BY DEF Idle, Step, Status
<1>2. Done \in Step
  BY <1>1 DEF Done, Step
<1> QED
  BY <1>1, <1>2 DEF Tx, Claims

(* The tables of a transaction that ends keep their types.                   *)
LEMMA EndTypes ==
  ASSUME TypeOK, NEW t \in Tx, CommitTables(t) \/ RollBackTables(t)
  PROVE  /\ licence' \in [Listings -> Cell(Contents \cup {"absent"})]
         /\ listing' \in [Listings -> Cell(Listing)]
         /\ claim' \in [Claims -> Cell(Claim)]
<1>1. /\ licence \in [Listings -> Cell(Contents \cup {"absent"})]
      /\ listing \in [Listings -> Cell(Listing)]
      /\ claim \in [Claims -> Cell(Claim)]
  BY DEF TypeOK
<1>2. CASE CommitTables(t)
  BY <1>1, <1>2, TableTypes DEF CommitTables
<1>3. CASE RollBackTables(t)
  BY <1>1, <1>3, TableTypes DEF RollBackTables
<1> QED
  BY <1>2, <1>3

(* Row by row, what a commit and a rollback leave.                           *)
Ends(t, c, v, d) ==
  /\ c.by = t => d.now = v /\ d.new = v /\ d.by = None
  /\ c.by /= t => d = c

LEMMA Ended ==
  ASSUME TypeOK, NEW t \in Tx
  PROVE  /\ CommitTables(t) =>
              /\ \A k \in Claims : Ends(t, claim[k], claim[k].new, claim'[k])
              /\ \A l \in Listings : Ends(t, listing[l], listing[l].new, listing'[l])
              /\ \A l \in Listings : Ends(t, licence[l], licence[l].new, licence'[l])
         /\ RollBackTables(t) =>
              /\ \A k \in Claims : Ends(t, claim[k], claim[k].now, claim'[k])
              /\ \A l \in Listings : Ends(t, listing[l], listing[l].now, listing'[l])
              /\ \A l \in Listings : Ends(t, licence[l], licence[l].now, licence'[l])
<1>1. DOMAIN licence = Listings /\ DOMAIN listing = Listings /\ DOMAIN claim = Claims
  BY DEF TypeOK
<1>2. \A v : At(v).now = v /\ At(v).new = v /\ At(v).by = None
  BY DEF At
<1>3. ASSUME NEW table, NEW k \in DOMAIN table
      PROVE  /\ Ends(t, table[k], table[k].new, Committed(t, table)[k])
             /\ Ends(t, table[k], table[k].now, RolledBack(t, table)[k])
  <2>1. CASE table[k].by = t
    <3>1. Committed(t, table)[k] = At(table[k].new) /\ RolledBack(t, table)[k] = At(table[k].now)
      BY <1>3, <2>1 DEF Committed, RolledBack
    <3> QED
      BY <1>2, <2>1, <3>1 DEF Ends
  <2>2. CASE table[k].by /= t
    BY <1>3, <2>2 DEF Ends, Committed, RolledBack
  <2> QED
    BY <2>1, <2>2
<1> QED
  BY <1>1, <1>3 DEF CommitTables, RollBackTables

(* Types hold as the model begins.                                           *)
LEMMA InitTypes == Init => TypeOK
<1> SUFFICES ASSUME Init PROVE TypeOK
  OBVIOUS
<1>1. \A V : \A v \in V : At(v) \in Cell(V)
  BY DEF Cell, At
<1>2. licence \in [Listings -> Cell(Contents \cup {"absent"})]
  BY <1>1, FilesAssumption DEF Init
<1>3. listing \in [Listings -> Cell(Listing)]
  <2>1. Unowned \in Listing
    BY DEF Unowned, Listing
  <2> QED
    BY <1>1, <2>1 DEF Init
<1>4. claim \in [Claims -> Cell(Claim)]
  <2>1. PICK p \in [Waiting -> {l \in Listings : Register[l] /= "absent"} \X Users] :
          claim = [k \in Claims |->
                     At(IF k \in Waiting
                        THEN [listing |-> p[k][1], user |-> p[k][2], status |-> "pending"]
                        ELSE NoClaim)]
    BY DEF Init
  <2>2. NoClaim \in Claim
    BY DEF NoClaim, Claim, Status
  <2>3. \A k \in Waiting :
          [listing |-> p[k][1], user |-> p[k][2], status |-> "pending"] \in Claim
    BY DEF Claim, Status
  <2> QED
    BY <1>1, <2>1, <2>2, <2>3
<1>5. tx \in [Tx -> Step]
  BY StepTypes DEF Init
<1>6. run \in [Imports -> [file : Files \cup {Register},
                           status : {"none", "running", "succeeded", "failed"}]]
  BY DEF Init, NoRun
<1> QED
  BY <1>2, <1>3, <1>4, <1>5, <1>6 DEF Init, TypeOK

(* Moving a transaction on, or writing one row, keeps the types.             *)
LEMMA GoTypes ==
  ASSUME TypeOK, NEW t \in Tx,
         NEW pc \in {"idle", "insert", "decide", "attach", "facts", "badge", "commit", "done",
                     "batch", "row", "project", "page"},
         Go(t, pc)
  PROVE  tx' \in [Tx -> Step]
<1>1. tx \in [Tx -> Step]
  BY DEF TypeOK
<1>2. [tx[t] EXCEPT !.pc = pc] \in Step
  BY <1>1 DEF Step
<1> QED
  BY <1>1, <1>2 DEF Go

LEMMA WriteTypes ==
  ASSUME NEW K, NEW V, NEW table \in [K -> Cell(V)], NEW t \in Tx, NEW k \in K, NEW v \in V
  PROVE  [table EXCEPT ![k] = Put(t, @, v)] \in [K -> Cell(V)]
  BY CellTypes

(* What a transaction sees of a row has the type of the row.                 *)
LEMMA SeeTypes ==
  ASSUME TypeOK, NEW t \in Tx
  PROVE  /\ \A l \in Listings : See(t, licence[l]) \in Contents \cup {"absent"}
         /\ \A l \in Listings : See(t, listing[l]) \in Listing
         /\ \A k \in Claims : See(t, claim[k]) \in Claim
  BY DEF TypeOK, Cell, See

-------------------------------------------------------------------------------
(* What makes ownership inductive.                                           *)

Verdicts == {"approved", "rejected", "withdrawn"}
Deciding == {"decide", "attach", "facts", "badge", "commit"}

(* A claim that is written is held by the request that decides it, and was   *)
(* not decided before.  An approved one has its listing: for good, or in the *)
(* same transaction once attach_claimant has run.                            *)
ClaimOK(k) ==
  LET c == claim[k]
      l == c.new.listing IN
  /\ c.by = None => c.new = c.now
  /\ c.by /= None =>
       /\ c.by \in Requests /\ tx[c.by].claim = k /\ tx[c.by].pc \in Deciding
       /\ c.now.status \in {"none", "pending"}
  /\ c.new.status /= "none" => l \in Listings /\ c.new.user \in Users
  /\ c.now.status /= "none" =>
       c.new.status /= "none" /\ l = c.now.listing /\ c.new.user = c.now.user
  /\ c.new.status = "approved" /\ c.by = None => listing[l].now.owner = c.new.user
  /\ c.new.status = "approved" /\ c.by /= None =>
       /\ tx[c.by].pc /= "decide" /\ listing[l].now.owner = None
       /\ tx[c.by].pc /= "attach" => listing[l].by = c.by /\ listing[l].new.owner = c.new.user

(* An owner has an approved claim; one who is not yet visible has it from    *)
(* the transaction that holds the listing.                                   *)
ListingOK(l) ==
  LET c == listing[l] IN
  /\ c.by = None => c.new = c.now
  /\ c.now.owner /= None =>
       \E k \in Claims : claim[k].now = [listing |-> l, user |-> c.now.owner, status |-> "approved"]
  /\ c.new.owner /= c.now.owner =>
       /\ c.now.owner = None /\ c.by \in Requests
       /\ \E k \in Claims :
            /\ claim[k].by = c.by
            /\ claim[k].new = [listing |-> l, user |-> c.new.owner, status |-> "approved"]
  /\ c.new.verified => c.new.owner /= None
  /\ c.now.verified => c.now.owner /= None

(* What the transaction t may be at, given the rows.                         *)
Fits(t, x) ==
  /\ x.pc \in {"insert", "attach", "project", "facts", "badge"} => x.l \in Listings
  /\ x.pc = "badge" /\ x.badge => See(t, listing[x.l]).owner /= None
  /\ t \in Requests =>
       /\ x.pc \notin {"batch", "row", "project", "page"}
       /\ x.pc \in {"idle", "insert"} => claim[t] = At(NoClaim)
       /\ x.pc = "insert" => x.claim = t /\ x.user \in Users /\ x.verdict = "approved"
       /\ x.pc \in Deciding => x.claim \in Claims /\ x.verdict \in Verdicts
       /\ x.pc = "decide" =>
            /\ claim[x.claim].new.status /= "none"
            /\ claim[x.claim].new.listing = x.l /\ claim[x.claim].new.user = x.user
            /\ claim[x.claim].now.status /= "none" \/ claim[x.claim].by = t
       /\ x.pc = "attach" =>
            /\ claim[x.claim].by = t
            /\ claim[x.claim].new = [listing |-> x.l, user |-> x.user, status |-> "approved"]

(* The unique indexes, over rows that are not committed too.                 *)
Unique ==
  \A j, k \in Claims :
    /\ claim[j].new.status = "approved" /\ claim[k].new.status = "approved"
    /\ claim[j].new.listing = claim[k].new.listing \/ claim[j].new.user = claim[k].new.user
    => j = k

IInv ==
  /\ TypeOK
  /\ Unique
  /\ \A k \in Claims : ClaimOK(k)
  /\ \A l \in Listings : ListingOK(l)
  /\ \A t \in Tx : Fits(t, tx[t])

(* The names of NULL, requests, imports and the re-check differ.             *)
LEMMA Names ==
  /\ None \notin Users /\ None \notin Tx /\ None \notin Requests /\ None \notin Listings
  /\ \A i \in Imports : i \notin Requests
  /\ Nightly \notin Requests
  BY NamesAssumption DEF Tx

LEMMA InitInvariant == Init => IInv
<1> SUFFICES ASSUME Init PROVE IInv
  OBVIOUS
<1>1. TypeOK
  BY InitTypes
<1>2. PICK p \in [Waiting -> {l \in Listings : Register[l] /= "absent"} \X Users] :
        claim = [k \in Claims |->
                   At(IF k \in Waiting
                      THEN [listing |-> p[k][1], user |-> p[k][2], status |-> "pending"]
                      ELSE NoClaim)]
  BY DEF Init
<1>3. \A k \in Claims :
        /\ claim[k].by = None /\ claim[k].new = claim[k].now
        /\ k \in Waiting => /\ claim[k].new.listing \in Listings /\ claim[k].new.user \in Users
                            /\ claim[k].new.status = "pending"
        /\ k \notin Waiting => claim[k] = At(NoClaim) /\ claim[k].new.status = "none"
  BY <1>2 DEF At, NoClaim
<1>4. \A l \in Listings :
        listing[l].by = None /\ listing[l].new = listing[l].now
          /\ listing[l].new.owner = None /\ listing[l].new.verified = FALSE
  BY DEF Init, At, Unowned
<1>5. \A t \in Tx : tx[t].pc = "idle"
  BY DEF Init, Idle
<1>6. \A k \in Claims : ClaimOK(k)
  BY <1>3 DEF ClaimOK
<1>7. \A l \in Listings : ListingOK(l)
  BY <1>4 DEF ListingOK
<1>8. \A t \in Tx : Fits(t, tx[t])
  BY <1>3, <1>5, NamesAssumption DEF Fits, Deciding, Claims
<1>9. Unique
  BY <1>3 DEF Unique
<1> QED
  BY <1>1, <1>6, <1>7, <1>8, <1>9 DEF IInv

-------------------------------------------------------------------------------
(* The two steps of recompute keep the types.                                *)
LEMMA RecomputeTypes ==
  ASSUME TypeOK, NEW t \in Tx, Recompute(t), tx[t].pc \in {"facts", "badge"} => tx[t].l \in Listings
  PROVE  TypeOK'
<1>1. /\ listing \in [Listings -> Cell(Listing)]
      /\ tx \in [Tx -> Step]
  BY DEF TypeOK
<1>2. CASE ReadFacts(t)
  <2>1. decide(See(t, listing[tx[t].l]).owner /= None, See(t, licence[tx[t].l])) \in BOOLEAN
    BY DEF decide
  <2> DEFINE b == decide(See(t, listing[tx[t].l]).owner /= None, See(t, licence[tx[t].l]))
  <2>a. tx' = [tx EXCEPT ![t] = [@ EXCEPT !.pc = "badge", !.badge = b]]
    BY <1>2 DEF ReadFacts
  <2>b. [tx[t] EXCEPT !.pc = "badge", !.badge = b] \in Step
    <3> HIDE DEF b
    <3>1. \A x \in Step, v \in BOOLEAN : [x EXCEPT !.pc = "badge", !.badge = v] \in Step
      BY DEF Step
    <3> QED
      BY <1>1, <2>1, <3>1, Zenon DEF b
  <2>2. tx' \in [Tx -> Step]
    <3> HIDE DEF b
    <3> QED
      BY <1>1, <2>a, <2>b
  <2> QED
    BY <1>2, <2>2 DEF ReadFacts, TypeOK, tables
<1>3. CASE set_verification(t)
  <2> DEFINE pc == IF t \in Requests THEN "commit" ELSE "row"
             x == [tx[t] EXCEPT !.pc = pc, !.l = None, !.badge = FALSE]
  <2>a. tx' = [tx EXCEPT ![t] = x]
    BY <1>1, <1>3 DEF set_verification
  <2>b. x \in Step
    BY <1>1 DEF Step
  <2>1. tx' \in [Tx -> Step]
    <3> HIDE DEF x
    <3> QED
      BY <1>1, <2>a, <2>b
  <2>2. tx[t].l \in Listings /\ See(t, listing[tx[t].l]) \in Listing /\ tx[t].badge \in BOOLEAN
    BY <1>1, <1>3, SeeTypes DEF set_verification, Step
  <2>3. [See(t, listing[tx[t].l]) EXCEPT !.verified = tx[t].badge] \in Listing
    BY <2>2 DEF Listing
  <2>4. listing' \in [Listings -> Cell(Listing)]
    BY <1>1, <1>3, <2>2, <2>3, WriteTypes DEF set_verification
  <2> QED
    BY <1>3, <2>1, <2>4 DEF set_verification, TypeOK
<1> QED
  BY <1>2, <1>3 DEF Recompute

(* The facts that say where a step works are enough for the types.           *)
LEMMA TypesKept == IInv /\ [Next]_vars => TypeOK'
<1> SUFFICES ASSUME IInv, [Next]_vars PROVE TypeOK'
  OBVIOUS
<1>1. TypeOK
  BY DEF IInv
<1>2. /\ licence \in [Listings -> Cell(Contents \cup {"absent"})]
      /\ listing \in [Listings -> Cell(Listing)]
      /\ claim \in [Claims -> Cell(Claim)]
      /\ tx \in [Tx -> Step]
  BY <1>1 DEF TypeOK
<1>3. \A t \in Tx :
        tx[t].pc \in {"insert", "attach", "project", "facts", "badge"} => tx[t].l \in Listings
  BY DEF IInv, Fits
<1>4. ASSUME NEW r \in Requests, Begin(r) \/ Proceed(r) PROVE TypeOK'
  <2>1. r \in Tx /\ r \in Claims
    BY StepTypes
  <2>2. /\ tx[r].pc = "insert" => tx[r].user \in Users
        /\ tx[r].pc \in {"decide", "attach"} =>
             tx[r].claim \in Claims /\ tx[r].verdict \in Verdicts
        /\ tx[r].pc = "attach" => tx[r].user \in Users
    <3>1. Fits(r, tx[r])
      BY <2>1 DEF IInv
    <3>2. tx[r].pc = "attach" => claim[tx[r].claim].new.user \in Users /\ claim[tx[r].claim].new.user = tx[r].user
      BY <3>1 DEF IInv, ClaimOK, Fits, Deciding
    <3> QED
      BY <3>1, <3>2 DEF Fits, Deciding
  <2>3. ASSUME NEW u \in Users, NEW l \in Listings, Open(r, u, l) PROVE TypeOK'
    <3>1. [Idle EXCEPT !.pc = "insert", !.l = l, !.user = u, !.claim = r, !.verdict = "approved"] \in Step
      BY <2>1, StepTypes DEF Step, Status
    <3> QED
      BY <1>1, <1>2, <2>1, <2>3, <3>1 DEF Open, TypeOK, tables
  <2>4. ASSUME NEW k \in Claims, NEW v \in Verdicts, Review(r, k, v) PROVE TypeOK'
    <3>1. claim[k].now \in Claim
      BY <1>2 DEF Cell
    <3>2. [Idle EXCEPT !.pc = "decide", !.l = claim[k].now.listing, !.user = claim[k].now.user,
                       !.claim = k, !.verdict = v] \in Step
      BY <3>1, StepTypes DEF Step, Status, Claim, Verdicts
    <3> QED
      BY <1>1, <1>2, <2>1, <2>4, <3>2 DEF Review, TypeOK, tables
  <2>5. CASE InsertClaim(r)
    <3>1. tx' \in [Tx -> Step]
      BY <1>1, <2>1, <2>5, GoTypes DEF InsertClaim
    <3>2. [listing |-> tx[r].l, user |-> tx[r].user, status |-> "pending"] \in Claim
      BY <1>3, <2>1, <2>2, <2>5 DEF InsertClaim, Claim, Status
    <3>3. claim' \in [Claims -> Cell(Claim)]
      BY <1>2, <2>1, <2>5, <3>2, WriteTypes DEF InsertClaim
    <3> QED
      BY <1>1, <2>5, <3>1, <3>3 DEF InsertClaim, TypeOK
  <2>6. CASE DecideClaim(r)
    <3>1. AfterVerdict(tx[r].verdict) \in {"attach", "facts", "commit"}
      BY DEF AfterVerdict
    <3>2. tx' \in [Tx -> Step]
      BY <1>1, <2>1, <2>6, <3>1, GoTypes DEF DecideClaim
    <3>3. tx[r].claim \in Claims /\ See(r, claim[tx[r].claim]) \in Claim /\ tx[r].verdict \in Status
      BY <1>1, <2>1, <2>2, <2>6, SeeTypes DEF DecideClaim, Verdicts, Status
    <3>4. [See(r, claim[tx[r].claim]) EXCEPT !.status = tx[r].verdict] \in Claim
      BY <3>3 DEF Claim
    <3>5. claim' \in [Claims -> Cell(Claim)]
      BY <1>2, <2>1, <2>6, <3>3, <3>4, WriteTypes DEF DecideClaim
    <3> QED
      BY <1>1, <2>6, <3>2, <3>5 DEF DecideClaim, TypeOK
  <2>7. CASE WithdrawNothing(r)
    <3>1. tx' \in [Tx -> Step]
      BY <1>1, <2>1, <2>7, GoTypes DEF WithdrawNothing
    <3> QED
      BY <1>1, <2>7, <3>1 DEF WithdrawNothing, TypeOK, tables
  <2>8. CASE attach_claimant(r)
    <3>1. tx' \in [Tx -> Step]
      BY <1>1, <2>1, <2>8, GoTypes DEF attach_claimant
    <3>2. tx[r].l \in Listings /\ See(r, listing[tx[r].l]) \in Listing /\ tx[r].user \in Users
      BY <1>1, <1>3, <2>1, <2>2, <2>8, SeeTypes DEF attach_claimant
    <3>3. [See(r, listing[tx[r].l]) EXCEPT !.owner = tx[r].user] \in Listing
      BY <3>2 DEF Listing
    <3>4. listing' \in [Listings -> Cell(Listing)]
      BY <1>2, <2>1, <2>8, <3>2, <3>3, WriteTypes DEF attach_claimant
    <3> QED
      BY <1>1, <2>8, <3>1, <3>4 DEF attach_claimant, TypeOK
  <2>9. CASE CommitRequest(r)
    BY <1>1, <2>1, <2>9, EndTypes, StepTypes DEF CommitRequest, TypeOK
  <2>10. CASE GiveUp(r)
    BY <1>1, <2>1, <2>10, EndTypes, StepTypes DEF GiveUp, TypeOK
  <2>11. CASE Recompute(r)
    BY <1>1, <1>3, <2>1, <2>11, RecomputeTypes
  <2> QED
    BY <1>4, <2>3, <2>4, <2>5, <2>6, <2>7, <2>8, <2>9, <2>10, <2>11 DEF Begin, Proceed, Verdicts
<1>5. ASSUME NEW i \in Imports, NEW f \in Files, begin_run(i, f) PROVE TypeOK'
  <2>1. [Idle EXCEPT !.pc = "batch", !.rest = InFile(f)] \in Step
    BY StepTypes DEF Step, InFile
  <2> QED
    BY <1>1, <1>2, <1>5, <2>1, StepTypes DEF begin_run, TypeOK, tables
<1>6. ASSUME NEW i \in Imports, ImportStep(i) PROVE TypeOK'
  <2>1. i \in Tx
    BY StepTypes
  <2>2. CASE Gather(i)
    <3>1. PICK batch \in SUBSET tx[i].rest :
            tx' = [tx EXCEPT ![i].pc = "row", ![i].todo = batch, ![i].rest = @ \ batch]
      BY <2>2 DEF Gather
    <3> DEFINE x == [tx[i] EXCEPT !.pc = "row", !.todo = batch, !.rest = @ \ batch]
    <3>a. tx' = [tx EXCEPT ![i] = x]
      BY <3>1
    <3>b. x \in Step
      BY <1>2, <2>1 DEF Step
    <3>2. tx' \in [Tx -> Step]
      <4> HIDE DEF x
      <4> QED
        BY <1>2, <3>a, <3>b
    <3> QED
      BY <1>1, <2>2, <3>2 DEF Gather, TypeOK, tables
  <2>3. ASSUME NEW l \in Listings, upsert(i, l) PROVE TypeOK'
    <3>1. run[i].file[l] \in Contents \cup {"absent"}
      BY <1>1, FilesAssumption DEF TypeOK
    <3>2. CASE licence[l].now = run[i].file[l]
      <4>1. tx' \in [Tx -> Step]
        BY <1>2, <2>1, <2>3, <3>2 DEF upsert, Step
      <4> QED
        BY <1>1, <2>3, <3>2, <4>1 DEF upsert, TypeOK
    <3>3. CASE licence[l].now /= run[i].file[l]
      <4>1. tx' \in [Tx -> Step]
        BY <1>2, <2>1, <2>3, <3>3 DEF upsert, Step
      <4>a. licence' = [licence EXCEPT ![l] = Put(i, @, run[i].file[l])]
        BY <2>3, <3>3 DEF upsert
      <4>2. licence' \in [Listings -> Cell(Contents \cup {"absent"})]
        <5> DEFINE V == Contents \cup {"absent"}
        <5>1. licence \in [Listings -> Cell(V)] /\ run[i].file[l] \in V
          BY <1>2, <3>1
        <5> HIDE DEF V
        <5>2. licence' \in [Listings -> Cell(V)]
          BY <2>1, <4>a, <5>1, WriteTypes
        <5> QED
          BY <5>2 DEF V
      <4> QED
        BY <1>1, <2>3, <4>1, <4>2 DEF upsert, TypeOK
    <3> QED
      BY <3>2, <3>3
  <2>4. CASE upsert_from_license(i)
    <3>1. tx' \in [Tx -> Step]
      BY <1>1, <2>1, <2>4, GoTypes DEF upsert_from_license
    <3>2. tx[i].l \in Listings /\ See(i, listing[tx[i].l]) \in Listing
      BY <1>1, <1>3, <2>1, <2>4, SeeTypes DEF upsert_from_license
    <3>3. listing' \in [Listings -> Cell(Listing)]
      BY <1>2, <2>1, <2>4, <3>2, WriteTypes DEF upsert_from_license
    <3> QED
      BY <1>1, <2>4, <3>1, <3>3 DEF upsert_from_license, TypeOK
  <2>5. CASE Recompute(i)
    BY <1>1, <1>3, <2>1, <2>5, RecomputeTypes
  <2>6. CASE CommitBatch(i)
    BY <1>1, <2>1, <2>6, EndTypes, GoTypes DEF CommitBatch, TypeOK
  <2>7. CASE finish_run(i)
    <3>1. tx' \in [Tx -> Step]
      BY <1>2, <2>1, <2>7, StepTypes DEF finish_run
    <3> QED
      BY <1>1, <2>7, <3>1 DEF finish_run, TypeOK, tables
  <2>8. ASSUME NEW status \in {"running", "failed"}, ImportStops(i, status) PROVE TypeOK'
    <3>1. tx' \in [Tx -> Step]
      BY <1>2, <2>1, <2>8, StepTypes DEF ImportStops
    <3> QED
      BY <1>1, <2>1, <2>8, <3>1, EndTypes DEF ImportStops, TypeOK
  <2> QED
    BY <1>6, <2>2, <2>3, <2>4, <2>5, <2>6, <2>7, <2>8 DEF ImportStep
<1>7. CASE NightStep \/ PassFails
  <2>1. Nightly \in Tx
    BY StepTypes
  <2>2. CASE StartPass
    <3>1. [Idle EXCEPT !.pc = "page"] \in Step
      BY StepTypes DEF Step
    <3> QED
      BY <1>1, <1>2, <2>1, <2>2, <3>1 DEF StartPass, TypeOK, tables
  <2>3. CASE NextPage
    <3>1. ASSUME NEW last \in Beyond,
                 tx' = [tx EXCEPT ![Nightly].pc = "row",
                                  ![Nightly].todo = {l \in Beyond : l <= last},
                                  ![Nightly].after = last]
          PROVE  tx' \in [Tx -> Step]
      <4>1. last \in Nat /\ {l \in Beyond : l <= last} \in SUBSET Listings
        BY ListingsAssumption DEF Beyond
      <4> DEFINE x == [tx[Nightly] EXCEPT !.pc = "row", !.todo = {l \in Beyond : l <= last}, !.after = last]
      <4>2. tx' = [tx EXCEPT ![Nightly] = x]
        BY <3>1
      <4>3. x \in Step
        BY <1>2, <2>1, <4>1 DEF Step
      <4> HIDE DEF x
      <4> QED
        BY <1>2, <4>2, <4>3
    <3>2. tx' \in [Tx -> Step]
      BY <1>2, <2>1, <2>3, <3>1, StepTypes DEF NextPage
    <3> QED
      BY <1>1, <2>3, <3>2 DEF NextPage, TypeOK, tables
  <2>4. CASE NextRow
    <3>1. tx' \in [Tx -> Step]
      BY <1>2, <2>1, <2>4 DEF NextRow, Step
    <3> QED
      BY <1>1, <2>4, <3>1 DEF NextRow, TypeOK, tables
  <2>5. CASE Recompute(Nightly)
    BY <1>1, <1>3, <2>1, <2>5, RecomputeTypes
  <2>6. CASE CommitPage
    BY <1>1, <2>1, <2>6, EndTypes, GoTypes DEF CommitPage, TypeOK
  <2>7. CASE PassFails
    <3>1. tx' \in [Tx -> Step]
      BY <1>2, <2>1, <2>7, StepTypes DEF PassFails
    <3>2. failures' \in Nat
      BY <1>1, <2>7 DEF PassFails, TypeOK
    <3> QED
      BY <1>1, <2>1, <2>7, <3>1, <3>2, EndTypes DEF PassFails, TypeOK
  <2> QED
    BY <1>7, <2>2, <2>3, <2>4, <2>5, <2>6, <2>7 DEF NightStep
<1>8. CASE DatePasses
  BY <1>1, <1>8 DEF DatePasses, TypeOK, tables
<1>9. CASE UNCHANGED vars
  BY <1>1, <1>9 DEF vars, tables, TypeOK
<1> QED
  BY <1>4, <1>5, <1>6, <1>7, <1>8, <1>9 DEF Next

-------------------------------------------------------------------------------
(* A step that writes no claim and no listing: the transaction goes on with  *)
(* the claim it decides, and leaves neither "attach" nor into "decide".      *)
LEMMA TxStep ==
  ASSUME IInv, NEW t \in Tx, NEW x, tx' = [tx EXCEPT ![t] = x],
         UNCHANGED <<listing, claim>>, Fits(t, x),
         t \in Requests /\ tx[t].pc \in Deciding =>
           /\ x.claim = tx[t].claim /\ x.pc \in Deciding
           /\ x.pc /= "decide" /\ tx[t].pc /= "attach"
  PROVE  /\ Unique'
         /\ \A k \in Claims : ClaimOK(k)'
         /\ \A l \in Listings : ListingOK(l)'
         /\ \A s \in Tx : Fits(s, tx[s])'
<1>1. \A s \in Tx : tx'[s] = IF s = t THEN x ELSE tx[s]
  BY DEF IInv, TypeOK
<1>2. Unique'
  BY DEF IInv, Unique
<1>3. \A k \in Claims : ClaimOK(k)'
  <2> SUFFICES ASSUME NEW k \in Claims PROVE ClaimOK(k)'
    OBVIOUS
  <2>1. ClaimOK(k)
    BY DEF IInv
  <2>2. claim[k].by \in Requests => claim[k].by \in Tx
    BY StepTypes
  <2>3. CASE claim[k].by = t
    BY <1>1, <2>1, <2>3, Names DEF ClaimOK, Deciding
  <2>4. CASE claim[k].by /= t
    BY <1>1, <2>1, <2>2, <2>4 DEF ClaimOK
  <2> QED
    BY <2>3, <2>4
<1>4. \A l \in Listings : ListingOK(l)'
  BY DEF IInv, ListingOK
<1>5. \A s \in Tx : Fits(s, tx[s])'
  <2> SUFFICES ASSUME NEW s \in Tx PROVE Fits(s, tx[s])'
    OBVIOUS
  <2>1. Fits(s, tx'[s])
    BY <1>1 DEF IInv
  <2> QED
    BY <2>1 DEF Fits, See
<1> QED
  BY <1>2, <1>3, <1>4, <1>5

(* A commit: the claim and the listing that a request holds become visible   *)
(* together, and no other transaction holds anything that depends on them.   *)
LEMMA CommitStep ==
  ASSUME IInv, NEW t \in Tx, NEW x, tx' = [tx EXCEPT ![t] = x], CommitTables(t),
         t \in Requests => tx[t].pc = "commit" /\ x.pc = "done",
         x.pc \in {"done", "batch", "page"}
  PROVE  /\ Unique'
         /\ \A k \in Claims : ClaimOK(k)'
         /\ \A l \in Listings : ListingOK(l)'
         /\ \A s \in Tx : Fits(s, tx[s])'
<1>1. \A s \in Tx : tx'[s] = IF s = t THEN x ELSE tx[s]
  BY DEF IInv, TypeOK
<1>2. \A k \in Claims : Ends(t, claim[k], claim[k].new, claim'[k])
  BY Ended DEF IInv
<1>3. \A l \in Listings : Ends(t, listing[l], listing[l].new, listing'[l])
  BY Ended DEF IInv
<1>4. \A k \in Claims : claim'[k].new = claim[k].new
  BY <1>2 DEF Ends
<1>5. Unique'
  BY <1>4 DEF IInv, Unique
<1>6. \A l \in Listings :
        \/ listing'[l].now.owner = listing[l].now.owner
        \/ /\ listing[l].by = t /\ t \in Requests /\ listing[l].now.owner = None
           /\ listing'[l].now = listing[l].new
           /\ \E k \in Claims :
                /\ claim[k].by = t
                /\ claim[k].new = [listing |-> l, user |-> listing[l].new.owner, status |-> "approved"]
  <2> SUFFICES ASSUME NEW l \in Listings, listing'[l].now.owner /= listing[l].now.owner
               PROVE  /\ listing[l].by = t /\ t \in Requests /\ listing[l].now.owner = None
                      /\ listing'[l].now = listing[l].new
                      /\ \E k \in Claims :
                           /\ claim[k].by = t
                           /\ claim[k].new =
                                [listing |-> l, user |-> listing[l].new.owner, status |-> "approved"]
    OBVIOUS
  <2>1. Ends(t, listing[l], listing[l].new, listing'[l])
    BY <1>3
  <2>2. listing[l].by = t /\ listing'[l].now = listing[l].new
    BY <2>1 DEF Ends
  <2>3. listing[l].new.owner /= listing[l].now.owner
    BY <2>2
  <2>4. ListingOK(l)
    BY DEF IInv
  <2>5. /\ listing[l].now.owner = None /\ t \in Requests
        /\ \E k \in Claims :
             /\ claim[k].by = t
             /\ claim[k].new = [listing |-> l, user |-> listing[l].new.owner, status |-> "approved"]
    BY <2>2, <2>3, <2>4 DEF ListingOK
  <2> QED
    BY <2>2, <2>5
<1>7. \A k \in Claims : ClaimOK(k)'
  <2> SUFFICES ASSUME NEW k \in Claims PROVE ClaimOK(k)'
    OBVIOUS
  <2>1. ClaimOK(k) /\ (claim[k].by \in Requests => claim[k].by \in Tx)
    BY StepTypes DEF IInv
  <2>2. CASE claim[k].by = t
    <3>1. claim'[k].by = None /\ claim'[k].now = claim[k].new /\ claim'[k].new = claim[k].new
      BY <1>2, <2>2 DEF Ends
    <3>2. claim[k].new.status = "approved" =>
            claim[k].new.listing \in Listings /\ listing'[claim[k].new.listing].now.owner = claim[k].new.user
      BY <1>3, <2>1, <2>2, Names DEF ClaimOK, Ends
    <3> QED
      BY <2>1, <3>1, <3>2 DEF ClaimOK
  <2>3. CASE claim[k].by /= t
    <3>1. claim'[k] = claim[k]
      BY <1>2, <2>3 DEF Ends
    <3>2. claim[k].new.status = "approved" =>
            LET l == claim[k].new.listing IN
            /\ l \in Listings
            /\ listing'[l].now.owner = listing[l].now.owner
            /\ listing[l].by /= t => listing'[l] = listing[l]
      <4> SUFFICES ASSUME claim[k].new.status = "approved",
                          listing'[claim[k].new.listing].now.owner /= listing[claim[k].new.listing].now.owner
                   PROVE  FALSE
        BY <1>3, <2>1 DEF ClaimOK, Ends
      <4>1. claim[k].new.listing \in Listings
        BY <2>1 DEF ClaimOK
      <4>2. PICK l \in Listings :
              l = claim[k].new.listing /\ listing'[l].now.owner /= listing[l].now.owner
        BY <4>1
      <4>3. PICK j \in Claims :
              /\ claim[j].by = t
              /\ claim[j].new = [listing |-> l, user |-> listing[l].new.owner, status |-> "approved"]
        BY <1>6, <4>2
      <4>4. claim[j].new.status = "approved" /\ claim[j].new.listing = claim[k].new.listing
        BY <4>2, <4>3
      <4> QED
        BY <2>3, <4>3, <4>4 DEF IInv, Unique
    <3>3. CASE claim[k].by = None
      BY <2>1, <3>1, <3>2, <3>3 DEF ClaimOK
    <3>4. CASE claim[k].by /= None
      <4>1. claim[k].by \in Tx /\ tx'[claim[k].by] = tx[claim[k].by]
        BY <1>1, <2>1, <2>3, <3>4 DEF ClaimOK
      <4> QED
        BY <2>1, <2>3, <3>1, <3>2, <3>4, <4>1 DEF ClaimOK
    <3> QED
      BY <3>3, <3>4
  <2> QED
    BY <2>2, <2>3
<1>8. \A l \in Listings : ListingOK(l)'
  <2> SUFFICES ASSUME NEW l \in Listings PROVE ListingOK(l)'
    OBVIOUS
  <2>1. ListingOK(l)
    BY DEF IInv
  <2>2. \A k \in Claims : claim[k].now.status = "approved" => claim'[k].now = claim[k].now
    <3> SUFFICES ASSUME NEW k \in Claims, claim[k].now.status = "approved" PROVE claim'[k].now = claim[k].now
      OBVIOUS
    <3>1. claim[k].by = None
      BY DEF IInv, ClaimOK
    <3> QED
      BY <1>2, <3>1, Names DEF Ends
  <2>3. \A u : [listing |-> l, user |-> u, status |-> "approved"].status = "approved"
    OBVIOUS
  <2>4. CASE listing[l].by = t
    <3>1. listing'[l].by = None /\ listing'[l].now = listing[l].new /\ listing'[l].new = listing[l].new
      BY <1>3, <2>4 DEF Ends
    <3>2. CASE listing[l].new.owner = listing[l].now.owner
      BY <2>1, <2>2, <2>3, <3>1, <3>2 DEF ListingOK
    <3>3. CASE listing[l].new.owner /= listing[l].now.owner
      <4>1. PICK k \in Claims :
              /\ claim[k].by = t
              /\ claim[k].new = [listing |-> l, user |-> listing[l].new.owner, status |-> "approved"]
        BY <2>1, <2>4, <3>3 DEF ListingOK
      <4>2. claim'[k].now = [listing |-> l, user |-> listing'[l].now.owner, status |-> "approved"]
        BY <1>2, <3>1, <4>1 DEF Ends
      <4> QED
        BY <2>1, <3>1, <4>2 DEF ListingOK
    <3> QED
      BY <3>2, <3>3
  <2>5. CASE listing[l].by /= t
    <3>1. listing'[l] = listing[l]
      BY <1>3, <2>5 DEF Ends
    <3>2. \A k \in Claims : claim[k].by = listing[l].by => claim'[k] = claim[k]
      BY <1>2, <2>5 DEF Ends
    <3> QED
      BY <2>1, <2>2, <2>3, <3>1, <3>2 DEF ListingOK
  <2> QED
    BY <2>4, <2>5
<1>9. \A s \in Tx : Fits(s, tx[s])'
  <2> SUFFICES ASSUME NEW s \in Tx PROVE Fits(s, tx[s])'
    OBVIOUS
  <2>1. CASE s = t
    BY <1>1, <2>1 DEF Fits, Deciding
  <2>2. CASE s /= t
    <3>1. tx'[s] = tx[s] /\ Fits(s, tx[s])
      BY <1>1, <2>2 DEF IInv
    <3>2. tx[s].l \in Listings /\ See(s, listing[tx[s].l]).owner /= None =>
            See(s, listing'[tx[s].l]).owner /= None
      BY <1>3, <1>6, <2>2, Names DEF See, Ends
    <3>3. \A k \in Claims : claim[k].by \in {s, None} => claim'[k] = claim[k]
      BY <1>2, <2>2, Names DEF Ends
    <3>4. s \in Requests => s \in Claims
      BY StepTypes
    <3>5. \A k \in Claims : claim[k].now.status /= "none" => claim'[k].now.status /= "none"
      BY <1>2 DEF IInv, ClaimOK, Ends
    <3>6. claim[s] = At(NoClaim) => claim[s].by = None
      BY DEF At
    <3>7. tx[s].pc \in {"insert", "attach", "project", "facts", "badge"} => tx[s].l \in Listings
      BY <3>1 DEF Fits
    <3>8. tx[s].pc = "badge" /\ tx[s].badge => See(s, listing'[tx[s].l]).owner /= None
      BY <3>1, <3>2, <3>7 DEF Fits
    <3>9. s \in Requests /\ tx[s].pc = "decide" =>
            /\ claim'[tx[s].claim].new = claim[tx[s].claim].new
            /\ claim'[tx[s].claim].now.status /= "none" \/ claim'[tx[s].claim].by = s
      BY <1>4, <3>1, <3>3, <3>5 DEF Fits, Deciding
    <3>10. s \in Requests /\ tx[s].pc = "attach" => claim'[tx[s].claim] = claim[tx[s].claim]
      BY <3>1, <3>3 DEF Fits, Deciding
    <3>11. See(s, listing[tx[s].l])' = See(s, listing'[tx[s].l])
      BY <3>1 DEF See
    <3> QED
      BY <3>1, <3>3, <3>4, <3>6, <3>8, <3>9, <3>10, <3>11 DEF Fits
  <2> QED
    BY <2>1, <2>2
<1> QED
  BY <1>5, <1>7, <1>8, <1>9

(* A rollback: what is visible stays, and nothing that was written is left.  *)
LEMMA RollBackStep ==
  ASSUME IInv, NEW t \in Tx, NEW x, tx' = [tx EXCEPT ![t] = x], RollBackTables(t),
         x.pc \in {"done", "idle"}, t \in Requests => x.pc = "done"
  PROVE  /\ Unique'
         /\ \A k \in Claims : ClaimOK(k)'
         /\ \A l \in Listings : ListingOK(l)'
         /\ \A s \in Tx : Fits(s, tx[s])'
<1>1. \A s \in Tx : tx'[s] = IF s = t THEN x ELSE tx[s]
  BY DEF IInv, TypeOK
<1>2. \A k \in Claims : Ends(t, claim[k], claim[k].now, claim'[k])
  BY Ended DEF IInv
<1>3. \A l \in Listings : Ends(t, listing[l], listing[l].now, listing'[l])
  BY Ended DEF IInv
<1>4. /\ \A k \in Claims : claim'[k].now = claim[k].now
      /\ \A l \in Listings : listing'[l].now = listing[l].now
  BY <1>2, <1>3 DEF Ends
<1>5. \A k \in Claims :
        \/ claim'[k] = claim[k]
        \/ /\ claim[k].by = t /\ claim'[k].by = None /\ claim'[k].new = claim[k].now
           /\ claim'[k].new.status \in {"none", "pending"}
  BY <1>2, Names DEF Ends, IInv, ClaimOK
<1>6. Unique'
  BY <1>5 DEF IInv, Unique
<1>7. \A k \in Claims : ClaimOK(k)'
  <2> SUFFICES ASSUME NEW k \in Claims PROVE ClaimOK(k)'
    OBVIOUS
  <2>1. ClaimOK(k) /\ (claim[k].by \in Requests => claim[k].by \in Tx)
    BY StepTypes DEF IInv
  <2>2. CASE claim[k].by = t
    BY <1>2, <1>4, <2>1, <2>2, Names DEF ClaimOK, Ends
  <2>3. CASE claim[k].by /= t
    <3>1. claim'[k] = claim[k]
      BY <1>2, <2>3 DEF Ends
    <3>2. claim[k].by /= None => claim[k].by \in Tx /\ tx'[claim[k].by] = tx[claim[k].by]
      BY <1>1, <2>1, <2>3 DEF ClaimOK
    <3>3. \A l \in Listings : listing[l].by = claim[k].by => listing'[l] = listing[l]
      BY <1>3, <2>3 DEF Ends
    <3> QED
      BY <1>4, <2>1, <3>1, <3>2, <3>3 DEF ClaimOK
  <2> QED
    BY <2>2, <2>3
<1>8. \A l \in Listings : ListingOK(l)'
  <2> SUFFICES ASSUME NEW l \in Listings PROVE ListingOK(l)'
    OBVIOUS
  <2>1. ListingOK(l)
    BY DEF IInv
  <2>2. CASE listing[l].by = t
    BY <1>3, <1>4, <2>1, <2>2 DEF ListingOK, Ends
  <2>3. CASE listing[l].by /= t
    <3>1. listing'[l] = listing[l]
      BY <1>3, <2>3 DEF Ends
    <3>2. \A k \in Claims : claim[k].by = listing[l].by => claim'[k] = claim[k]
      BY <1>2, <2>3 DEF Ends
    <3> QED
      BY <1>4, <2>1, <3>1, <3>2 DEF ListingOK
  <2> QED
    BY <2>2, <2>3
<1>9. \A s \in Tx : Fits(s, tx[s])'
  <2> SUFFICES ASSUME NEW s \in Tx PROVE Fits(s, tx[s])'
    OBVIOUS
  <2>1. CASE s = t
    BY <1>1, <2>1 DEF Fits, Deciding
  <2>2. CASE s /= t
    <3>1. tx'[s] = tx[s] /\ Fits(s, tx[s])
      BY <1>1, <2>2 DEF IInv
    <3>2. \A l \in Listings : See(s, listing'[l]) = See(s, listing[l])
      BY <1>3, <2>2, Names DEF See, Ends
    <3>3. \A k \in Claims : claim[k].by \in {s, None} => claim'[k] = claim[k]
      BY <1>2, <2>2, Names DEF Ends
    <3>4. claim[s] = At(NoClaim) => claim[s].by = None
      BY DEF At
    <3>5. s \in Requests => s \in Claims
      BY StepTypes
    <3>6. See(s, listing[tx[s].l])' = See(s, listing'[tx[s].l])
      BY <3>1 DEF See
    <3>7. tx[s].pc = "badge" /\ tx[s].badge => See(s, listing'[tx[s].l]).owner /= None
      BY <3>1, <3>2 DEF Fits
    <3>8. s \in Requests /\ tx[s].pc = "decide" =>
            /\ claim'[tx[s].claim].new.status /= "none"
            /\ claim'[tx[s].claim].new.listing = tx[s].l /\ claim'[tx[s].claim].new.user = tx[s].user
            /\ claim'[tx[s].claim].now.status /= "none" \/ claim'[tx[s].claim].by = s
      <4> SUFFICES ASSUME s \in Requests, tx[s].pc = "decide", NEW k \in Claims, k = tx[s].claim
                   PROVE  /\ claim'[k].new.status /= "none"
                          /\ claim'[k].new.listing = tx[s].l /\ claim'[k].new.user = tx[s].user
                          /\ claim'[k].now.status /= "none" \/ claim'[k].by = s
        BY <3>1 DEF Fits, Deciding
      <4>1. /\ claim[k].new.status /= "none"
            /\ claim[k].new.listing = tx[s].l /\ claim[k].new.user = tx[s].user
            /\ claim[k].now.status /= "none" \/ claim[k].by = s
        BY <3>1 DEF Fits
      <4>2. CASE claim'[k] = claim[k]
        BY <4>1, <4>2
      <4>3. CASE claim'[k] /= claim[k]
        <5>1. claim[k].by = t /\ claim'[k].new = claim[k].now /\ claim'[k].now = claim[k].now
          BY <1>4, <1>5, <4>3
        <5>2. claim[k].now.status /= "none" /\ ClaimOK(k)
          BY <2>2, <4>1, <5>1 DEF IInv
        <5> QED
          BY <4>1, <5>1, <5>2 DEF ClaimOK
      <4> QED
        BY <4>2, <4>3
    <3>9. s \in Requests /\ tx[s].pc = "attach" => claim'[tx[s].claim] = claim[tx[s].claim]
      BY <3>1, <3>3 DEF Fits, Deciding
    <3> QED
      BY <3>1, <3>3, <3>4, <3>5, <3>6, <3>7, <3>8, <3>9 DEF Fits
  <2> QED
    BY <2>1, <2>2
<1> QED
  BY <1>6, <1>7, <1>8, <1>9

(* A step that writes the listing l, its owner apart: recompute and the      *)
(* import.                                                                   *)
LEMMA BadgeStep ==
  ASSUME IInv, NEW t \in Tx, NEW x, tx' = [tx EXCEPT ![t] = x], UNCHANGED claim,
         NEW l \in Listings, Free(t, listing[l]),
         NEW v, v.owner = See(t, listing[l]).owner, v.verified => v.owner /= None,
         listing' = [listing EXCEPT ![l] = Put(t, @, v)],
         Fits(t, x), x.pc \in {"commit", "row", "facts"},
         t \in Requests => tx[t].pc = "badge" /\ x.pc = "commit" /\ x.claim = tx[t].claim
  PROVE  /\ Unique'
         /\ \A k \in Claims : ClaimOK(k)'
         /\ \A m \in Listings : ListingOK(m)'
         /\ \A s \in Tx : Fits(s, tx[s])'
<1>1. \A s \in Tx : tx'[s] = IF s = t THEN x ELSE tx[s]
  BY DEF IInv, TypeOK
<1>2. /\ listing'[l].now = listing[l].now /\ listing'[l].new = v /\ listing'[l].by = t
      /\ \A m \in Listings \ {l} : listing'[m] = listing[m]
  BY DEF IInv, TypeOK, Put
<1>3. v.owner = listing[l].new.owner /\ listing[l].by \in {t, None}
  BY DEF IInv, ListingOK, Free, See
<1>4. Unique'
  BY DEF IInv, Unique
<1>5. \A k \in Claims : ClaimOK(k)'
  <2> SUFFICES ASSUME NEW k \in Claims PROVE ClaimOK(k)'
    OBVIOUS
  <2>1. ClaimOK(k) /\ (claim[k].by \in Requests => claim[k].by \in Tx)
    BY StepTypes DEF IInv
  <2>2. claim[k].by /= None =>
          /\ claim[k].by \in Tx /\ tx'[claim[k].by].claim = tx[claim[k].by].claim
          /\ tx'[claim[k].by].pc \in Deciding
          /\ tx'[claim[k].by].pc \in {"attach", "decide"} => tx'[claim[k].by] = tx[claim[k].by]
          /\ tx[claim[k].by].pc = "attach" => tx'[claim[k].by] = tx[claim[k].by]
    BY <1>1, <2>1 DEF ClaimOK, Deciding
  <2>3. \A m \in Listings :
          /\ listing'[m].now = listing[m].now /\ listing'[m].new.owner = listing[m].new.owner
          /\ listing[m].by /= None => listing'[m].by = listing[m].by
    BY <1>2, <1>3
  <2> QED
    BY <2>1, <2>2, <2>3 DEF ClaimOK
<1>6. \A m \in Listings : ListingOK(m)'
  <2> SUFFICES ASSUME NEW m \in Listings PROVE ListingOK(m)'
    OBVIOUS
  <2>1. ListingOK(m)
    BY DEF IInv
  <2>2. CASE m = l
    BY <1>2, <1>3, <2>1, <2>2, Names DEF ListingOK
  <2>3. CASE m /= l
    BY <1>2, <2>1, <2>3 DEF ListingOK
  <2> QED
    BY <2>2, <2>3
<1>7. \A s \in Tx : Fits(s, tx[s])'
  <2> SUFFICES ASSUME NEW s \in Tx PROVE Fits(s, tx[s])'
    OBVIOUS
  <2>1. CASE s = t
    BY <1>1, <2>1 DEF Fits
  <2>2. CASE s /= t
    <3>1. tx'[s] = tx[s] /\ Fits(s, tx[s])
      BY <1>1, <2>2 DEF IInv
    <3>2. \A m \in Listings : See(s, listing'[m]) = See(s, listing[m])
      BY <1>2, <1>3, <2>2, Names DEF See
    <3>3. tx[s].pc = "badge" /\ tx[s].badge => See(s, listing'[tx[s].l]).owner /= None
      BY <3>1, <3>2 DEF Fits
    <3>4. See(s, listing[tx[s].l])' = See(s, listing'[tx[s].l])
      BY <3>1 DEF See
    <3> QED
      BY <3>1, <3>3, <3>4 DEF Fits
  <2> QED
    BY <2>1, <2>2
<1> QED
  BY <1>4, <1>5, <1>6, <1>7

(* A step of a request that writes the claim k, free or its own, and leaves  *)
(* it pending or decided: the claim was not decided before, and is approved  *)
(* only where no rival is.                                                   *)
LEMMA ClaimStep ==
  ASSUME IInv, NEW r \in Requests, NEW x, tx' = [tx EXCEPT ![r] = x], UNCHANGED listing,
         NEW k \in Claims, claim[k].by \in {r, None}, NEW v,
         claim' = [claim EXCEPT ![k] = Put(r, @, v)],
         v.status /= "none", v.listing \in Listings, v.user \in Users,
         claim[k].new.status \in {"none", "pending"},
         claim[k].new.status = "none" => k = r /\ tx[r].pc = "insert",
         claim[k].new.status /= "none" => v.listing = claim[k].new.listing /\ v.user = claim[k].new.user,
         v.status = "approved" =>
           /\ x.pc = "attach"
           /\ \A j \in Claims \ {k} :
                claim[j].new.status = "approved" =>
                  claim[j].new.listing /= v.listing /\ claim[j].new.user /= v.user,
         Fits(r, x)', x.claim = k, x.pc \in Deciding, tx[r].pc \in {"insert", "decide"},
         tx[r].pc = "decide" => tx[r].claim = k
  PROVE  /\ Unique'
         /\ \A j \in Claims : ClaimOK(j)'
         /\ \A l \in Listings : ListingOK(l)'
         /\ \A s \in Tx : Fits(s, tx[s])'
<1>0. r \in Tx /\ r \in Claims
  BY StepTypes
<1>1. \A s \in Tx : tx'[s] = IF s = r THEN x ELSE tx[s]
  BY DEF IInv, TypeOK
<1>2. /\ claim'[k].now = claim[k].now /\ claim'[k].new = v /\ claim'[k].by = r
      /\ \A j \in Claims \ {k} : claim'[j] = claim[j]
  BY DEF IInv, TypeOK, Put
<1>3. ClaimOK(k) /\ claim[k].now.status \in {"none", "pending"}
  BY DEF IInv, ClaimOK
<1>4. \A j \in Claims \ {k} : claim[j].by /= r
  <2> SUFFICES ASSUME NEW j \in Claims \ {k}, claim[j].by = r PROVE FALSE
    OBVIOUS
  <2>1. tx[r].claim = j /\ tx[r].pc \in Deciding
    BY Names DEF IInv, ClaimOK
  <2> QED
    BY <2>1 DEF Deciding
<1>5. Unique'
  BY <1>2 DEF IInv, Unique
<1>6. \A j \in Claims : ClaimOK(j)'
  <2> SUFFICES ASSUME NEW j \in Claims PROVE ClaimOK(j)'
    OBVIOUS
  <2>1. ClaimOK(j) /\ (claim[j].by \in Requests => claim[j].by \in Tx)
    BY StepTypes DEF IInv
  <2>2. CASE j = k
    <3>1. tx'[r] = x
      BY <1>0, <1>1
    <3>2. v.status = "approved" => listing[v.listing].now.owner = None
      <4> SUFFICES ASSUME v.status = "approved", NEW l \in Listings, l = v.listing,
                          listing[l].now.owner /= None
                   PROVE  FALSE
        OBVIOUS
      <4>1. PICK i \in Claims :
              claim[i].now = [listing |-> l, user |-> listing[l].now.owner, status |-> "approved"]
        BY DEF IInv, ListingOK
      <4>2. claim[i].now.status = "approved" /\ claim[i].now.listing = l
        BY <4>1
      <4>3. claim[i].new = claim[i].now
        BY <4>2 DEF IInv, ClaimOK
      <4> QED
        BY <1>3, <4>2, <4>3
    <3>3. claim[k].now.status /= "none" => v.listing = claim[k].now.listing /\ v.user = claim[k].now.user
      BY <1>3 DEF ClaimOK
    <3> QED
      BY <1>0, <1>2, <1>3, <2>2, <3>1, <3>2, <3>3, Names DEF ClaimOK
  <2>3. CASE j /= k
    <3>1. claim'[j] = claim[j]
      BY <1>2, <2>3
    <3>2. claim[j].by /= None => claim[j].by \in Tx /\ tx'[claim[j].by] = tx[claim[j].by]
      BY <1>1, <1>4, <2>1, <2>3 DEF ClaimOK
    <3> QED
      BY <2>1, <3>1, <3>2 DEF ClaimOK
  <2> QED
    BY <2>2, <2>3
<1>7. \A l \in Listings : ListingOK(l)'
  <2> SUFFICES ASSUME NEW l \in Listings PROVE ListingOK(l)'
    OBVIOUS
  <2>1. ListingOK(l)
    BY DEF IInv
  <2>2. \A j \in Claims : claim'[j].now = claim[j].now
    BY <1>2
  <2>3. \A j \in Claims : claim[j].new.status = "approved" => claim'[j] = claim[j]
    BY <1>2
  <2>4. \A u : [listing |-> l, user |-> u, status |-> "approved"].status = "approved"
    OBVIOUS
  <2> QED
    BY <2>1, <2>2, <2>3, <2>4 DEF ListingOK
<1>8. \A s \in Tx : Fits(s, tx[s])'
  <2> SUFFICES ASSUME NEW s \in Tx PROVE Fits(s, tx[s])'
    OBVIOUS
  <2>1. CASE s = r
    BY <1>0, <1>1, <2>1 DEF Fits
  <2>2. CASE s /= r
    <3>1. tx'[s] = tx[s] /\ Fits(s, tx[s])
      BY <1>1, <2>2 DEF IInv
    <3>2. See(s, listing[tx[s].l])' = See(s, listing[tx[s].l])
      BY <3>1 DEF See
    <3>3. s \in Requests /\ tx[s].pc \in {"idle", "insert"} => claim'[s] = claim[s]
      <4> SUFFICES ASSUME s \in Requests, tx[s].pc \in {"idle", "insert"}, s = k PROVE FALSE
        BY <1>2, StepTypes
      <4>1. claim[s] = At(NoClaim) /\ claim[s].new.status = "none"
        BY <3>1 DEF Fits, At, NoClaim
      <4> QED
        BY <2>2, <4>1
    <3>4. s \in Requests /\ tx[s].pc \in {"decide", "attach"} =>
            /\ tx[s].claim \in Claims
            /\ tx[s].claim = k => /\ tx[s].pc = "decide" /\ claim[k].new.status /= "none"
                                  /\ claim[k].now.status /= "none"
      BY <2>2, <3>1, Names DEF Fits, Deciding
    <3> QED
      BY <1>2, <3>1, <3>2, <3>3, <3>4 DEF Fits
  <2> QED
    BY <2>1, <2>2
<1> QED
  BY <1>5, <1>6, <1>7, <1>8

(* attach_claimant: the account becomes the owner in the transaction that    *)
(* holds its approved claim.                                                 *)
LEMMA AttachStep ==
  ASSUME IInv, NEW r \in Requests, attach_claimant(r)
  PROVE  /\ Unique'
         /\ \A j \in Claims : ClaimOK(j)'
         /\ \A m \in Listings : ListingOK(m)'
         /\ \A s \in Tx : Fits(s, tx[s])'
<1> DEFINE l == tx[r].l
           k == tx[r].claim
           v == [See(r, listing[l]) EXCEPT !.owner = tx[r].user]
<1>0. r \in Tx /\ tx[r].pc = "attach" /\ Fits(r, tx[r])
  BY StepTypes DEF attach_claimant, IInv
<1>1. /\ l \in Listings /\ k \in Claims /\ claim[k].by = r
      /\ claim[k].new = [listing |-> l, user |-> tx[r].user, status |-> "approved"]
      /\ tx[r].verdict \in Verdicts
  BY <1>0 DEF Fits, Deciding
<1>2. tx' = [tx EXCEPT ![r].pc = "facts"] /\ UNCHANGED claim
  BY DEF attach_claimant, Go
<1>3. \A s \in Tx : s /= r => tx'[s] = tx[s]
  BY <1>2 DEF IInv, TypeOK
<1>4. tx'[r].pc = "facts" /\ tx'[r].l = l /\ tx'[r].claim = k /\ tx'[r].verdict = tx[r].verdict
  BY <1>0, <1>2 DEF IInv, TypeOK, Step
<1>5. v.owner = tx[r].user /\ tx[r].user \in Users
  <2>1. See(r, listing[l]) \in Listing
    BY <1>0, <1>1, SeeTypes DEF IInv
  <2>2. claim[k].new.user \in Users
    BY <1>1 DEF IInv, ClaimOK
  <2> QED
    BY <1>1, <2>1, <2>2 DEF Listing
<1>6. /\ listing' = [listing EXCEPT ![l] = Put(r, @, v)]
      /\ listing[l].by \in {r, None} /\ listing[l].now.owner = None
  BY DEF attach_claimant, Free
<1> HIDE DEF l, k, v
<1>7. /\ listing'[l].now = listing[l].now /\ listing'[l].new = v /\ listing'[l].by = r
      /\ \A m \in Listings \ {l} : listing'[m] = listing[m]
  BY <1>1, <1>6 DEF IInv, TypeOK, Put
<1>8. Unique'
  BY <1>2 DEF IInv, Unique
<1>9. \A j \in Claims : ClaimOK(j)'
  <2> SUFFICES ASSUME NEW j \in Claims PROVE ClaimOK(j)'
    OBVIOUS
  <2>1. ClaimOK(j) /\ (claim[j].by \in Requests => claim[j].by \in Tx)
    BY StepTypes DEF IInv
  <2>2. CASE j = k
    <3>1. ~ (claim[j].by = None) /\ claim[j].by = r /\ claim[j].new.listing = l /\ claim[j].new.user = tx[r].user
      BY <1>1, <2>2, Names
    <3> QED
      BY <1>2, <1>4, <1>5, <1>6, <1>7, <2>1, <2>2, <3>1 DEF ClaimOK, Deciding
  <2>3. CASE j /= k
    <3>1. claim[j].by /= r
      BY <2>1, <2>3, Names DEF ClaimOK, k
    <3>2. claim[j].by /= None => claim[j].by \in Tx /\ tx'[claim[j].by] = tx[claim[j].by]
      BY <1>3, <2>1, <3>1 DEF ClaimOK
    <3>3. claim[j].new.status = "approved" => claim[j].new.listing /= l
      BY <1>1, <2>3 DEF IInv, Unique
    <3> QED
      BY <1>2, <1>7, <2>1, <3>2, <3>3 DEF ClaimOK
  <2> QED
    BY <2>2, <2>3
<1>10. \A m \in Listings : ListingOK(m)'
  <2> SUFFICES ASSUME NEW m \in Listings PROVE ListingOK(m)'
    OBVIOUS
  <2>1. ListingOK(m)
    BY DEF IInv
  <2>2. CASE m = l
    <3>1. listing'[m].new.owner = tx[r].user /\ listing'[m].now.owner = None /\ listing'[m].by = r
      BY <1>5, <1>6, <1>7, <2>2
    <3>2. claim'[k].by = r /\ claim'[k].new = [listing |-> m, user |-> listing'[m].new.owner, status |-> "approved"]
      BY <1>1, <1>2, <2>2, <3>1
    <3> QED
      BY <1>1, <1>5, <1>7, <2>1, <2>2, <3>1, <3>2, Names DEF ListingOK
  <2>3. CASE m /= l
    BY <1>2, <1>7, <2>1, <2>3 DEF ListingOK
  <2> QED
    BY <2>2, <2>3
<1>11. \A s \in Tx : Fits(s, tx[s])'
  <2> SUFFICES ASSUME NEW s \in Tx PROVE Fits(s, tx[s])'
    OBVIOUS
  <2>1. CASE s = r
    BY <1>1, <1>4, <2>1 DEF Fits, Deciding
  <2>2. CASE s /= r
    <3>1. tx'[s] = tx[s] /\ Fits(s, tx[s])
      BY <1>3, <2>2 DEF IInv
    <3>2. \A m \in Listings : See(s, listing'[m]) = See(s, listing[m])
      <4>1. listing[l].by = None => listing[l].new = listing[l].now
        BY <1>1 DEF IInv, ListingOK
      <4> QED
        BY <1>6, <1>7, <2>2, <4>1, Names DEF See
    <3>3. tx[s].pc = "badge" /\ tx[s].badge => See(s, listing'[tx[s].l]).owner /= None
      BY <3>1, <3>2 DEF Fits
    <3>4. See(s, listing[tx[s].l])' = See(s, listing'[tx[s].l])
      BY <3>1 DEF See
    <3> QED
      BY <1>2, <3>1, <3>3, <3>4 DEF Fits
  <2> QED
    BY <2>1, <2>2
<1> QED
  BY <1>8, <1>9, <1>10, <1>11

-------------------------------------------------------------------------------
(* The steps of recompute, for whoever takes them.                           *)
LEMMA RecomputeStep ==
  ASSUME IInv, NEW t \in Tx, Recompute(t)
  PROVE  /\ Unique'
         /\ \A k \in Claims : ClaimOK(k)'
         /\ \A l \in Listings : ListingOK(l)'
         /\ \A s \in Tx : Fits(s, tx[s])'
<1>1. tx[t] \in Step /\ Fits(t, tx[t]) /\ TypeOK
  BY DEF IInv, TypeOK
<1>2. CASE ReadFacts(t)
  <2>1. PICK b : b = decide(See(t, listing[tx[t].l]).owner /= None, See(t, licence[tx[t].l]))
    OBVIOUS
  <2>2. PICK x : x = [tx[t] EXCEPT !.pc = "badge", !.badge = b]
    OBVIOUS
  <2>3. tx' = [tx EXCEPT ![t] = x]
    BY <1>1, <1>2, <2>1, <2>2 DEF ReadFacts, TypeOK
  <2>4. /\ x.pc = "badge" /\ x.l = tx[t].l /\ x.claim = tx[t].claim /\ x.verdict = tx[t].verdict
        /\ x.badge = b
    BY <1>1, <2>2 DEF Step
  <2>5. b => See(t, listing[tx[t].l]).owner /= None
    BY <2>1 DEF decide
  <2>6. tx[t].pc = "facts" /\ UNCHANGED <<listing, claim>>
    BY <1>2 DEF ReadFacts, tables
  <2>7. Fits(t, x)
    BY <1>1, <2>4, <2>5, <2>6 DEF Fits, Deciding
  <2> QED
    BY <2>3, <2>4, <2>6, <2>7, TxStep DEF Deciding
<1>3. CASE set_verification(t)
  <2>1. PICK x : x = [tx[t] EXCEPT !.pc = IF t \in Requests THEN "commit" ELSE "row",
                                   !.l = None, !.badge = FALSE]
    OBVIOUS
  <2>2. PICK l \in Listings : l = tx[t].l
    BY <1>1, <1>3 DEF set_verification, Fits
  <2>3. PICK v : v = [See(t, listing[l]) EXCEPT !.verified = tx[t].badge]
    OBVIOUS
  <2>4. tx' = [tx EXCEPT ![t] = x]
    BY <1>1, <1>3, <2>1 DEF set_verification, TypeOK
  <2>5. /\ tx[t].pc = "badge" /\ Free(t, listing[l]) /\ UNCHANGED claim
        /\ listing' = [listing EXCEPT ![l] = Put(t, @, v)]
    BY <1>3, <2>2, <2>3 DEF set_verification
  <2>6. /\ x.pc = IF t \in Requests THEN "commit" ELSE "row"
        /\ x.claim = tx[t].claim /\ x.verdict = tx[t].verdict
    BY <1>1, <2>1 DEF Step
  <2>7. v.owner = See(t, listing[l]).owner /\ (v.verified => v.owner /= None)
    <3>1. See(t, listing[l]) \in Listing
      BY <1>1, SeeTypes
    <3>2. tx[t].badge => See(t, listing[l]).owner /= None
      BY <1>1, <2>2, <2>5 DEF Fits
    <3> QED
      BY <2>3, <3>1, <3>2 DEF Listing
  <2>8. Fits(t, x)
    BY <1>1, <2>5, <2>6 DEF Fits, Deciding
  <2> QED
    BY <2>4, <2>5, <2>6, <2>7, <2>8, BadgeStep
<1> QED
  BY <1>2, <1>3 DEF Recompute

(* The steps of a request.                                                   *)
LEMMA RequestStep ==
  ASSUME IInv, NEW r \in Requests, Begin(r) \/ Proceed(r)
  PROVE  /\ Unique'
         /\ \A k \in Claims : ClaimOK(k)'
         /\ \A l \in Listings : ListingOK(l)'
         /\ \A s \in Tx : Fits(s, tx[s])'
<1> DEFINE Kept ==
      /\ Unique'
      /\ \A k \in Claims : ClaimOK(k)'
      /\ \A l \in Listings : ListingOK(l)'
      /\ \A s \in Tx : Fits(s, tx[s])'
<1>1. r \in Tx /\ r \in Claims /\ tx[r] \in Step /\ Fits(r, tx[r]) /\ TypeOK
  BY StepTypes DEF IInv, TypeOK
<1>2. ASSUME NEW u \in Users, NEW l \in Listings, Open(r, u, l) PROVE Kept
  <2>1. PICK x : x = [Idle EXCEPT !.pc = "insert", !.l = l, !.user = u, !.claim = r, !.verdict = "approved"]
    OBVIOUS
  <2>2. x.pc = "insert" /\ x.l = l /\ x.user = u /\ x.claim = r /\ x.verdict = "approved"
    BY <2>1, StepTypes DEF Step
  <2>3. tx[r].pc = "idle" /\ tx' = [tx EXCEPT ![r] = x] /\ UNCHANGED <<listing, claim>>
    BY <1>2, <2>1 DEF Open, tables
  <2>4. Fits(r, x)
    BY <1>1, <2>2, <2>3 DEF Fits, Deciding
  <2> QED
    BY <1>1, <2>3, <2>4, TxStep DEF Deciding
<1>3. ASSUME NEW k \in Claims, NEW w \in Verdicts, Review(r, k, w) PROVE Kept
  <2>1. PICK x : x = [Idle EXCEPT !.pc = "decide", !.l = claim[k].now.listing,
                                  !.user = claim[k].now.user, !.claim = k, !.verdict = w]
    OBVIOUS
  <2>2. /\ x.pc = "decide" /\ x.l = claim[k].now.listing /\ x.user = claim[k].now.user
        /\ x.claim = k /\ x.verdict = w
    BY <2>1, StepTypes DEF Step
  <2>3. /\ tx[r].pc = "idle" /\ tx' = [tx EXCEPT ![r] = x] /\ UNCHANGED <<listing, claim>>
        /\ claim[k].now.status = "pending"
    BY <1>3, <2>1 DEF Review, tables
  <2>4. claim[k].new.status /= "none" /\ claim[k].new.listing = x.l /\ claim[k].new.user = x.user
    BY <2>2, <2>3 DEF IInv, ClaimOK
  <2>5. Fits(r, x)
    BY <1>1, <2>2, <2>3, <2>4 DEF Fits, Deciding
  <2> QED
    BY <1>1, <2>3, <2>5, TxStep DEF Deciding
<1>4. CASE InsertClaim(r)
  <2>1. PICK x : x = [tx[r] EXCEPT !.pc = "decide"]
    OBVIOUS
  <2>2. PICK v : v = [listing |-> tx[r].l, user |-> tx[r].user, status |-> "pending"]
    OBVIOUS
  <2>3. /\ tx[r].pc = "insert" /\ tx' = [tx EXCEPT ![r] = x] /\ UNCHANGED listing
        /\ claim' = [claim EXCEPT ![r] = Put(r, @, v)]
    BY <1>1, <1>4, <2>1, <2>2 DEF InsertClaim, Go, TypeOK
  <2>4. /\ tx[r].claim = r /\ tx[r].l \in Listings /\ tx[r].user \in Users /\ tx[r].verdict = "approved"
        /\ claim[r] = At(NoClaim)
    BY <1>1, <2>3 DEF Fits
  <2>5. claim[r].by = None /\ claim[r].new.status = "none"
    BY <2>4 DEF At, NoClaim
  <2>6. /\ x.pc = "decide" /\ x.claim = r /\ x.l = tx[r].l /\ x.user = tx[r].user
        /\ x.verdict = tx[r].verdict
    BY <1>1, <2>1, <2>4 DEF Step
  <2>7. claim'[r].new = v /\ claim'[r].by = r
    BY <1>1, <2>3 DEF TypeOK, Put
  <2>8. Fits(r, x)'
    BY <1>1, <2>2, <2>4, <2>6, <2>7 DEF Fits, Deciding, Verdicts
  <2>9. v.status = "pending" /\ v.listing \in Listings /\ v.user \in Users
    BY <2>2, <2>4
  <2> QED
    BY <1>1, <2>3, <2>5, <2>6, <2>8, <2>9, ClaimStep DEF Deciding
<1>5. CASE DecideClaim(r)
  <2>1. PICK k \in Claims : k = tx[r].claim
    BY <1>1, <1>5 DEF DecideClaim, Fits, Deciding
  <2>2. PICK x : x = [tx[r] EXCEPT !.pc = AfterVerdict(tx[r].verdict)]
    OBVIOUS
  <2>3. PICK v : v = [See(r, claim[k]) EXCEPT !.status = tx[r].verdict]
    OBVIOUS
  <2>4. /\ tx[r].pc = "decide" /\ tx' = [tx EXCEPT ![r] = x] /\ UNCHANGED listing
        /\ claim' = [claim EXCEPT ![k] = Put(r, @, v)]
        /\ claim[k].by \in {r, None} /\ See(r, claim[k]).status = "pending"
        /\ tx[r].verdict = "approved" => Rivals(k) = {}
    BY <1>1, <1>5, <2>1, <2>2, <2>3 DEF DecideClaim, Go, TypeOK, Free
  <2>5. /\ tx[r].verdict \in Verdicts
        /\ claim[k].new.listing = tx[r].l /\ claim[k].new.user = tx[r].user
    BY <1>1, <2>1, <2>4 DEF Fits, Deciding
  <2>6. See(r, claim[k]) = claim[k].new /\ ClaimOK(k)
    BY <2>4 DEF IInv, ClaimOK, See
  <2>7. claim[k].new.status = "pending" /\ tx[r].l \in Listings /\ tx[r].user \in Users
    BY <2>4, <2>5, <2>6 DEF ClaimOK
  <2>8. claim[k].new \in Claim
    BY <1>1 DEF TypeOK, Cell
  <2>9. v = [listing |-> tx[r].l, user |-> tx[r].user, status |-> tx[r].verdict]
    BY <2>3, <2>5, <2>6, <2>8 DEF Claim
  <2>10. /\ x.pc = AfterVerdict(tx[r].verdict) /\ x.claim = k /\ x.l = tx[r].l /\ x.user = tx[r].user
         /\ x.verdict = tx[r].verdict
    BY <1>1, <2>1, <2>2 DEF Step
  <2>11. /\ x.pc \in {"attach", "facts", "commit"}
         /\ x.pc = "attach" <=> tx[r].verdict = "approved"
    BY <2>5, <2>10 DEF AfterVerdict, Verdicts
  <2>12. claim'[k].new = v /\ claim'[k].by = r
    BY <1>1, <2>4 DEF TypeOK, Put
  <2>13. Fits(r, x)'
    BY <1>1, <2>5, <2>7, <2>9, <2>10, <2>11, <2>12 DEF Fits, Deciding
  <2>14. v.status = tx[r].verdict /\ v.listing = tx[r].l /\ v.user = tx[r].user
    BY <2>9
  <2>15. v.status = "approved" =>
           /\ x.pc = "attach"
           /\ \A j \in Claims \ {k} :
                claim[j].new.status = "approved" =>
                  claim[j].new.listing /= v.listing /\ claim[j].new.user /= v.user
    BY <2>4, <2>5, <2>11, <2>14 DEF Rivals
  <2>16. v.status /= "none" /\ x.pc \in Deciding
    BY <2>5, <2>11, <2>14 DEF Verdicts, Deciding
  <2> QED
    BY <2>1, <2>4, <2>5, <2>7, <2>10, <2>13, <2>14, <2>15, <2>16, ClaimStep
<1>6. CASE WithdrawNothing(r)
  <2>1. PICK x : x = [tx[r] EXCEPT !.pc = "commit"]
    OBVIOUS
  <2>2. tx[r].pc = "decide" /\ tx' = [tx EXCEPT ![r] = x] /\ UNCHANGED <<listing, claim>>
    BY <1>1, <1>6, <2>1 DEF WithdrawNothing, Go, TypeOK, tables
  <2>3. x.pc = "commit" /\ x.claim = tx[r].claim /\ x.verdict = tx[r].verdict
    BY <1>1, <2>1 DEF Step
  <2>4. Fits(r, x)
    BY <1>1, <2>2, <2>3 DEF Fits, Deciding
  <2> QED
    BY <1>1, <2>2, <2>3, <2>4, TxStep DEF Deciding
<1>7. CASE attach_claimant(r)
  BY <1>7, AttachStep
<1>8. CASE Recompute(r)
  BY <1>1, <1>8, RecomputeStep
<1>9. Done.pc = "done"
  BY StepTypes DEF Done, Step
<1>10. CASE CommitRequest(r)
  <2>1. tx[r].pc = "commit" /\ tx' = [tx EXCEPT ![r] = Done] /\ CommitTables(r)
    BY <1>10 DEF CommitRequest
  <2> QED
    BY <1>1, <1>9, <2>1, CommitStep
<1>11. CASE GiveUp(r)
  <2>1. tx' = [tx EXCEPT ![r] = Done] /\ RollBackTables(r)
    BY <1>11 DEF GiveUp
  <2> QED
    BY <1>1, <1>9, <2>1, RollBackStep
<1>12. CASE Begin(r)
  BY <1>2, <1>3, <1>12 DEF Begin, Verdicts
<1>13. CASE Proceed(r)
  BY <1>4, <1>5, <1>6, <1>7, <1>8, <1>10, <1>11, <1>13 DEF Proceed
<1> QED
  BY <1>12, <1>13

(* The steps of an import, of the re-check and of time.                      *)
LEMMA OtherStep ==
  ASSUME IInv,
         \/ \E i \in Imports : ImportStep(i) \/ \E f \in Files : begin_run(i, f)
         \/ NightStep \/ PassFails \/ DatePasses
  PROVE  /\ Unique'
         /\ \A k \in Claims : ClaimOK(k)'
         /\ \A l \in Listings : ListingOK(l)'
         /\ \A s \in Tx : Fits(s, tx[s])'
<1> DEFINE Kept ==
      /\ Unique'
      /\ \A k \in Claims : ClaimOK(k)'
      /\ \A l \in Listings : ListingOK(l)'
      /\ \A s \in Tx : Fits(s, tx[s])'
<1>1. TypeOK /\ tx \in [Tx -> Step]
  BY DEF IInv, TypeOK
<1>2. Idle.pc = "idle" /\ Done.pc = "done" /\ \A p : [Idle EXCEPT !.pc = p].pc = p
  BY StepTypes DEF Idle, Done, Step
<1>3. ASSUME NEW t \in Tx, t \notin Requests, NEW x, tx' = [tx EXCEPT ![t] = x],
             UNCHANGED <<listing, claim>>,
             x.pc \in {"idle", "batch", "row", "done", "page"} \/ (x.pc \in {"project", "facts"} /\ x.l \in Listings)
      PROVE  Kept
  <2>1. Fits(t, x)
    BY <1>3 DEF Fits
  <2> QED
    BY <1>3, <2>1, TxStep
<1>4. ASSUME NEW i \in Imports, NEW f \in Files, begin_run(i, f) PROVE Kept
  <2>1. PICK x : x = [Idle EXCEPT !.pc = "batch", !.rest = InFile(f)]
    OBVIOUS
  <2>2. x.pc = "batch" /\ tx' = [tx EXCEPT ![i] = x] /\ UNCHANGED <<listing, claim>>
    BY <1>4, <2>1, StepTypes DEF begin_run, tables, Step
  <2> QED
    BY <1>3, <2>2, StepTypes, Names
<1>5. ASSUME NEW i \in Imports, ImportStep(i) PROVE Kept
  <2>1. i \in Tx /\ i \notin Requests /\ tx[i] \in Step
    BY <1>1, StepTypes, Names
  <2>2. CASE Gather(i)
    <3>1. PICK batch : tx' = [tx EXCEPT ![i].pc = "row", ![i].todo = batch, ![i].rest = @ \ batch]
      BY <2>2 DEF Gather
    <3>2. PICK x : x = [tx[i] EXCEPT !.pc = "row", !.todo = batch, !.rest = @ \ batch]
      OBVIOUS
    <3>3. x.pc = "row" /\ UNCHANGED <<listing, claim>>
      BY <2>1, <2>2, <3>2 DEF Gather, tables, Step
    <3>4. tx' = [tx EXCEPT ![i] = x]
      BY <3>1, <3>2
    <3> QED
      BY <1>3, <2>1, <3>3, <3>4
  <2>3. ASSUME NEW l \in Listings, upsert(i, l) PROVE Kept
    <3>1. CASE licence[l].now = run[i].file[l]
      <4>1. PICK x : x = [tx[i] EXCEPT !.todo = @ \ {l}]
        OBVIOUS
      <4>2. x.pc = "row" /\ tx' = [tx EXCEPT ![i] = x] /\ UNCHANGED <<listing, claim>>
        BY <2>1, <2>3, <3>1, <4>1 DEF upsert, Step
      <4> QED
        BY <1>3, <2>1, <4>2
    <3>2. CASE licence[l].now /= run[i].file[l]
      <4>1. PICK x : x = [tx[i] EXCEPT !.pc = "project", !.l = l, !.todo = @ \ {l}]
        OBVIOUS
      <4>2. x.pc = "project" /\ x.l = l
        BY <2>1, <4>1 DEF Step
      <4>3. tx' = [tx EXCEPT ![i] = x] /\ UNCHANGED <<listing, claim>>
        BY <2>1, <2>3, <3>2, <4>1 DEF upsert
      <4> QED
        BY <1>3, <2>1, <4>2, <4>3
    <3> QED
      BY <3>1, <3>2
  <2>4. CASE upsert_from_license(i)
    <3>1. PICK l \in Listings : l = tx[i].l
      BY <2>1, <2>4 DEF upsert_from_license, IInv, Fits
    <3>2. PICK x : x = [tx[i] EXCEPT !.pc = "facts"]
      OBVIOUS
    <3>3. x.pc = "facts" /\ x.l = l
      BY <2>1, <3>1, <3>2 DEF Step
    <3>4. tx' = [tx EXCEPT ![i] = x] /\ UNCHANGED claim
      BY <1>1, <2>1, <2>4, <3>2 DEF upsert_from_license, Go
    <3>5. CASE UNCHANGED listing
      BY <1>3, <2>1, <3>3, <3>4, <3>5
    <3>6. CASE listing' /= listing
      <4>1. PICK v : v = See(i, listing[l])
        OBVIOUS
      <4>2. Free(i, listing[l]) /\ listing' = [listing EXCEPT ![l] = Put(i, @, v)]
        BY <2>4, <3>1, <3>6, <4>1 DEF upsert_from_license
      <4>3. v.verified => v.owner /= None
        BY <4>1 DEF See, IInv, ListingOK
      <4>4. Fits(i, x)
        BY <2>1, <3>3 DEF Fits
      <4> QED
        BY <2>1, <3>3, <3>4, <4>1, <4>2, <4>3, <4>4, BadgeStep
    <3> QED
      BY <3>5, <3>6
  <2>5. CASE Recompute(i)
    BY <2>1, <2>5, RecomputeStep
  <2>6. CASE CommitBatch(i)
    <3>1. PICK x : x = [tx[i] EXCEPT !.pc = "batch"]
      OBVIOUS
    <3>2. x.pc = "batch" /\ tx' = [tx EXCEPT ![i] = x] /\ CommitTables(i)
      BY <1>1, <2>1, <2>6, <3>1 DEF CommitBatch, Go, Step
    <3> QED
      BY <2>1, <3>2, CommitStep
  <2>7. CASE finish_run(i)
    <3>1. tx' = [tx EXCEPT ![i] = Done] /\ UNCHANGED <<listing, claim>>
      BY <2>7 DEF finish_run, tables
    <3> QED
      BY <1>2, <1>3, <2>1, <3>1
  <2>8. ASSUME NEW status, ImportStops(i, status) PROVE Kept
    <3>1. tx' = [tx EXCEPT ![i] = Done] /\ RollBackTables(i)
      BY <2>8 DEF ImportStops
    <3> QED
      BY <1>2, <2>1, <3>1, RollBackStep
  <2> QED
    BY <1>5, <2>2, <2>3, <2>4, <2>5, <2>6, <2>7, <2>8 DEF ImportStep
<1>6. CASE NightStep \/ PassFails
  <2>1. Nightly \in Tx /\ Nightly \notin Requests /\ tx[Nightly] \in Step
    BY <1>1, StepTypes, Names
  <2>2. CASE StartPass
    <3>1. tx' = [tx EXCEPT ![Nightly] = [Idle EXCEPT !.pc = "page"]] /\ UNCHANGED <<listing, claim>>
      BY <2>2 DEF StartPass, tables
    <3> QED
      BY <1>2, <1>3, <2>1, <3>1
  <2>3. CASE NextPage
    <3>1. UNCHANGED <<listing, claim>>
      BY <2>3 DEF NextPage, tables
    <3>2. CASE tx' = [tx EXCEPT ![Nightly] = Idle]
      BY <1>2, <1>3, <2>1, <3>1, <3>2
    <3>3. ASSUME NEW last, NEW page,
                 tx' = [tx EXCEPT ![Nightly].pc = "row", ![Nightly].todo = page, ![Nightly].after = last]
          PROVE  Kept
      <4>1. PICK x : x = [tx[Nightly] EXCEPT !.pc = "row", !.todo = page, !.after = last]
        OBVIOUS
      <4>2. x.pc = "row" /\ tx' = [tx EXCEPT ![Nightly] = x]
        BY <2>1, <3>3, <4>1 DEF Step
      <4> QED
        BY <1>3, <2>1, <3>1, <4>2
    <3> QED
      BY <2>3, <3>2, <3>3 DEF NextPage
  <2>4. CASE NextRow
    <3>1. PICK l \in tx[Nightly].todo :
            tx' = [tx EXCEPT ![Nightly].pc = "facts", ![Nightly].l = l, ![Nightly].todo = @ \ {l}]
      BY <2>4 DEF NextRow
    <3>2. PICK x : x = [tx[Nightly] EXCEPT !.pc = "facts", !.l = l, !.todo = @ \ {l}]
      OBVIOUS
    <3>3. x.pc = "facts" /\ x.l = l /\ l \in Listings
      BY <2>1, <3>1, <3>2 DEF Step
    <3>4. tx' = [tx EXCEPT ![Nightly] = x] /\ UNCHANGED <<listing, claim>>
      BY <2>1, <2>4, <3>1, <3>2 DEF NextRow, tables
    <3> QED
      BY <1>3, <2>1, <3>3, <3>4
  <2>5. CASE Recompute(Nightly)
    BY <2>1, <2>5, RecomputeStep
  <2>6. CASE CommitPage
    <3>1. PICK x : x = [tx[Nightly] EXCEPT !.pc = "page"]
      OBVIOUS
    <3>2. x.pc = "page" /\ tx' = [tx EXCEPT ![Nightly] = x] /\ CommitTables(Nightly)
      BY <1>1, <2>1, <2>6, <3>1 DEF CommitPage, Go, Step
    <3> QED
      BY <2>1, <3>2, CommitStep
  <2>7. CASE PassFails
    <3>1. tx' = [tx EXCEPT ![Nightly] = Idle] /\ RollBackTables(Nightly)
      BY <2>7 DEF PassFails
    <3> QED
      BY <1>2, <2>1, <3>1, RollBackStep
  <2> QED
    BY <1>6, <2>2, <2>3, <2>4, <2>5, <2>6, <2>7 DEF NightStep
<1>7. CASE DatePasses
  BY <1>7 DEF DatePasses, tables, IInv, Unique, ClaimOK, ListingOK, Fits, See
<1> QED
  BY <1>4, <1>5, <1>6, <1>7

(* The inductive invariant is kept by every step.                            *)
LEMMA InvariantKept == IInv /\ [Next]_vars => IInv'
<1> SUFFICES ASSUME IInv, [Next]_vars PROVE IInv'
  OBVIOUS
<1>1. TypeOK'
  BY TypesKept
<1>2. ASSUME NEW r \in Requests, Begin(r) \/ Proceed(r) PROVE IInv'
  BY <1>1, <1>2, RequestStep DEF IInv
<1>3. CASE \/ \E i \in Imports : ImportStep(i) \/ \E f \in Files : begin_run(i, f)
           \/ NightStep \/ PassFails \/ DatePasses
  BY <1>1, <1>3, OtherStep DEF IInv
<1>4. CASE UNCHANGED vars
  BY <1>1, <1>4 DEF vars, tables, IInv, Unique, ClaimOK, ListingOK, Fits, See
<1> QED
  BY <1>2, <1>3, <1>4 DEF Next

(* Every reachable state satisfies the inductive invariant.                  *)
THEOREM Invariance == Spec => []IInv
  BY InitInvariant, InvariantKept, PTL DEF Spec

(* Rows, steps and runs have their types in every reachable state.           *)
THEOREM TypeCorrectness == Spec => []TypeOK
<1>1. IInv => TypeOK
  BY DEF IInv
<1> QED
  BY <1>1, Invariance, PTL

(* Owners and approved claims agree: a decision and the ownership it gives   *)
(* become visible together (claims::open, claims::decide).                   *)
THEOREM OwnershipCorrect == Spec => []OwnershipMatchesClaims
<1>1. IInv => OwnershipMatchesClaims
  <2> SUFFICES ASSUME IInv PROVE OwnershipMatchesClaims
    OBVIOUS
  <2>1. \A k \in Claims : claim[k].now.status = "approved" =>
          /\ claim[k].new = claim[k].now /\ claim[k].now.listing \in Listings
          /\ listing[claim[k].now.listing].now.owner = claim[k].now.user
    BY DEF IInv, ClaimOK
  <2>2. ASSUME NEW l \in Listings, NEW u \in Users, NEW k \in Claims,
               claim[k].now = [listing |-> l, user |-> u, status |-> "approved"]
        PROVE  listing[l].now.owner = u
    <3>1. claim[k].now.status = "approved" /\ claim[k].now.listing = l /\ claim[k].now.user = u
      BY <2>2
    <3> QED
      BY <2>1, <3>1
  <2>3. ASSUME NEW l \in Listings, NEW u \in Users, listing[l].now.owner = u
        PROVE  \E k \in Claims : claim[k].now = [listing |-> l, user |-> u, status |-> "approved"]
    BY <2>3, Names DEF IInv, ListingOK
  <2>4. \A k, j \in Claims :
          /\ claim[k].now.status = "approved" /\ claim[j].now.status = "approved"
          /\ claim[k].now.listing = claim[j].now.listing \/ claim[k].now.user = claim[j].now.user
          => k = j
    BY <2>1 DEF IInv, Unique
  <2> QED
    BY <2>2, <2>3, <2>4 DEF OwnershipMatchesClaims
<1> QED
  BY <1>1, Invariance, PTL

(* No badge is seen on a listing without an owner, however old the facts it  *)
(* was decided on (verification::recompute).                                 *)
THEOREM BadgeNeedsOwner == Spec => []NeverVerifiedUnowned
<1>1. IInv => NeverVerifiedUnowned
  BY DEF IInv, ListingOK, NeverVerifiedUnowned
<1> QED
  BY <1>1, Invariance, PTL

(* A decision, and the owner of a listing, stay.                             *)
Stay ==
  /\ \A k \in Claims :
       claim[k].now.status \in {"approved", "rejected", "withdrawn"} => claim'[k].now = claim[k].now
  /\ \A l \in Listings :
       listing[l].now.owner /= None => listing'[l].now.owner = listing[l].now.owner

LEMMA DecisionsStay == IInv /\ [Next]_vars => Stay
<1> SUFFICES ASSUME IInv, [Next]_vars PROVE Stay
  OBVIOUS
<1>1. TypeOK
  BY DEF IInv
<1>2. /\ \A k \in Claims : claim[k].now.status \in {"approved", "rejected", "withdrawn"} =>
           claim[k].by = None
      /\ \A l \in Listings : listing[l].now.owner /= None => listing[l].new.owner = listing[l].now.owner
  BY DEF IInv, ClaimOK, ListingOK
<1>3. ASSUME NEW t \in Tx, CommitTables(t) \/ RollBackTables(t) PROVE Stay
  <2>1. \A k \in Claims :
          Ends(t, claim[k], claim[k].new, claim'[k]) \/ Ends(t, claim[k], claim[k].now, claim'[k])
    BY <1>1, <1>3, Ended
  <2>2. \A l \in Listings :
          Ends(t, listing[l], listing[l].new, listing'[l]) \/ Ends(t, listing[l], listing[l].now, listing'[l])
    BY <1>1, <1>3, Ended
  <2> QED
    BY <1>2, <2>1, <2>2, Names DEF Ends, Stay
<1>4. ASSUME NEW t, set_verification(t) PROVE Stay
  <2>1. /\ UNCHANGED claim
        /\ \A m \in Listings : listing'[m].now = listing[m].now
    BY <1>1, <1>4 DEF set_verification, TypeOK, Put
  <2> QED
    BY <2>1 DEF Stay
<1>5. CASE UNCHANGED <<listing, claim>>
  BY <1>5 DEF Stay
<1>6. ASSUME NEW r \in Requests, Begin(r) \/ Proceed(r) PROVE Stay
  <2>1. r \in Tx
    BY StepTypes
  <2>2. CASE InsertClaim(r) \/ DecideClaim(r)
    <3>1. /\ UNCHANGED listing
          /\ \A k \in Claims : claim'[k].now = claim[k].now
      BY <1>1, <2>2 DEF InsertClaim, DecideClaim, TypeOK, Put
    <3> QED
      BY <3>1 DEF Stay
  <2>3. CASE attach_claimant(r)
    <3>1. /\ UNCHANGED claim
          /\ \A m \in Listings : listing'[m].now = listing[m].now
      BY <1>1, <2>3 DEF attach_claimant, TypeOK, Put
    <3> QED
      BY <3>1 DEF Stay
  <2>4. CASE CommitRequest(r) \/ GiveUp(r)
    BY <1>3, <2>1, <2>4 DEF CommitRequest, GiveUp
  <2>5. CASE Begin(r) \/ WithdrawNothing(r) \/ ReadFacts(r)
    BY <1>5, <2>5 DEF Begin, Open, Review, WithdrawNothing, ReadFacts, tables
  <2> QED
    BY <1>4, <1>6, <2>2, <2>3, <2>4, <2>5 DEF Proceed, Recompute
<1>7. ASSUME NEW i \in Imports, ImportStep(i) \/ \E f \in Files : begin_run(i, f) PROVE Stay
  <2>1. i \in Tx
    BY StepTypes
  <2>2. CASE upsert_from_license(i)
    <3>1. /\ UNCHANGED claim
          /\ \A m \in Listings : listing'[m].now = listing[m].now
      BY <1>1, <2>2 DEF upsert_from_license, TypeOK, Put
    <3> QED
      BY <3>1 DEF Stay
  <2>3. CASE CommitBatch(i) \/ \E status \in {"running", "failed"} : ImportStops(i, status)
    BY <1>3, <2>1, <2>3 DEF CommitBatch, ImportStops
  <2>4. CASE \/ Gather(i) \/ (\E l \in Listings : upsert(i, l)) \/ ReadFacts(i) \/ finish_run(i)
             \/ \E f \in Files : begin_run(i, f)
    BY <1>5, <2>4 DEF Gather, upsert, ReadFacts, finish_run, begin_run, tables
  <2> QED
    BY <1>4, <1>7, <2>2, <2>3, <2>4 DEF ImportStep, Recompute
<1>8. CASE NightStep \/ PassFails
  <2>1. Nightly \in Tx
    BY StepTypes
  <2>3. CASE CommitPage \/ PassFails
    BY <1>3, <2>1, <2>3 DEF CommitPage, PassFails
  <2>4. CASE StartPass \/ NextPage \/ NextRow \/ ReadFacts(Nightly)
    BY <1>5, <2>4 DEF StartPass, NextPage, NextRow, ReadFacts, tables
  <2> QED
    BY <1>4, <1>8, <2>3, <2>4 DEF NightStep, Recompute
<1>9. CASE DatePasses \/ UNCHANGED vars
  BY <1>5, <1>9 DEF DatePasses, vars, tables
<1> QED
  BY <1>6, <1>7, <1>8, <1>9 DEF Next

(* A decision, and the owner of a listing, are final: a claim that is        *)
(* decided is held by nobody, and an owner that is visible is not replaced.  *)
THEOREM DecisionsStand == Spec => DecisionsFinal
<1>1. IInv /\ [Next]_vars =>
        [/\ \A k \in Claims :
              claim[k].now.status \in {"approved", "rejected", "withdrawn"} => claim'[k].now = claim[k].now
         /\ \A l \in Listings :
              listing[l].now.owner /= None => listing'[l].now.owner = listing[l].now.owner]_vars
  BY DecisionsStay DEF Stay
<1> QED
  BY <1>1, Invariance, PTL DEF Spec, DecisionsFinal

-------------------------------------------------------------------------------
(* The badge rule, on top of the ownership invariant: what an approval or an *)
(* import commits follows from the facts it leaves.                          *)

(* Follows, as a relation between values: whether the date has passed, the   *)
(* badge, the owner and what the register says.                              *)
Right(passed, badge, owner, content) ==
  \/ badge = ((content = "active" \/ (content = "dated" /\ ~ passed)) /\ owner /= None)
  \/ content = "dated" /\ passed /\ badge = (owner /= None)

(* Only an import holds a licence, and once it is past that row it holds the *)
(* listing too, with a badge that is right.                                  *)
LicenceOK(l) ==
  LET c == licence[l] IN
  /\ c.by = None => c.new = c.now
  /\ c.by /= None =>
       /\ c.by \in Imports /\ tx[c.by].pc \in {"row", "project", "facts", "badge"}
       /\ tx[c.by].l /= l =>
            /\ listing[l].by = c.by
            /\ Right(late, listing[l].new.verified, listing[l].new.owner, c.new)

(* An import that holds a listing holds its licence; an approval holds the   *)
(* listing it works on, from the owner's name to the commit.                 *)
HolderOK(l) ==
  LET c == listing[l] IN
  /\ c.by \in Imports => licence[l].by = c.by
  /\ c.by \in Requests =>
       /\ tx[c.by].pc \in {"facts", "badge", "commit"}
       /\ tx[c.by].verdict = "approved" =>
            /\ tx[c.by].pc /= "commit" => tx[c.by].l = l
            /\ tx[c.by].pc = "commit" => Right(late, c.new.verified, c.new.owner, licence[l].now)

(* What t may be at: whose lock or whose permanence keeps its facts true.    *)
Aims(t, x) ==
  /\ t \in Imports =>
       /\ x.pc \in {"idle", "done", "batch", "row", "project", "facts", "badge"}
       /\ x.pc \in {"idle", "done", "batch", "row"} => x.l = None
       /\ x.pc \in {"project", "facts", "badge"} => licence[x.l].by = t
       /\ x.pc \in {"facts", "badge"} => listing[x.l].by = t \/ listing[x.l].now.owner /= None
       /\ x.pc = "badge" => Right(late, x.badge, See(t, listing[x.l]).owner, licence[x.l].new)
  /\ t \in Requests /\ x.verdict = "approved" =>
       /\ x.pc \in {"facts", "badge"} => listing[x.l].by = t
       /\ x.pc = "badge" => Right(late, x.badge, listing[x.l].new.owner, licence[x.l].now)

(* One import runs at a time.                                                *)
OneImport ==
  \A i, j \in Imports : i /= j => tx[i].pc \in {"idle", "done"} \/ tx[j].pc \in {"idle", "done"}

RuleInv ==
  /\ OneImport
  /\ \A l \in Listings : LicenceOK(l)
  /\ \A l \in Listings : HolderOK(l)
  /\ \A t \in Tx : Aims(t, tx[t])

(* Right is Follows, holds of what recompute decides, and survives the date. *)
LEMMA RightIsFollows ==
  ASSUME NEW badge, NEW owner, NEW content
  PROVE  Right(late, badge, owner, content) <=> Follows(badge, owner /= None, content)
  BY Zenon DEF Right, Follows, decide

LEMMA RightDecided ==
  ASSUME NEW owner, NEW content
  PROVE  Right(late, decide(owner /= None, content), owner, content)
  BY Zenon DEF Right, decide

LEMMA RightLater ==
  ASSUME NEW badge \in BOOLEAN, NEW owner, NEW content, Right(FALSE, badge, owner, content)
  PROVE  Right(TRUE, badge, owner, content)
<1>1. CASE content = "dated"
  BY <1>1 DEF Right
<1>2. CASE content /= "dated"
  BY <1>2 DEF Right
<1> QED
  BY <1>1, <1>2

(* The names of an import, of a request and of the re-check differ.          *)
LEMMA Kinds ==
  /\ None \notin Imports /\ None \notin Requests /\ None \notin Tx /\ None \notin Listings
  /\ Nightly \notin Imports /\ Nightly \notin Requests
  /\ \A i \in Imports : i \notin Requests /\ i \in Tx
  /\ \A r \in Requests : r \notin Imports /\ r \in Tx
  BY NamesAssumption DEF Tx

LEMMA InitRule == Init => RuleInv
<1> SUFFICES ASSUME Init PROVE RuleInv
  OBVIOUS
<1>1. \A l \in Listings : licence[l].by = None /\ licence[l].new = licence[l].now /\ listing[l].by = None
  BY DEF Init, At
<1>2. \A t \in Tx : tx[t].pc = "idle" /\ tx[t].l = None
  BY DEF Init, Idle
<1>3. OneImport
  BY <1>2, Kinds DEF OneImport
<1>4. \A l \in Listings : LicenceOK(l) /\ HolderOK(l)
  BY <1>1, Kinds DEF LicenceOK, HolderOK
<1>5. \A t \in Tx : Aims(t, tx[t])
  BY <1>2 DEF Aims
<1> QED
  BY <1>3, <1>4, <1>5 DEF RuleInv

-------------------------------------------------------------------------------
Working == {"row", "project", "facts", "badge"}

(* A step that writes no row.                                                *)
LEMMA RuleTxStep ==
  ASSUME IInv, RuleInv, NEW t \in Tx, NEW x, tx' = [tx EXCEPT ![t] = x],
         UNCHANGED <<licence, listing, late>>, Aims(t, x),
         t \in Imports /\ tx[t].pc \in Working => x.pc \in Working /\ x.l = tx[t].l,
         t \in Requests /\ tx[t].pc \in {"facts", "badge", "commit"} =>
           /\ tx[t].pc /= "commit" /\ x.pc \in {"facts", "badge"}
           /\ x.l = tx[t].l /\ x.verdict = tx[t].verdict,
         t \in Imports =>
           \/ x.pc \in {"idle", "done"} \/ tx[t].pc \notin {"idle", "done"}
           \/ \A j \in Imports : tx[j].pc \in {"idle", "done"}
  PROVE  RuleInv'
<1>1. \A s \in Tx : tx'[s] = IF s = t THEN x ELSE tx[s]
  BY DEF IInv, TypeOK
<1>2. OneImport'
  BY <1>1, Kinds DEF RuleInv, OneImport
<1>3. ASSUME NEW l \in Listings PROVE LicenceOK(l)'
  <2>1. LicenceOK(l)
    BY DEF RuleInv
  <2> QED
    BY <1>1, <2>1, Kinds DEF LicenceOK, Working
<1>4. ASSUME NEW l \in Listings PROVE HolderOK(l)'
  <2>1. HolderOK(l)
    BY DEF RuleInv
  <2> QED
    BY <1>1, <2>1, Kinds DEF HolderOK
<1>5. ASSUME NEW s \in Tx PROVE Aims(s, tx[s])'
  <2>1. Aims(s, tx'[s])
    BY <1>1 DEF RuleInv
  <2> QED
    BY <2>1 DEF Aims, See
<1> QED
  BY <1>2, <1>3, <1>4, <1>5 DEF RuleInv

(* The end of a transaction.  What an import commits of a licence, it        *)
(* commits of the listing too, so nobody else holds that listing.            *)
LEMMA RuleEnd ==
  ASSUME IInv, RuleInv, Stay, NEW t \in Tx, NEW x, tx' = [tx EXCEPT ![t] = x], UNCHANGED late,
         \/ RollBackTables(t)
         \/ CommitTables(t) /\ (t \in Imports => tx[t].pc = "row"),
         t \in Imports => x.l = None /\ x.pc \in {"idle", "done", "batch"},
         t \in Imports /\ x.pc = "batch" => tx[t].pc = "row",
         t \in Requests => x.pc = "done"
  PROVE  RuleInv'
<1>1. \A s \in Tx : tx'[s] = IF s = t THEN x ELSE tx[s]
  BY DEF IInv, TypeOK
<1>2. \A l \in Listings :
        /\ licence[l].by = t => licence'[l].by = None /\ licence'[l].new = licence'[l].now
        /\ licence[l].by /= t => licence'[l] = licence[l]
  BY Ended DEF IInv, Ends
<1>3. \A l \in Listings :
        /\ listing[l].by = t => listing'[l].by = None
        /\ listing[l].by /= t => listing'[l] = listing[l]
  BY Ended DEF IInv, Ends
<1>4. ASSUME NEW l \in Listings, licence'[l].now /= licence[l].now PROVE listing[l].by = t
  <2>1. /\ Ends(t, licence[l], licence[l].now, licence'[l]) \/ CommitTables(t)
        /\ licence[l].by = t
    BY <1>2, <1>4, Ended DEF IInv
  <2>2. t \in Imports /\ CommitTables(t)
    BY <1>4, <2>1, Kinds DEF Ends, RuleInv, LicenceOK
  <2>3. tx[t].l = None \/ RollBackTables(t)
    BY <2>2 DEF RuleInv, Aims
  <2>4. Ends(t, licence[l], licence[l].now, licence'[l]) \/ tx[t].l = None
    BY <2>3, Ended DEF IInv
  <2> QED
    BY <1>4, <2>1, <2>2, <2>4, Kinds DEF Ends, RuleInv, LicenceOK
<1>5. OneImport'
  BY <1>1, Kinds DEF RuleInv, OneImport
<1>6. ASSUME NEW l \in Listings PROVE LicenceOK(l)'
  <2>1. LicenceOK(l)
    BY DEF RuleInv
  <2>2. CASE licence[l].by = t
    BY <1>2, <2>2 DEF LicenceOK
  <2>3. CASE licence[l].by /= t
    <3>1. licence'[l] = licence[l] /\ (listing[l].by = licence[l].by => listing'[l] = listing[l])
      BY <1>2, <1>3, <2>3
    <3>2. licence[l].by /= None => tx'[licence[l].by] = tx[licence[l].by]
      BY <1>1, <2>1, <2>3, Kinds DEF LicenceOK
    <3> QED
      BY <2>1, <3>1, <3>2 DEF LicenceOK
  <2> QED
    BY <2>2, <2>3
<1>7. ASSUME NEW l \in Listings PROVE HolderOK(l)'
  <2>1. HolderOK(l)
    BY DEF RuleInv
  <2>2. CASE listing[l].by = t
    BY <1>3, <2>2, Kinds DEF HolderOK
  <2>3. CASE listing[l].by /= t
    <3>1. listing'[l] = listing[l] /\ licence'[l].now = licence[l].now
      BY <1>3, <1>4, <2>3
    <3>2. licence[l].by = listing[l].by => licence'[l] = licence[l]
      BY <1>2, <2>3
    <3>3. listing[l].by \in Requests => tx'[listing[l].by] = tx[listing[l].by]
      BY <1>1, <2>3, Kinds
    <3> QED
      BY <2>1, <3>1, <3>2, <3>3 DEF HolderOK
  <2> QED
    BY <2>2, <2>3
<1>8. ASSUME NEW s \in Tx PROVE Aims(s, tx[s])'
  <2>1. CASE s = t
    BY <1>1, <2>1 DEF Aims
  <2>2. CASE s /= t
    <3>1. tx'[s] = tx[s] /\ Aims(s, tx[s]) /\ Fits(s, tx[s])
      BY <1>1, <2>2 DEF IInv, RuleInv
    <3>2. CASE tx[s].pc \notin {"project", "facts", "badge"}
      BY <3>1, <3>2 DEF Aims
    <3>3. CASE tx[s].pc \in {"project", "facts", "badge"}
      <4>1. PICK l \in Listings : l = tx[s].l
        BY <3>1, <3>3 DEF Fits
      <4>2. /\ licence[l].by = s => licence'[l] = licence[l]
            /\ listing[l].by = s => listing'[l] = listing[l] /\ licence'[l].now = licence[l].now
            /\ listing[l].now.owner /= None => listing'[l].now.owner = listing[l].now.owner
            /\ listing[l].by /= s => listing'[l].by /= s
        BY <1>2, <1>3, <1>4, <2>2, Kinds DEF Stay
      <4>3. /\ See(s, listing[l]) = IF listing[l].by = s THEN listing[l].new ELSE listing[l].now
            /\ See(s, listing'[l]) = IF listing'[l].by = s THEN listing'[l].new ELSE listing'[l].now
            /\ See(s, listing[tx[s].l])' = See(s, listing'[l])
        BY <3>1, <4>1 DEF See
      <4>4. listing[l].by = s \/ listing[l].now.owner /= None =>
              See(s, listing'[l]).owner = See(s, listing[l]).owner
        BY <4>2, <4>3
      <4> QED
        BY <3>1, <3>3, <4>1, <4>2, <4>3, <4>4 DEF Aims
    <3> QED
      BY <3>2, <3>3
  <2> QED
    BY <2>1, <2>2
<1> QED
  BY <1>5, <1>6, <1>7, <1>8 DEF RuleInv

(* A step that writes the listing that its transaction is at.                *)
LEMMA RuleListing ==
  ASSUME IInv, RuleInv, NEW t \in Tx, NEW x, tx' = [tx EXCEPT ![t] = x],
         UNCHANGED <<licence, late>>, NEW l \in Listings, l = tx[t].l, Free(t, listing[l]),
         NEW v, listing' = [listing EXCEPT ![l] = Put(t, @, v)], Aims(t, x)',
         t \in Imports =>
           /\ licence[l].by = t /\ x.pc \in {"facts", "row"}
           /\ x.l = l \/ Right(late, v.verified, v.owner, licence[l].new),
         t \in Imports => tx[t].pc \in Working,
         t \in Requests =>
           /\ tx[t].pc \in {"attach", "badge"} /\ x.pc \in {"facts", "commit"}
           /\ x.verdict = tx[t].verdict /\ (tx[t].pc = "badge" => x.pc = "commit")
           /\ x.pc = "facts" => x.l = l
           /\ x.pc = "commit" /\ x.verdict = "approved" =>
                Right(late, v.verified, v.owner, licence[l].now)
  PROVE  RuleInv'
<1>1. \A s \in Tx : tx'[s] = IF s = t THEN x ELSE tx[s]
  BY DEF IInv, TypeOK
<1>2. /\ listing'[l].now = listing[l].now /\ listing'[l].new = v /\ listing'[l].by = t
      /\ listing[l].by \in {t, None}
      /\ \A m \in Listings \ {l} : listing'[m] = listing[m]
  BY DEF IInv, TypeOK, Put, Free
<1>3. OneImport'
  BY <1>1, Kinds DEF RuleInv, OneImport, Working
<1>4. ASSUME NEW m \in Listings PROVE LicenceOK(m)'
  <2>1. LicenceOK(m)
    BY DEF RuleInv
  <2>2. CASE licence[m].by = t
    <3>1. t \in Imports /\ tx'[t] = x
      BY <1>1, <2>1, <2>2, Kinds DEF LicenceOK
    <3>2. CASE m = l
      BY <1>2, <2>1, <2>2, <3>1, <3>2, Kinds DEF LicenceOK
    <3>3. CASE m /= l
      BY <1>2, <2>1, <2>2, <3>1, <3>3, Kinds DEF LicenceOK
    <3> QED
      BY <3>2, <3>3
  <2>3. CASE licence[m].by /= t
    <3>1. licence[m].by /= None => tx'[licence[m].by] = tx[licence[m].by]
      BY <1>1, <2>1, <2>3, Kinds DEF LicenceOK
    <3>2. licence[m].by /= None /\ listing[m].by = licence[m].by => listing'[m] = listing[m]
      BY <1>2, <2>3
    <3> QED
      BY <2>1, <3>1, <3>2 DEF LicenceOK
  <2> QED
    BY <2>2, <2>3
<1>5. ASSUME NEW m \in Listings PROVE HolderOK(m)'
  <2>1. HolderOK(m)
    BY DEF RuleInv
  <2>2. CASE m = l
    BY <1>1, <1>2, <2>2, Kinds DEF HolderOK
  <2>3. CASE m /= l /\ listing[m].by = t
    BY <1>1, <1>2, <2>1, <2>3, Kinds DEF HolderOK
  <2>4. CASE m /= l /\ listing[m].by /= t
    BY <1>1, <1>2, <2>1, <2>4, Kinds DEF HolderOK
  <2> QED
    BY <2>2, <2>3, <2>4
<1>6. ASSUME NEW s \in Tx PROVE Aims(s, tx[s])'
  <2>1. CASE s = t
    BY <1>1, <2>1 DEF Aims
  <2>2. CASE s /= t
    <3>1. tx'[s] = tx[s] /\ Aims(s, tx[s]) /\ Fits(s, tx[s])
      BY <1>1, <2>2 DEF IInv, RuleInv
    <3>2. CASE tx[s].pc \notin {"project", "facts", "badge"}
      BY <3>1, <3>2 DEF Aims
    <3>3. CASE tx[s].pc \in {"project", "facts", "badge"}
      <4>1. PICK m \in Listings : m = tx[s].l
        BY <3>1, <3>3 DEF Fits
      <4>2. /\ listing[m].by = s => listing'[m] = listing[m]
            /\ listing'[m].now = listing[m].now
            /\ listing[m].by /= s => listing'[m].by /= s
        BY <1>2, <2>2, Kinds
      <4>3. See(s, listing[tx[s].l])' = See(s, listing[m])
        BY <3>1, <4>1, <4>2 DEF See
      <4> QED
        BY <3>1, <3>3, <4>1, <4>2, <4>3 DEF Aims
    <3> QED
      BY <3>2, <3>3
  <2> QED
    BY <2>1, <2>2
<1> QED
  BY <1>3, <1>4, <1>5, <1>6 DEF RuleInv

(* licenses::upsert writes a licence whose content changed.                  *)
LEMMA RuleLicence ==
  ASSUME IInv, RuleInv, NEW i \in Imports, NEW x, tx' = [tx EXCEPT ![i] = x],
         UNCHANGED <<listing, late>>, NEW l \in Listings, NEW v,
         licence' = [licence EXCEPT ![l] = Put(i, @, v)],
         tx[i].pc = "row", x.pc = "project", x.l = l
  PROVE  RuleInv'
<1>1. \A s \in Tx : tx'[s] = IF s = i THEN x ELSE tx[s]
  BY DEF IInv, TypeOK
<1>2. /\ licence'[l].now = licence[l].now /\ licence'[l].by = i
      /\ \A m \in Listings \ {l} : licence'[m] = licence[m]
  BY DEF IInv, TypeOK, Put
<1>3. tx[i].l = None /\ i \in Tx
  BY Kinds DEF RuleInv, Aims
<1>4. \A m \in Listings : licence[m].by \in {i, None}
  <2> SUFFICES ASSUME NEW m \in Listings, licence[m].by \notin {i, None} PROVE FALSE
    OBVIOUS
  <2>1. licence[m].by \in Imports /\ tx[licence[m].by].pc \notin {"idle", "done"}
    BY DEF RuleInv, LicenceOK
  <2> QED
    BY <2>1 DEF RuleInv, OneImport
<1>5. OneImport'
  BY <1>1, Kinds DEF RuleInv, OneImport
<1>6. ASSUME NEW m \in Listings PROVE LicenceOK(m)'
  <2>1. LicenceOK(m)
    BY DEF RuleInv
  <2>2. CASE m = l
    BY <1>1, <1>2, <1>3, <2>2, Kinds DEF LicenceOK
  <2>3. CASE m /= l
    BY <1>1, <1>2, <1>3, <1>4, <2>1, <2>3, Kinds DEF LicenceOK
  <2> QED
    BY <2>2, <2>3
<1>7. ASSUME NEW m \in Listings PROVE HolderOK(m)'
  <2>1. HolderOK(m)
    BY DEF RuleInv
  <2>2. licence'[m].now = licence[m].now /\ (licence[m].by \in Imports => licence'[m].by = licence[m].by)
    BY <1>2, <1>4, Kinds
  <2> QED
    BY <1>1, <2>1, <2>2, Kinds DEF HolderOK
<1>8. ASSUME NEW s \in Tx PROVE Aims(s, tx[s])'
  <2>1. CASE s = i
    BY <1>1, <1>2, <2>1, Kinds DEF Aims
  <2>2. CASE s /= i
    <3>1. tx'[s] = tx[s] /\ Aims(s, tx[s]) /\ Fits(s, tx[s])
      BY <1>1, <2>2 DEF IInv, RuleInv
    <3>2. s \in Imports => tx[s].pc \in {"idle", "done"}
      BY <2>2 DEF RuleInv, OneImport
    <3>3. CASE tx[s].pc \notin {"project", "facts", "badge"}
      BY <3>1, <3>3 DEF Aims
    <3>4. CASE tx[s].pc \in {"project", "facts", "badge"}
      <4>1. PICK m \in Listings : m = tx[s].l
        BY <3>1, <3>4 DEF Fits
      <4> QED
        BY <1>2, <3>1, <3>2, <3>4, <4>1 DEF Aims
    <3> QED
      BY <3>3, <3>4
  <2> QED
    BY <2>1, <2>2
<1> QED
  BY <1>5, <1>6, <1>7, <1>8 DEF RuleInv

-------------------------------------------------------------------------------
(* recompute: what it read stays true until it writes.                       *)
LEMMA RuleRecompute ==
  ASSUME IInv, RuleInv, NEW t \in Tx, Recompute(t)
  PROVE  RuleInv'
<1>1. tx[t] \in Step /\ Fits(t, tx[t]) /\ Aims(t, tx[t]) /\ tx \in [Tx -> Step] /\ TypeOK
  BY DEF IInv, TypeOK, RuleInv
<1>2. PICK l \in Listings : l = tx[t].l
  BY <1>1 DEF Recompute, ReadFacts, set_verification, Fits
<1>3. LicenceOK(l) /\ HolderOK(l)
  BY DEF RuleInv
<1>4. CASE ReadFacts(t)
  <2>1. PICK b : b = decide(See(t, listing[l]).owner /= None, See(t, licence[l]))
    OBVIOUS
  <2>2. PICK x : x = [tx[t] EXCEPT !.pc = "badge", !.badge = b]
    OBVIOUS
  <2>3. tx' = [tx EXCEPT ![t] = x]
    BY <1>2, <1>4, <2>1, <2>2 DEF ReadFacts
  <2>4. x.pc = "badge" /\ x.l = l /\ x.badge = b /\ x.verdict = tx[t].verdict
    BY <1>1, <1>2, <2>2 DEF Step
  <2>5. tx[t].pc = "facts" /\ UNCHANGED <<licence, listing, late>>
    BY <1>4 DEF ReadFacts, tables
  <2>6. Right(late, b, See(t, listing[l]).owner, See(t, licence[l]))
    BY <2>1, RightDecided, Zenon
  <2>7. t \in Imports => See(t, licence[l]) = licence[l].new
    BY <1>1, <1>2, <2>5 DEF Aims, See
  <2>8. t \in Requests => See(t, licence[l]) = licence[l].now
    BY <1>3, Kinds DEF LicenceOK, See
  <2>9. t \in Requests /\ tx[t].verdict = "approved" => See(t, listing[l]) = listing[l].new
    BY <1>1, <1>2, <2>5 DEF Aims, See
  <2>10. Aims(t, x)
    BY <1>1, <1>2, <2>4, <2>5, <2>6, <2>7, <2>8, <2>9 DEF Aims
  <2> QED
    BY <1>2, <2>3, <2>4, <2>5, <2>10, RuleTxStep DEF Working
<1>5. CASE set_verification(t)
  <2>1. PICK x : x = [tx[t] EXCEPT !.pc = IF t \in Requests THEN "commit" ELSE "row",
                                   !.l = None, !.badge = FALSE]
    OBVIOUS
  <2>2. PICK v : v = [See(t, listing[l]) EXCEPT !.verified = tx[t].badge]
    OBVIOUS
  <2>3. tx' = [tx EXCEPT ![t] = x]
    BY <1>1, <1>5, <2>1 DEF set_verification
  <2>4. /\ tx[t].pc = "badge" /\ Free(t, listing[l]) /\ UNCHANGED <<licence, late>>
        /\ listing' = [listing EXCEPT ![l] = Put(t, @, v)]
    BY <1>2, <1>5, <2>2 DEF set_verification
  <2>5. /\ x.pc = IF t \in Requests THEN "commit" ELSE "row"
        /\ x.l = None /\ x.verdict = tx[t].verdict
    BY <1>1, <2>1 DEF Step
  <2>6. v.owner = See(t, listing[l]).owner /\ v.verified = tx[t].badge
    <3>1. See(t, listing[l]) \in Listing
      BY <1>1, SeeTypes
    <3> QED
      BY <2>2, <3>1 DEF Listing
  <2>7. t \in Imports => licence[l].by = t /\ Right(late, v.verified, v.owner, licence[l].new)
    BY <1>1, <1>2, <2>4, <2>6 DEF Aims
  <2>8. t \in Requests /\ tx[t].verdict = "approved" => Right(late, v.verified, v.owner, licence[l].now)
    BY <1>1, <1>2, <2>4, <2>6 DEF Aims, See
  <2>9. Aims(t, x)'
    BY <2>5, Kinds DEF Aims
  <2> QED
    BY <1>2, <2>3, <2>4, <2>5, <2>7, <2>8, <2>9, Kinds, RuleListing DEF Working
<1> QED
  BY <1>4, <1>5 DEF Recompute

(* The requests.                                                             *)
LEMMA RuleRequest ==
  ASSUME IInv, RuleInv, Stay, NEW r \in Requests, Begin(r) \/ Proceed(r)
  PROVE  RuleInv'
<1>1. r \in Tx /\ r \notin Imports /\ tx[r] \in Step /\ Fits(r, tx[r]) /\ tx \in [Tx -> Step]
  BY Kinds DEF IInv, TypeOK
<1>2. ASSUME NEW x, tx' = [tx EXCEPT ![r] = x], UNCHANGED <<licence, listing, late>>,
             x.pc \notin {"facts", "badge"} \/ x.verdict /= "approved",
             tx[r].pc \notin {"facts", "badge", "commit"}
      PROVE  RuleInv'
  <2>1. Aims(r, x)
    BY <1>1, <1>2 DEF Aims
  <2> QED
    BY <1>1, <1>2, <2>1, RuleTxStep
<1>3. ASSUME NEW u \in Users, NEW l \in Listings, Open(r, u, l) PROVE RuleInv'
  <2>1. PICK x : x = [Idle EXCEPT !.pc = "insert", !.l = l, !.user = u, !.claim = r, !.verdict = "approved"]
    OBVIOUS
  <2>2. x.pc = "insert"
    BY <2>1, StepTypes DEF Step
  <2>3. tx[r].pc = "idle" /\ tx' = [tx EXCEPT ![r] = x] /\ UNCHANGED <<licence, listing, late>>
    BY <1>3, <2>1 DEF Open, tables
  <2> QED
    BY <1>2, <2>2, <2>3
<1>4. ASSUME NEW k \in Claims, NEW w, Review(r, k, w) PROVE RuleInv'
  <2>1. PICK x : x = [Idle EXCEPT !.pc = "decide", !.l = claim[k].now.listing,
                                  !.user = claim[k].now.user, !.claim = k, !.verdict = w]
    OBVIOUS
  <2>2. x.pc = "decide"
    BY <2>1, StepTypes DEF Step
  <2>3. tx[r].pc = "idle" /\ tx' = [tx EXCEPT ![r] = x] /\ UNCHANGED <<licence, listing, late>>
    BY <1>4, <2>1 DEF Review, tables
  <2> QED
    BY <1>2, <2>2, <2>3
<1>5. CASE InsertClaim(r) \/ WithdrawNothing(r)
  <2>1. PICK pc \in {"decide", "commit"} : tx' = [tx EXCEPT ![r].pc = pc]
    BY <1>5 DEF InsertClaim, WithdrawNothing, Go
  <2>2. PICK x : x = [tx[r] EXCEPT !.pc = pc]
    OBVIOUS
  <2>3. x.pc = pc /\ tx' = [tx EXCEPT ![r] = x]
    BY <1>1, <2>1, <2>2 DEF Step
  <2>4. tx[r].pc \in {"insert", "decide"} /\ UNCHANGED <<licence, listing, late>>
    BY <1>5 DEF InsertClaim, WithdrawNothing, tables
  <2> QED
    BY <1>2, <2>1, <2>3, <2>4
<1>6. CASE DecideClaim(r)
  <2>1. PICK x : x = [tx[r] EXCEPT !.pc = AfterVerdict(tx[r].verdict)]
    OBVIOUS
  <2>2. x.pc = AfterVerdict(tx[r].verdict) /\ x.verdict = tx[r].verdict
    BY <1>1, <2>1 DEF Step
  <2>3. tx[r].pc = "decide" /\ tx' = [tx EXCEPT ![r] = x] /\ UNCHANGED <<licence, listing, late>>
    BY <1>1, <1>6, <2>1 DEF DecideClaim, Go
  <2>4. x.pc \notin {"facts", "badge"} \/ x.verdict /= "approved"
    BY <2>2 DEF AfterVerdict
  <2> QED
    BY <1>2, <2>3, <2>4
<1>7. CASE attach_claimant(r)
  <2>1. PICK l \in Listings : l = tx[r].l
    BY <1>1, <1>7 DEF attach_claimant, Fits
  <2>2. PICK v : v = [See(r, listing[l]) EXCEPT !.owner = tx[r].user]
    OBVIOUS
  <2>3. PICK x : x = [tx[r] EXCEPT !.pc = "facts"]
    OBVIOUS
  <2>4. x.pc = "facts" /\ x.l = l /\ x.verdict = tx[r].verdict
    BY <1>1, <2>1, <2>3 DEF Step
  <2>5. /\ tx' = [tx EXCEPT ![r] = x] /\ UNCHANGED <<licence, late>> /\ tx[r].pc = "attach"
        /\ Free(r, listing[l]) /\ listing' = [listing EXCEPT ![l] = Put(r, @, v)]
    BY <1>1, <1>7, <2>1, <2>2, <2>3 DEF attach_claimant, Go
  <2>6. listing'[l].by = r
    BY <2>5 DEF IInv, TypeOK, Put
  <2>7. Aims(r, x)'
    BY <1>1, <2>4, <2>6 DEF Aims
  <2> QED
    BY <1>1, <2>1, <2>4, <2>5, <2>7, RuleListing
<1>8. CASE Recompute(r)
  BY <1>1, <1>8, RuleRecompute
<1>9. Done.pc = "done" /\ Done.l = None
  <2>1. Idle.l = None
    BY DEF Idle
  <2> QED
    BY <2>1, StepTypes DEF Done, Step
<1>10. CASE CommitRequest(r) \/ GiveUp(r)
  <2>1. /\ tx' = [tx EXCEPT ![r] = Done] /\ (CommitTables(r) \/ RollBackTables(r))
        /\ UNCHANGED late
    BY <1>10 DEF CommitRequest, GiveUp
  <2> QED
    BY <1>1, <1>9, <2>1, RuleEnd
<1> QED
  BY <1>3, <1>4, <1>5, <1>6, <1>7, <1>8, <1>10 DEF Begin, Proceed

(* The imports.                                                              *)
LEMMA RuleImport ==
  ASSUME IInv, RuleInv, Stay, NEW i \in Imports, ImportStep(i) \/ \E f \in Files : begin_run(i, f)
  PROVE  RuleInv'
<1>1. i \in Tx /\ i \notin Requests /\ tx[i] \in Step /\ Fits(i, tx[i]) /\ Aims(i, tx[i])
        /\ tx \in [Tx -> Step]
  BY Kinds DEF IInv, TypeOK, RuleInv
<1>2. Done.pc = "done" /\ Done.l = None /\ Idle.l = None
  <2>1. Idle.l = None
    BY DEF Idle
  <2> QED
    BY <2>1, StepTypes DEF Done, Step
<1>3. ASSUME NEW f \in Files, begin_run(i, f) PROVE RuleInv'
  <2>1. PICK x : x = [Idle EXCEPT !.pc = "batch", !.rest = InFile(f)]
    OBVIOUS
  <2>2. x.pc = "batch" /\ x.l = None
    BY <1>2, <2>1, StepTypes DEF Step
  <2>3. /\ tx[i].pc = "idle" /\ tx' = [tx EXCEPT ![i] = x] /\ UNCHANGED <<licence, listing, late>>
        /\ \A j \in Imports : tx[j].pc \in {"idle", "done"}
    BY <1>3, <2>1 DEF begin_run, tables
  <2>4. Aims(i, x)
    BY <1>1, <2>2 DEF Aims
  <2> QED
    BY <1>1, <2>2, <2>3, <2>4, RuleTxStep DEF Working
<1>4. CASE Gather(i)
  <2>1. PICK batch : tx' = [tx EXCEPT ![i].pc = "row", ![i].todo = batch, ![i].rest = @ \ batch]
    BY <1>4 DEF Gather
  <2>2. PICK x : x = [tx[i] EXCEPT !.pc = "row", !.todo = batch, !.rest = @ \ batch]
    OBVIOUS
  <2>3. x.pc = "row" /\ x.l = tx[i].l
    BY <1>1, <2>2 DEF Step
  <2>4. tx' = [tx EXCEPT ![i] = x]
    BY <2>1, <2>2
  <2>5. tx[i].pc = "batch" /\ UNCHANGED <<licence, listing, late>>
    BY <1>4 DEF Gather, tables
  <2>6. Aims(i, x)
    BY <1>1, <2>3, <2>5 DEF Aims
  <2> QED
    BY <1>1, <2>3, <2>4, <2>5, <2>6, RuleTxStep DEF Working
<1>5. ASSUME NEW l \in Listings, upsert(i, l) PROVE RuleInv'
  <2>1. CASE licence[l].now = run[i].file[l]
    <3>1. PICK x : x = [tx[i] EXCEPT !.todo = @ \ {l}]
      OBVIOUS
    <3>2. x.pc = "row" /\ x.l = tx[i].l /\ tx[i].pc = "row"
      BY <1>1, <1>5, <3>1 DEF Step, upsert
    <3>3. tx' = [tx EXCEPT ![i] = x] /\ UNCHANGED <<licence, listing, late>>
      BY <1>5, <2>1, <3>1 DEF upsert
    <3>4. Aims(i, x)
      BY <1>1, <3>2 DEF Aims
    <3> QED
      BY <1>1, <3>2, <3>3, <3>4, RuleTxStep DEF Working
  <2>2. CASE licence[l].now /= run[i].file[l]
    <3>1. PICK x : x = [tx[i] EXCEPT !.pc = "project", !.l = l, !.todo = @ \ {l}]
      OBVIOUS
    <3>2. x.pc = "project" /\ x.l = l
      BY <1>1, <3>1 DEF Step
    <3>3. PICK v : v = run[i].file[l]
      OBVIOUS
    <3>4. tx' = [tx EXCEPT ![i] = x] /\ licence' = [licence EXCEPT ![l] = Put(i, @, v)]
      BY <1>5, <2>2, <3>1, <3>3 DEF upsert
    <3>5. tx[i].pc = "row" /\ UNCHANGED <<listing, late>>
      BY <1>5 DEF upsert
    <3> QED
      BY <3>2, <3>4, <3>5, RuleLicence
  <2> QED
    BY <2>1, <2>2
<1>6. CASE upsert_from_license(i)
  <2>1. PICK l \in Listings : l = tx[i].l
    BY <1>1, <1>6 DEF upsert_from_license, Fits
  <2>2. PICK x : x = [tx[i] EXCEPT !.pc = "facts"]
    OBVIOUS
  <2>3. x.pc = "facts" /\ x.l = l
    BY <1>1, <2>1, <2>2 DEF Step
  <2>4. tx' = [tx EXCEPT ![i] = x] /\ UNCHANGED <<licence, late>> /\ tx[i].pc = "project"
    BY <1>1, <1>6, <2>2 DEF upsert_from_license, Go
  <2>5. licence[l].by = i
    BY <1>1, <2>1, <2>4 DEF Aims
  <2>6. CASE listing[l].now.owner /= None /\ UNCHANGED listing
    <3>1. Aims(i, x)
      BY <1>1, <2>3, <2>5, <2>6 DEF Aims
    <3> QED
      BY <1>1, <2>1, <2>3, <2>4, <2>6, <3>1, RuleTxStep DEF Working
  <2>7. CASE Free(i, listing[l]) /\ listing' = [listing EXCEPT ![l] = Put(i, @, See(i, @))]
    <3>1. PICK v : v = See(i, listing[l])
      OBVIOUS
    <3>2. listing' = [listing EXCEPT ![l] = Put(i, @, v)]
      BY <2>7, <3>1
    <3>3. listing'[l].by = i
      BY <3>2 DEF IInv, TypeOK, Put
    <3>4. Aims(i, x)'
      BY <1>1, <2>3, <2>4, <2>5, <3>3 DEF Aims
    <3> QED
      BY <1>1, <2>1, <2>3, <2>4, <2>5, <2>7, <3>2, <3>4, RuleListing DEF Working
  <2> QED
    BY <1>6, <2>1, <2>6, <2>7 DEF upsert_from_license
<1>7. CASE Recompute(i)
  BY <1>1, <1>7, RuleRecompute
<1>8. CASE CommitBatch(i)
  <2>1. PICK x : x = [tx[i] EXCEPT !.pc = "batch"]
    OBVIOUS
  <2>2. x.pc = "batch" /\ x.l = tx[i].l
    BY <1>1, <2>1 DEF Step
  <2>3. tx' = [tx EXCEPT ![i] = x] /\ CommitTables(i) /\ tx[i].pc = "row" /\ UNCHANGED late
    BY <1>1, <1>8, <2>1 DEF CommitBatch, Go
  <2>4. tx[i].l = None
    BY <1>1, <2>3 DEF Aims
  <2> QED
    BY <1>1, <2>2, <2>3, <2>4, RuleEnd
<1>9. CASE finish_run(i)
  <2>1. /\ tx' = [tx EXCEPT ![i] = Done] /\ tx[i].pc = "batch"
        /\ UNCHANGED <<licence, listing, late>>
    BY <1>9 DEF finish_run, tables
  <2>2. Aims(i, Done)
    BY <1>1, <1>2 DEF Aims
  <2> QED
    BY <1>1, <1>2, <2>1, <2>2, RuleTxStep DEF Working
<1>10. ASSUME NEW status, ImportStops(i, status) PROVE RuleInv'
  <2>1. tx' = [tx EXCEPT ![i] = Done] /\ RollBackTables(i) /\ UNCHANGED late
    BY <1>10 DEF ImportStops
  <2> QED
    BY <1>1, <1>2, <2>1, RuleEnd
<1> QED
  BY <1>3, <1>4, <1>5, <1>6, <1>7, <1>8, <1>9, <1>10 DEF ImportStep

(* The re-check and the date.                                                *)
LEMMA RuleNight ==
  ASSUME IInv, RuleInv, Stay, NightStep \/ PassFails \/ DatePasses
  PROVE  RuleInv'
<1>1. /\ Nightly \in Tx /\ Nightly \notin Requests /\ Nightly \notin Imports
      /\ tx[Nightly] \in Step /\ tx \in [Tx -> Step]
  BY StepTypes, Kinds DEF IInv, TypeOK
<1>2. ASSUME NEW x, tx' = [tx EXCEPT ![Nightly] = x], UNCHANGED <<licence, listing, late>>
      PROVE  RuleInv'
  <2>1. Aims(Nightly, x)
    BY <1>1 DEF Aims
  <2> QED
    BY <1>1, <1>2, <2>1, RuleTxStep
<1>3. CASE StartPass
  BY <1>2, <1>3 DEF StartPass, tables
<1>4. CASE NextPage
  <2>1. UNCHANGED <<licence, listing, late>>
    BY <1>4 DEF NextPage, tables
  <2>2. ASSUME NEW last, NEW page,
               tx' = [tx EXCEPT ![Nightly].pc = "row", ![Nightly].todo = page, ![Nightly].after = last]
        PROVE  RuleInv'
    <3>1. PICK x : x = [tx[Nightly] EXCEPT !.pc = "row", !.todo = page, !.after = last]
      OBVIOUS
    <3>2. tx' = [tx EXCEPT ![Nightly] = x]
      BY <2>2, <3>1
    <3> QED
      BY <1>2, <2>1, <3>2
  <2> QED
    BY <1>2, <1>4, <2>1, <2>2 DEF NextPage
<1>5. CASE NextRow
  <2>1. PICK l : tx' = [tx EXCEPT ![Nightly].pc = "facts", ![Nightly].l = l, ![Nightly].todo = @ \ {l}]
    BY <1>5 DEF NextRow
  <2>2. PICK x : x = [tx[Nightly] EXCEPT !.pc = "facts", !.l = l, !.todo = @ \ {l}]
    OBVIOUS
  <2>3. tx' = [tx EXCEPT ![Nightly] = x] /\ UNCHANGED <<licence, listing, late>>
    BY <1>5, <2>1, <2>2 DEF NextRow, tables
  <2> QED
    BY <1>2, <2>3
<1>6. CASE Recompute(Nightly)
  BY <1>1, <1>6, RuleRecompute
<1>7. Idle.l = None /\ Idle.pc = "idle"
  BY DEF Idle
<1>8. CASE CommitPage
  <2>1. PICK x : x = [tx[Nightly] EXCEPT !.pc = "page"]
    OBVIOUS
  <2>2. tx' = [tx EXCEPT ![Nightly] = x] /\ CommitTables(Nightly) /\ UNCHANGED late
    BY <1>1, <1>8, <2>1 DEF CommitPage, Go
  <2> QED
    BY <1>1, <2>2, RuleEnd
<1>9. CASE PassFails
  <2>1. tx' = [tx EXCEPT ![Nightly] = Idle] /\ RollBackTables(Nightly) /\ UNCHANGED late
    BY <1>9 DEF PassFails
  <2> QED
    BY <1>1, <1>7, <2>1, RuleEnd
<1>10. CASE DatePasses
  <2>1. late = FALSE /\ late' = TRUE /\ UNCHANGED <<licence, listing, tx>>
    BY <1>10 DEF DatePasses, tables, IInv, TypeOK
  <2>2. \A b \in BOOLEAN : \A o, c : Right(late, b, o, c) => Right(late', b, o, c)
    BY <2>1, RightLater
  <2>3. \A l \in Listings : listing[l].new.verified \in BOOLEAN
    BY DEF IInv, TypeOK, Cell, Listing
  <2>4. \A t \in Tx : tx[t].badge \in BOOLEAN
    BY DEF IInv, TypeOK, Step
  <2>5. OneImport'
    BY <2>1 DEF RuleInv, OneImport
  <2>6. \A l \in Listings : LicenceOK(l)' /\ HolderOK(l)'
    <3> SUFFICES ASSUME NEW l \in Listings PROVE LicenceOK(l)' /\ HolderOK(l)'
      OBVIOUS
    <3>1. LicenceOK(l) /\ HolderOK(l)
      BY DEF RuleInv
    <3>2. \A c : Right(late, listing[l].new.verified, listing[l].new.owner, c) =>
                   Right(late', listing[l].new.verified, listing[l].new.owner, c)
      BY <2>2, <2>3
    <3>3. LicenceOK(l)'
      BY <2>1, <3>1, <3>2 DEF LicenceOK
    <3>4. HolderOK(l)'
      BY <2>1, <3>1, <3>2 DEF HolderOK
    <3> QED
      BY <3>3, <3>4
  <2>7. \A t \in Tx : Aims(t, tx[t])'
    BY <2>1, <2>2, <2>4 DEF RuleInv, Aims, See
  <2> QED
    BY <2>5, <2>6, <2>7 DEF RuleInv
<1> QED
  BY <1>3, <1>4, <1>5, <1>6, <1>8, <1>9, <1>10 DEF NightStep

(* The rule invariant is kept by every step.                                 *)
LEMMA RuleKept == IInv /\ RuleInv /\ [Next]_vars => RuleInv'
<1> SUFFICES ASSUME IInv, RuleInv, [Next]_vars PROVE RuleInv'
  OBVIOUS
<1>1. Stay
  BY DecisionsStay
<1>2. CASE UNCHANGED vars
  BY <1>2 DEF vars, tables, RuleInv, OneImport, LicenceOK, HolderOK, Aims, See
<1> QED
  BY <1>1, <1>2, RuleRequest, RuleImport, RuleNight DEF Next

(* An approval, and an import once past the row, commits a badge that        *)
(* follows from the facts as it leaves them (claims::open, claims::decide,   *)
(* import::flush), although other transactions change the other half.        *)
THEOREM ChangersBadge == Spec => []ChangersLeaveBadgeRight
<1>1. IInv /\ RuleInv => ChangersLeaveBadgeRight
  <2> SUFFICES ASSUME IInv, RuleInv, NEW t \in Requests \cup Imports, NEW l \in Listings,
                      listing[l].by = t, Rechecked(t, l)
               PROVE  Follows(listing[l].new.verified, listing[l].new.owner /= None, See(t, licence[l]))
    BY DEF ChangersLeaveBadgeRight
  <2>1. LicenceOK(l) /\ HolderOK(l) /\ Aims(t, tx[t])
    BY Kinds DEF RuleInv
  <2>2. CASE t \in Requests
    <3>1. tx[t].pc = "commit" /\ tx[t].verdict = "approved"
      BY <2>2, Kinds DEF Rechecked
    <3>2. See(t, licence[l]) = licence[l].now
      BY <2>1, <2>2, Kinds DEF LicenceOK, See
    <3>3. Right(late, listing[l].new.verified, listing[l].new.owner, See(t, licence[l]))
      BY <2>1, <2>2, <3>1, <3>2 DEF HolderOK
    <3> QED
      BY <3>3, RightIsFollows
  <2>3. CASE t \in Imports
    <3>1. tx[t].pc = "row" /\ tx[t].l = None
      BY <2>1, <2>3 DEF Rechecked, Aims
    <3>2. licence[l].by = t /\ See(t, licence[l]) = licence[l].new
      BY <2>1, <2>3 DEF HolderOK, See
    <3>3. Right(late, listing[l].new.verified, listing[l].new.owner, See(t, licence[l]))
      BY <2>1, <2>3, <3>1, <3>2, Kinds DEF LicenceOK
    <3> QED
      BY <3>3, RightIsFollows
  <2> QED
    BY <2>2, <2>3
<1>2. IInv /\ RuleInv /\ [Next]_vars => (IInv /\ RuleInv)'
  BY InvariantKept, RuleKept
<1>3. Init => IInv /\ RuleInv
  BY InitInvariant, InitRule
<1> QED
  BY <1>1, <1>2, <1>3, PTL DEF Spec

-------------------------------------------------------------------------------
(* What a run has stored, on top of the two invariants above.                *)

Resting == {"idle", "done"}

(* What an import that is at x is to have done of the file of its run y: the *)
(* rows that are neither ahead of it nor in hand are in the register as the  *)
(* import sees it, and no row that it still has to write is written.         *)
Stores(i, x, y) ==
  /\ y.status = "running"
  /\ x.pc = "batch" => x.todo = {}
  /\ \A l \in x.todo : licence[l].by /= i
  /\ \A l \in InFile(y.file) \ (x.rest \cup x.todo) : See(i, licence[l]) = y.file[l]

(* The file of an import under way has not succeeded before.                 *)
StoreInv ==
  /\ \A i \in Imports : tx[i].pc = "idle" <=> run[i].status = "none"
  /\ \A i \in Imports : tx[i].pc \notin Resting =>
       /\ Stores(i, tx[i], run[i])
       /\ \A j \in Imports : ~ (run[j].status = "succeeded" /\ run[j].file = run[i].file)
  /\ FileStored

LEMMA InitStore == Init => StoreInv
<1> SUFFICES ASSUME Init PROVE StoreInv
  OBVIOUS
<1>1. \A i \in Imports : tx[i].pc = "idle" /\ run[i].status = "none"
  BY Kinds DEF Init, Idle, NoRun
<1> QED
  BY <1>1 DEF StoreInv, Resting, FileStored

(* A step that is no import's: only imports write licences.                  *)
LEMMA StoreAside ==
  ASSUME IInv, StoreInv, UNCHANGED run, \A i \in Imports : tx'[i] = tx[i],
         \A l \in Listings : licence'[l] = licence[l]
  PROVE  StoreInv'
<1>1. \A i \in Imports : tx[i].todo \subseteq Listings
  BY Kinds DEF IInv, TypeOK, Step
<1>2. \A f : InFile(f)' = InFile(f) /\ InFile(f) \subseteq Listings
  BY DEF InFile
<1>3. FileStored'
  BY <1>2 DEF StoreInv, FileStored
<1>4. ASSUME NEW i \in Imports, tx[i].pc \notin Resting
      PROVE  Stores(i, tx[i], run[i])'
  <2>1. Stores(i, tx[i], run[i])
    BY <1>4 DEF StoreInv
  <2> QED
    BY <1>1, <1>2, <2>1 DEF Stores, See
<1> QED
  BY <1>3, <1>4 DEF StoreInv

(* A step of the one import that is under way, or begins.  A run of the same *)
(* file that succeeded before would have kept it from beginning.             *)
LEMMA StoreStep ==
  ASSUME IInv, StoreInv, NEW i \in Imports, NEW x, NEW y,
         tx' = [tx EXCEPT ![i] = x], run' = [run EXCEPT ![i] = y],
         \A j \in Imports \ {i} : tx[j].pc \in Resting,
         \A j \in Imports \ {i} : ~ (run[j].status = "succeeded" /\ run[j].file = y.file),
         x.pc /= "idle", y.status /= "none",
         x.pc /= "done" => Stores(i, x, y)',
         y.status = "succeeded" => \A l \in InFile(y.file) : licence'[l].now = y.file[l]
  PROVE  StoreInv'
<1>1. /\ \A j \in Imports : tx'[j] = IF j = i THEN x ELSE tx[j]
      /\ \A j \in Imports : run'[j] = IF j = i THEN y ELSE run[j]
  BY Kinds DEF IInv, TypeOK
<1>2. \A j \in Imports : tx'[j].pc = "idle" <=> run'[j].status = "none"
  BY <1>1 DEF StoreInv
<1>3. \A j \in Imports : tx'[j].pc \notin Resting => j = i
  BY <1>1
<1>4. x.pc /= "done" =>
        \A j \in Imports : ~ (run'[j].status = "succeeded" /\ run'[j].file = run'[i].file)
  BY <1>1 DEF Stores
<1>5. \A f : InFile(f)' = InFile(f)
  BY DEF InFile
<1>6. FileStored'
  <2> SUFFICES ASSUME NEW j \in Imports, run'[j].status = "succeeded",
                      \A k \in Imports : run'[k].status = "none" \/ run'[k].file = run'[j].file,
                      NEW l \in InFile(run'[j].file)
               PROVE  licence'[l].now = run'[j].file[l]
    BY <1>5 DEF FileStored
  <2>1. run'[i].file = run'[j].file
    BY <1>1
  <2>2. j = i
    BY <1>1, <2>1
  <2> QED
    BY <1>1, <2>2
<1> QED
  BY <1>1, <1>2, <1>3, <1>4, <1>6 DEF StoreInv, Resting

(* The steps of an import.                                                   *)
LEMMA StoreImport ==
  ASSUME IInv, RuleInv, StoreInv, NEW i \in Imports,
         ImportStep(i) \/ \E f \in Files : begin_run(i, f)
  PROVE  StoreInv'
<1>1. /\ i \in Tx /\ i \notin Requests /\ tx[i] \in Step /\ Aims(i, tx[i])
      /\ tx[i].todo \subseteq Listings /\ tx \in [Tx -> Step]
  BY Kinds DEF IInv, TypeOK, RuleInv, Step
<1>2. /\ \A f : InFile(f)' = InFile(f) /\ InFile(f) \subseteq Listings
      /\ DOMAIN run = Imports
  BY DEF InFile, IInv, TypeOK
<1>3. Done.pc = "done"
  BY StepTypes DEF Done, Step
<1>4. ASSUME NEW f \in Files, begin_run(i, f) PROVE StoreInv'
  <2>1. PICK x : x = [Idle EXCEPT !.pc = "batch", !.rest = InFile(f)]
    OBVIOUS
  <2>2. x.pc = "batch" /\ x.rest = InFile(f) /\ x.todo = {}
    BY <2>1 DEF Idle
  <2>3. PICK y : y = [file |-> f, status |-> "running"]
    OBVIOUS
  <2>4. tx' = [tx EXCEPT ![i] = x] /\ run' = [run EXCEPT ![i] = y]
    BY <1>4, <2>1, <2>3 DEF begin_run
  <2>5. /\ \A j \in Imports : tx[j].pc \in Resting
        /\ \A j \in Imports : ~ (run[j].status = "succeeded" /\ run[j].file = y.file)
    BY <1>4, <2>3 DEF begin_run, Resting
  <2>6. Stores(i, x, y)'
    BY <1>2, <2>2, <2>3 DEF Stores
  <2>7. y.status = "running"
    BY <2>3
  <2> QED
    BY <2>2, <2>4, <2>5, <2>6, <2>7, StoreStep
<1>5. ASSUME tx[i].pc \notin Resting
      PROVE  /\ \A j \in Imports \ {i} : tx[j].pc \in Resting
             /\ \A j \in Imports \ {i} : ~ (run[j].status = "succeeded" /\ run[j].file = run[i].file)
             /\ Stores(i, tx[i], run[i]) /\ run[i].status = "running"
  BY <1>5 DEF RuleInv, OneImport, StoreInv, Stores, Resting
(* The run's row stays: only what the import has done of its file matters.   *)
<1>6. ASSUME NEW x, tx' = [tx EXCEPT ![i] = x], UNCHANGED run, tx[i].pc \notin Resting,
             x.pc \notin Resting,
             x.pc = "batch" => x.todo = {},
             \A l \in x.todo : licence'[l].by /= i,
             \A l \in InFile(run[i].file) \ (x.rest \cup x.todo) :
               See(i, licence'[l]) = run[i].file[l]
      PROVE  StoreInv'
  <2>1. PICK y : y = run[i]
    OBVIOUS
  <2>2. run' = [run EXCEPT ![i] = y]
    BY <1>6, <2>1 DEF IInv, TypeOK
  <2>3. Stores(i, x, y)'
    BY <1>2, <1>5, <1>6, <2>1 DEF Stores, See
  <2> QED
    BY <1>5, <1>6, <2>1, <2>2, <2>3, StoreStep DEF Resting
<1>7. CASE Gather(i)
  <2>1. PICK batch \in SUBSET tx[i].rest :
          tx' = [tx EXCEPT ![i].pc = "row", ![i].todo = batch, ![i].rest = @ \ batch]
    BY <1>7 DEF Gather
  <2>2. PICK x : x = [tx[i] EXCEPT !.pc = "row", !.todo = batch, !.rest = @ \ batch]
    OBVIOUS
  <2>3. x.pc = "row" /\ x.todo = batch /\ x.rest = tx[i].rest \ batch
    BY <1>1, <2>2 DEF Step
  <2>4. /\ tx' = [tx EXCEPT ![i] = x] /\ tx[i].pc = "batch" /\ licence' = licence
        /\ UNCHANGED run
    BY <1>7, <2>1, <2>2 DEF Gather, tables
  <2>5. tx[i].rest \subseteq Listings
    BY <1>1 DEF Step
  <2>6. \A l \in x.todo : licence'[l].by /= i
    BY <2>1, <2>3, <2>4, <2>5, Kinds DEF RuleInv, LicenceOK
  <2>7. Stores(i, tx[i], run[i]) /\ tx[i].todo = {}
    BY <1>5, <2>4 DEF Resting, Stores
  <2>8. \A l \in InFile(run[i].file) \ (x.rest \cup x.todo) : See(i, licence'[l]) = run[i].file[l]
    BY <2>1, <2>3, <2>4, <2>7 DEF Stores
  <2> QED
    BY <1>6, <2>3, <2>4, <2>6, <2>8 DEF Resting
<1>8. ASSUME NEW l \in Listings, upsert(i, l) PROVE StoreInv'
  <2>1. tx[i].pc = "row" /\ UNCHANGED run /\ l \in tx[i].todo
    BY <1>8 DEF upsert
  <2>2. Stores(i, tx[i], run[i])
    BY <1>5, <2>1 DEF Resting
  <2>3. licence[l].by /= i
    BY <2>1, <2>2 DEF Stores
  <2>4. CASE licence[l].now = run[i].file[l]
    <3>1. PICK x : x = [tx[i] EXCEPT !.todo = @ \ {l}]
      OBVIOUS
    <3>2. x.pc = "row" /\ x.todo = tx[i].todo \ {l} /\ x.rest = tx[i].rest
      BY <1>1, <2>1, <3>1 DEF Step
    <3>3. tx' = [tx EXCEPT ![i] = x] /\ licence' = licence
      BY <1>8, <2>4, <3>1 DEF upsert
    <3>4. See(i, licence[l]) = run[i].file[l]
      BY <2>3, <2>4 DEF See
    <3>5. \A m \in InFile(run[i].file) \ (x.rest \cup x.todo) : See(i, licence'[m]) = run[i].file[m]
      BY <2>2, <3>2, <3>3, <3>4 DEF Stores
    <3>6. \A m \in x.todo : licence'[m].by /= i
      BY <2>2, <3>2, <3>3 DEF Stores
    <3> QED
      BY <1>6, <2>1, <3>2, <3>3, <3>5, <3>6 DEF Resting
  <2>5. CASE licence[l].now /= run[i].file[l]
    <3>1. PICK x : x = [tx[i] EXCEPT !.pc = "project", !.l = l, !.todo = @ \ {l}]
      OBVIOUS
    <3>2. x.pc = "project" /\ x.todo = tx[i].todo \ {l} /\ x.rest = tx[i].rest
      BY <1>1, <3>1 DEF Step
    <3>3. tx' = [tx EXCEPT ![i] = x] /\ licence' = [licence EXCEPT ![l] = Put(i, @, run[i].file[l])]
      BY <1>8, <2>5, <3>1 DEF upsert
    <3>4. /\ licence'[l].by = i /\ licence'[l].new = run[i].file[l]
          /\ \A m \in Listings \ {l} : licence'[m] = licence[m]
      BY <3>3 DEF IInv, TypeOK, Put
    <3>5. See(i, licence'[l]) = run[i].file[l]
      BY <3>4 DEF See
    <3>6. \A m \in InFile(run[i].file) \ (x.rest \cup x.todo) : See(i, licence'[m]) = run[i].file[m]
      BY <1>2, <2>2, <3>2, <3>4, <3>5 DEF Stores
    <3>7. \A m \in x.todo : licence'[m].by /= i
      BY <1>1, <2>2, <3>2, <3>4 DEF Stores
    <3> QED
      BY <1>6, <2>1, <3>2, <3>3, <3>6, <3>7 DEF Resting
  <2> QED
    BY <2>4, <2>5
(* The steps between two rows leave the licences alone.                      *)
<1>9. ASSUME NEW x, tx' = [tx EXCEPT ![i] = x], UNCHANGED <<licence, run>>,
             tx[i].pc \notin Resting, x.pc \notin {"idle", "done", "batch"},
             x.todo = tx[i].todo, x.rest = tx[i].rest
      PROVE  StoreInv'
  BY <1>5, <1>6, <1>9 DEF Stores, Resting
<1>10. CASE upsert_from_license(i)
  <2>1. PICK x : x = [tx[i] EXCEPT !.pc = "facts"]
    OBVIOUS
  <2>2. x.pc = "facts" /\ x.todo = tx[i].todo /\ x.rest = tx[i].rest
    BY <1>1, <2>1 DEF Step
  <2>3. tx' = [tx EXCEPT ![i] = x] /\ UNCHANGED <<licence, run>> /\ tx[i].pc = "project"
    BY <1>1, <1>10, <2>1 DEF upsert_from_license, Go
  <2> QED
    BY <1>9, <2>2, <2>3 DEF Resting
<1>11. CASE ReadFacts(i)
  <2>1. PICK b : tx' = [tx EXCEPT ![i].pc = "badge", ![i].badge = b]
    BY <1>11 DEF ReadFacts
  <2>2. PICK x : x = [tx[i] EXCEPT !.pc = "badge", !.badge = b]
    OBVIOUS
  <2>3. x.pc = "badge" /\ x.todo = tx[i].todo /\ x.rest = tx[i].rest
    BY <1>1, <2>2 DEF Step
  <2>4. tx' = [tx EXCEPT ![i] = x] /\ UNCHANGED <<licence, run>> /\ tx[i].pc = "facts"
    BY <1>11, <2>1, <2>2 DEF ReadFacts, tables
  <2> QED
    BY <1>9, <2>3, <2>4 DEF Resting
<1>12. CASE set_verification(i)
  <2>1. PICK x : x = [tx[i] EXCEPT !.pc = "row", !.l = None, !.badge = FALSE]
    OBVIOUS
  <2>2. x.pc = "row" /\ x.todo = tx[i].todo /\ x.rest = tx[i].rest
    BY <1>1, <2>1 DEF Step
  <2>3. tx' = [tx EXCEPT ![i] = x] /\ UNCHANGED <<licence, run>> /\ tx[i].pc = "badge"
    BY <1>1, <1>12, <2>1 DEF set_verification
  <2> QED
    BY <1>9, <2>2, <2>3 DEF Resting
<1>13. CASE CommitBatch(i)
  <2>1. PICK x : x = [tx[i] EXCEPT !.pc = "batch"]
    OBVIOUS
  <2>2. x.pc = "batch" /\ x.todo = tx[i].todo /\ x.rest = tx[i].rest
    BY <1>1, <2>1 DEF Step
  <2>3. /\ tx' = [tx EXCEPT ![i] = x] /\ CommitTables(i) /\ tx[i].pc = "row" /\ tx[i].todo = {}
        /\ UNCHANGED run
    BY <1>1, <1>13, <2>1 DEF CommitBatch, Go
  <2>4. \A l \in Listings : See(i, licence'[l]) = See(i, licence[l])
    <3>1. \A l \in Listings : Ends(i, licence[l], licence[l].new, licence'[l])
      BY <1>1, <2>3, Ended DEF IInv
    <3> QED
      BY <3>1, Kinds DEF Ends, See
  <2>5. Stores(i, tx[i], run[i])
    BY <1>5, <2>3 DEF Resting
  <2>6. \A l \in InFile(run[i].file) \ (x.rest \cup x.todo) : See(i, licence'[l]) = run[i].file[l]
    BY <1>2, <2>2, <2>4, <2>5 DEF Stores
  <2> QED
    BY <1>6, <2>2, <2>3, <2>6 DEF Resting
<1>14. CASE finish_run(i)
  <2>1. /\ tx' = [tx EXCEPT ![i] = Done] /\ tx[i].pc = "batch" /\ tx[i].rest = {}
        /\ licence' = licence
    BY <1>14 DEF finish_run, tables
  <2>2. PICK y : y = [run[i] EXCEPT !.status = "succeeded"]
    OBVIOUS
  <2>3. y.status = "succeeded" /\ y.file = run[i].file
    BY <2>2 DEF IInv, TypeOK
  <2>4. run' = [run EXCEPT ![i] = y]
    BY <1>14, <2>2 DEF finish_run
  <2>5. Stores(i, tx[i], run[i]) /\ tx[i].todo = {}
    BY <1>5, <2>1 DEF Resting, Stores
  <2>6. \A l \in Listings : licence[l].by /= i
    BY <2>1, Kinds DEF RuleInv, LicenceOK
  <2>7. \A l \in InFile(y.file) : licence'[l].now = y.file[l]
    BY <1>2, <2>1, <2>3, <2>5, <2>6 DEF Stores, See
  <2>8. PICK x : x = Done
    OBVIOUS
  <2>9. tx' = [tx EXCEPT ![i] = x] /\ x.pc = "done"
    BY <1>3, <2>1, <2>8
  <2>10. /\ \A j \in Imports \ {i} : tx[j].pc \in Resting
         /\ \A j \in Imports \ {i} : ~ (run[j].status = "succeeded" /\ run[j].file = y.file)
    BY <1>5, <2>1, <2>3 DEF Resting
  <2> QED
    BY <2>3, <2>4, <2>7, <2>9, <2>10, StoreStep
<1>15. ASSUME NEW status \in {"running", "failed"}, ImportStops(i, status) PROVE StoreInv'
  <2>1. tx' = [tx EXCEPT ![i] = Done] /\ tx[i].pc \notin Resting
    BY <1>15 DEF ImportStops, Resting
  <2>2. PICK y : y = [run[i] EXCEPT !.status = status]
    OBVIOUS
  <2>3. y.status = status /\ y.file = run[i].file
    BY <2>2 DEF IInv, TypeOK
  <2>4. run' = [run EXCEPT ![i] = y]
    BY <1>15, <2>2 DEF ImportStops
  <2>5. PICK x : x = Done
    OBVIOUS
  <2>6. tx' = [tx EXCEPT ![i] = x] /\ x.pc = "done"
    BY <1>3, <2>1, <2>5
  <2>7. /\ \A j \in Imports \ {i} : tx[j].pc \in Resting
        /\ \A j \in Imports \ {i} : ~ (run[j].status = "succeeded" /\ run[j].file = y.file)
    BY <1>5, <2>1, <2>3
  <2> QED
    BY <2>3, <2>4, <2>6, <2>7, StoreStep
<1> QED
  BY <1>4, <1>7, <1>8, <1>10, <1>11, <1>12, <1>13, <1>14, <1>15 DEF ImportStep, Recompute

(* What the runs have stored is kept by every step.                          *)
LEMMA StoreKept == IInv /\ RuleInv /\ StoreInv /\ [Next]_vars => StoreInv'
<1> SUFFICES ASSUME IInv, RuleInv, StoreInv, [Next]_vars PROVE StoreInv'
  OBVIOUS
<1>1. ASSUME NEW t \in Tx, t \notin Imports, CommitTables(t) \/ RollBackTables(t)
      PROVE  \A l \in Listings : licence'[l] = licence[l]
  BY <1>1, Ended, Kinds DEF IInv, Ends, RuleInv, LicenceOK
<1>2. ASSUME NEW t \in Tx, t \notin Imports, tx' = [tx EXCEPT ![t] = tx'[t]], UNCHANGED run,
             \A l \in Listings : licence'[l] = licence[l]
      PROVE  StoreInv'
  <2>1. \A i \in Imports : tx'[i] = tx[i]
    BY <1>2, Kinds DEF IInv, TypeOK
  <2> QED
    BY <1>2, <2>1, StoreAside
<1>3. ASSUME NEW r \in Requests, Begin(r) \/ Proceed(r) PROVE StoreInv'
  <2>1. r \in Tx /\ r \notin Imports /\ tx \in [Tx -> Step]
    BY Kinds DEF IInv, TypeOK
  <2>2. tx' = [tx EXCEPT ![r] = tx'[r]] /\ UNCHANGED run
    BY <1>3, <2>1 DEF Begin, Proceed, Open, Review, InsertClaim, DecideClaim, WithdrawNothing,
         attach_claimant, Recompute, ReadFacts, set_verification, CommitRequest, GiveUp, Go
  <2>3. \/ UNCHANGED licence
        \/ CommitTables(r) \/ RollBackTables(r)
    BY <1>3 DEF Begin, Proceed, Open, Review, InsertClaim, DecideClaim, WithdrawNothing,
         attach_claimant, Recompute, ReadFacts, set_verification, CommitRequest, GiveUp, tables
  <2> QED
    BY <1>1, <1>2, <2>1, <2>2, <2>3
<1>4. CASE NightStep \/ PassFails
  <2>1. Nightly \in Tx /\ Nightly \notin Imports /\ tx \in [Tx -> Step]
    BY Kinds DEF IInv, TypeOK, Tx
  <2>2. tx' = [tx EXCEPT ![Nightly] = tx'[Nightly]] /\ UNCHANGED run
    BY <1>4, <2>1 DEF NightStep, StartPass, NextPage, NextRow, Recompute, ReadFacts,
         set_verification, CommitPage, PassFails, Go
  <2>3. \/ UNCHANGED licence
        \/ CommitTables(Nightly) \/ RollBackTables(Nightly)
    BY <1>4 DEF NightStep, StartPass, NextPage, NextRow, Recompute, ReadFacts,
         set_verification, CommitPage, PassFails, tables
  <2> QED
    BY <1>1, <1>2, <2>1, <2>2, <2>3
<1>5. CASE DatePasses \/ UNCHANGED vars
  BY <1>5, StoreAside DEF DatePasses, vars, tables
<1> QED
  BY <1>3, <1>4, <1>5, StoreImport DEF Next

(* A file that succeeded is in the register row by row, however many runs    *)
(* of it died between two batches before (import_rows, finish_run), unless   *)
(* another file was begun.                                                   *)
THEOREM ImportsComplete == Spec => []FileStored
<1>1. IInv /\ RuleInv /\ StoreInv /\ [Next]_vars => (IInv /\ RuleInv /\ StoreInv)'
  BY InvariantKept, RuleKept, StoreKept
<1>2. Init => IInv /\ RuleInv /\ StoreInv
  BY InitInvariant, InitRule, InitStore
<1>3. StoreInv => FileStored
  BY DEF StoreInv
<1> QED
  BY <1>1, <1>2, <1>3, PTL DEF Spec
===============================================================================
