----------------------------- MODULE AlertsProofs ------------------------------
(***************************************************************************)
(* For any number of users, searches, jobs and passes: a job is announced  *)
(* once, to exactly those it interested, while it is open.                 *)
(*                                                                         *)
(* The invariant follows a job through a batch.  While a batch has it, no  *)
(* other batch does, it is not marked and nobody was told; once the batch  *)
(* has matched it, whom it will tell is whom the job was found to          *)
(* interest; and from the commit on it is marked and out of every queue.   *)
(***************************************************************************)
EXTENDS Alerts, FiniteSetTheorems, TLAPS

(* Somebody has been told of a job.                                          *)
Told(u, j) == \E i \in DOMAIN outbox[u] : j \in outbox[u][i]

(* No two digests of a user have a job in common.                            *)
OneTelling(u) ==
  \A i, k \in DOMAIN outbox[u], j \in Job : j \in outbox[u][i] /\ j \in outbox[u][k] => i = k

ToldExactly(u, j) == Told(u, j) <=> job[j].matched /\ u \in owed[j]

(* Jobs that have been claimed are there, unmarked and nobody else's         *)
(* (claim_unmatched_jobs).                                                   *)
ClaimFine(p) ==
  /\ pass[p].pc = "claim" => pass[p].batches < MaxBatches
  /\ pass[p].pc = "down" => pass[p].batches = 0
  /\ pass[p].pc \in {"down", "claim"} => pass[p].claimed = {}
  /\ \A j \in pass[p].claimed : job[j].status # "absent" /\ ~job[j].matched
  /\ \A q \in Pass \ {p} : pass[p].claimed \cap pass[q].claimed = {}

(* What a batch is about to commit: matches of claimed jobs that are open,   *)
(* for searches that exist, and all of them (matches_for_jobs).              *)
MatchFine(p) ==
  pass[p].pc = "commit" =>
    /\ \A m \in pass[p].matches :
         /\ m \in Search \X pass[p].claimed
         /\ job[m[2]].status = "open"
         /\ search[m[1]].state # "absent" /\ search[m[1]].owner \in User
    /\ \A j \in pass[p].claimed, u \in User :
         u \in owed[j] <=> \E m \in pass[p].matches : m[2] = j /\ search[m[1]].owner = u

(* A job is not marked before it is posted.                                  *)
AbsentFine == \A j \in Job : job[j].status = "absent" => ~job[j].matched

IInv ==
  /\ TypeOK
  /\ AbsentFine
  /\ \A p \in Pass : ClaimFine(p) /\ MatchFine(p)
  /\ \A u \in User : OneTelling(u)
  /\ \A u \in User, j \in Job : ToldExactly(u, j)

-------------------------------------------------------------------------------
LEMMA InitIInv == Init => IInv
<1> SUFFICES ASSUME Init PROVE IInv
  OBVIOUS
<1>1. TypeOK
  BY BoundAssumption DEF Init, TypeOK, SearchRow, JobRow, PassState, Down
<1>2. ASSUME NEW p \in Pass PROVE ClaimFine(p) /\ MatchFine(p)
  BY DEF Init, ClaimFine, MatchFine, Down
<1>3. ASSUME NEW u \in User PROVE OneTelling(u)
  BY DEF Init, OneTelling
<1>4. ASSUME NEW u \in User, NEW j \in Job PROVE ToldExactly(u, j)
  BY DEF Init, ToldExactly, Told
<1>5. AbsentFine
  BY DEF Init, AbsentFine
<1>6. QED
  BY <1>1, <1>2, <1>3, <1>4, <1>5 DEF IInv

(* A search may come, be turned off or go as long as it keeps its owner: what *)
(* a batch has matched it keeps.                                             *)
LEMMA SearchesKeep ==
  ASSUME IInv, search' \in [Search -> SearchRow], verified' \subseteq User, changes' \in 0..MaxChanges,
         \A s \in Search : search[s].state # "absent" =>
           search'[s].state # "absent" /\ search'[s].owner = search[s].owner,
         UNCHANGED <<job, pass, outbox, owed, deaths>>
  PROVE  IInv'
<1>1. TypeOK'
  BY DEF IInv, TypeOK
<1>2. ASSUME NEW p \in Pass PROVE ClaimFine(p)'
  BY DEF IInv, ClaimFine
<1>3. ASSUME NEW p \in Pass PROVE MatchFine(p)'
  <2>1. CASE pass[p].pc # "commit"
    BY <2>1 DEF MatchFine
  <2>2. CASE pass[p].pc = "commit"
    <3>1. \A m \in pass[p].matches :
            /\ m \in Search \X pass[p].claimed /\ job[m[2]].status = "open"
            /\ search[m[1]].state # "absent" /\ search[m[1]].owner \in User
      BY <2>2 DEF IInv, MatchFine
    <3>2. \A m \in pass[p].matches :
            m[1] \in Search /\ search'[m[1]].state # "absent" /\ search'[m[1]].owner = search[m[1]].owner
      BY <3>1
    <3>3. \A j \in pass[p].claimed, u \in User :
            u \in owed[j] <=> \E m \in pass[p].matches : m[2] = j /\ search[m[1]].owner = u
      BY <2>2 DEF IInv, MatchFine
    <3>4. QED
      BY <3>1, <3>2, <3>3 DEF MatchFine
  <2>3. QED
    BY <2>1, <2>2
<1>4. \A u \in User : OneTelling(u)'
  BY DEF IInv, OneTelling
<1>5. \A u \in User, j \in Job : ToldExactly(u, j)'
  BY DEF IInv, ToldExactly, Told
<1>6. AbsentFine'
  BY DEF IInv, AbsentFine
<1>7. QED
  BY <1>1, <1>2, <1>3, <1>4, <1>5, <1>6 DEF IInv

LEMMA UsersKeep ==
  ASSUME IInv,
         \/ \E u \in User : mark_email_verified(u)
         \/ \E s \in Search : create(s) \/ delete(s) \/ set_notify_off(s) \/ \E u \in User : Save(s, u)
  PROVE  IInv'
<1>1. CASE \E u \in User : mark_email_verified(u)
  BY <1>1, BoundAssumption, SearchesKeep DEF mark_email_verified, Change, IInv, TypeOK
<1>2. ASSUME NEW s \in Search, NEW state \in {"saved", "deleted"}, search[s].state # "absent",
             search' = [search EXCEPT ![s].state = state],
             changes' \in 0..MaxChanges, UNCHANGED <<verified, job, pass, outbox, owed, deaths>>
      PROVE  IInv'
  <2>1. search' \in [Search -> SearchRow]
    BY <1>2 DEF IInv, TypeOK, SearchRow
  <2>2. \A t \in Search : search[t].state # "absent" =>
          search'[t].state # "absent" /\ search'[t].owner = search[t].owner
    BY <1>2 DEF IInv, TypeOK, SearchRow
  <2>3. QED
    BY <1>2, <2>1, <2>2, SearchesKeep DEF IInv, TypeOK
<1>3. ASSUME NEW s \in Search, create(s) PROVE IInv'
  BY <1>2, <1>3 DEF create, IInv, TypeOK
<1>4. ASSUME NEW s \in Search, delete(s) PROVE IInv'
  <2>1. changes' \in 0..MaxChanges
    BY <1>4, BoundAssumption DEF delete, Change, IInv, TypeOK
  <2>2. /\ search[s].state # "absent" /\ search' = [search EXCEPT ![s].state = "deleted"]
        /\ UNCHANGED <<verified, job, pass, outbox, owed, deaths>>
    BY <1>4 DEF delete
  <2>3. QED
    BY <1>2, <2>1, <2>2
<1>5. ASSUME NEW s \in Search, set_notify_off(s) PROVE IInv'
  <2>1. search' \in [Search -> SearchRow]
    BY <1>5 DEF set_notify_off, IInv, TypeOK, SearchRow
  <2>2. \A t \in Search : search'[t].state = search[t].state /\ search'[t].owner = search[t].owner
    BY <1>5 DEF set_notify_off, IInv, TypeOK, SearchRow
  <2>3. changes' \in 0..MaxChanges /\ UNCHANGED <<verified, job, pass, outbox, owed, deaths>>
    BY <1>5, BoundAssumption DEF set_notify_off, Change, IInv, TypeOK
  <2>4. QED
    BY <2>1, <2>2, <2>3, SearchesKeep DEF IInv, TypeOK
<1>6. ASSUME NEW s \in Search, NEW u \in User, Save(s, u) PROVE IInv'
  <2>1. search' \in [Search -> SearchRow]
    BY <1>6 DEF Save, IInv, TypeOK, SearchRow
  <2>2. \A t \in Search : search[t].state # "absent" => search'[t] = search[t]
    BY <1>6 DEF Save, IInv, TypeOK
  <2>3. QED
    BY <1>6, <2>1, <2>2, SearchesKeep DEF Save, IInv, TypeOK
<1>7. QED
  BY <1>1, <1>3, <1>4, <1>5, <1>6

-------------------------------------------------------------------------------
(* The board changes only jobs that no batch has.                            *)
LEMMA BoardKeeps ==
  ASSUME IInv, NEW j \in Job, NEW row \in JobRow, job' = [job EXCEPT ![j] = row],
         row.matched = job[j].matched, row.status # "absent", \A p \in Pass : j \notin pass[p].claimed,
         changes' \in 0..MaxChanges, UNCHANGED <<verified, search, pass, outbox, owed, deaths>>
  PROVE  IInv'
<1>1. TypeOK'
  BY DEF IInv, TypeOK
<1>2. \A i \in Job : job'[i].matched = job[i].matched /\ (i # j => job'[i] = job[i])
  BY DEF IInv, TypeOK
<1>3. ASSUME NEW p \in Pass PROVE ClaimFine(p)'
  <2>1. pass[p].claimed \subseteq Job \ {j}
    BY DEF IInv, TypeOK, PassState
  <2>2. QED
    BY <1>2, <2>1 DEF IInv, ClaimFine
<1>4. ASSUME NEW p \in Pass PROVE MatchFine(p)'
  <2>1. CASE pass[p].pc # "commit"
    BY <2>1 DEF MatchFine
  <2>2. CASE pass[p].pc = "commit"
    <3>1. pass[p].claimed \subseteq Job \ {j}
      BY DEF IInv, TypeOK, PassState
    <3>2. \A m \in pass[p].matches :
            /\ m \in Search \X pass[p].claimed /\ job[m[2]].status = "open"
            /\ search[m[1]].state # "absent" /\ search[m[1]].owner \in User
      BY <2>2 DEF IInv, MatchFine
    <3>3. \A m \in pass[p].matches : job'[m[2]] = job[m[2]]
      BY <1>2, <3>1, <3>2
    <3>4. \A i \in pass[p].claimed, u \in User :
            u \in owed[i] <=> \E m \in pass[p].matches : m[2] = i /\ search[m[1]].owner = u
      BY <2>2 DEF IInv, MatchFine
    <3>5. QED
      BY <3>2, <3>3, <3>4 DEF MatchFine
  <2>3. QED
    BY <2>1, <2>2
<1>5. \A u \in User : OneTelling(u)'
  BY DEF IInv, OneTelling
<1>6. \A u \in User, i \in Job : ToldExactly(u, i)'
  BY <1>2 DEF IInv, ToldExactly, Told
<1>7. AbsentFine'
  BY <1>2 DEF IInv, TypeOK, AbsentFine
<1>8. QED
  BY <1>1, <1>3, <1>4, <1>5, <1>6, <1>7 DEF IInv

LEMMA JobsKeep ==
  ASSUME IInv, NEW j \in Job, CloseOrReopen(j) \/ \E u \in Poster : Post(j, u)
  PROVE  IInv'
<1>1. ASSUME CloseOrReopen(j) PROVE IInv'
  <2> DEFINE row == [job[j] EXCEPT !.status = IF @ = "open" THEN "closed" ELSE "open"]
  <2>1. row \in JobRow /\ row.matched = job[j].matched /\ row.status # "absent"
    BY DEF IInv, TypeOK, JobRow
  <2>2. job' = [job EXCEPT ![j] = row]
    BY <1>1 DEF CloseOrReopen
  <2> HIDE DEF row
  <2>3. /\ \A p \in Pass : j \notin pass[p].claimed
        /\ changes' \in 0..MaxChanges /\ UNCHANGED <<verified, search, pass, outbox, owed, deaths>>
    BY <1>1, BoundAssumption DEF CloseOrReopen, Locked, Change, IInv, TypeOK
  <2>4. QED
    BY <2>1, <2>2, <2>3, BoardKeeps
<1>2. ASSUME NEW u \in Poster, Post(j, u) PROVE IInv'
  <2> DEFINE row == [status |-> "open", poster |-> u, matched |-> FALSE]
  <2>1. row \in JobRow /\ row.matched = FALSE /\ row.status # "absent"
    BY DEF JobRow
  <2>2. job' = [job EXCEPT ![j] = row] /\ UNCHANGED <<verified, search, pass, outbox, owed, changes, deaths>>
    BY <1>2 DEF Post
  <2> HIDE DEF row
  <2>3. job[j].status = "absent"
    BY <1>2, JobAssumption DEF Post
  <2>4. \A p \in Pass : j \notin pass[p].claimed
    BY <2>3 DEF IInv, ClaimFine
  <2>5. row.matched = job[j].matched
    BY <2>1, <2>3 DEF IInv, AbsentFine, TypeOK, JobRow
  <2>6. changes' \in 0..MaxChanges
    BY <2>2 DEF IInv, TypeOK
  <2>7. QED
    BY <2>1, <2>2, <2>4, <2>5, <2>6, BoardKeeps
<1>3. QED
  BY <1>1, <1>2

-------------------------------------------------------------------------------
(* A pass that starts, dies or finds nothing has nothing.                    *)
LEMMA Emptied ==
  ASSUME IInv, NEW p \in Pass, NEW next \in PassState, pass' = [pass EXCEPT ![p] = next],
         next.claimed = {}, next.pc \in {"down", "claim"}, next.pc = "claim" => next.batches < MaxBatches,
         next.pc = "down" => next.batches = 0,
         deaths' \in 0..MaxDeaths, UNCHANGED <<verified, search, job, outbox, owed, changes>>
  PROVE  IInv'
<1>1. TypeOK'
  BY DEF IInv, TypeOK
<1>2. pass'[p] = next /\ \A q \in Pass \ {p} : pass'[q] = pass[q]
  BY DEF IInv, TypeOK
<1>3. ASSUME NEW q \in Pass PROVE ClaimFine(q)'
  BY <1>2 DEF IInv, ClaimFine
<1>4. ASSUME NEW q \in Pass PROVE MatchFine(q)'
  BY <1>2 DEF IInv, MatchFine
<1>5. \A u \in User : OneTelling(u)'
  BY DEF IInv, OneTelling
<1>6. \A u \in User, j \in Job : ToldExactly(u, j)'
  BY DEF IInv, ToldExactly, Told
<1>7. AbsentFine'
  BY DEF IInv, AbsentFine
<1>8. QED
  BY <1>1, <1>3, <1>4, <1>5, <1>6, <1>7 DEF IInv

LEMMA StartsAndDeathsKeep ==
  ASSUME IInv, NEW p \in Pass, Start(p) \/ Die(p)
  PROVE  IInv'
<1>1. CASE Start(p)
  <2> DEFINE next == [pass[p] EXCEPT !.pc = "claim"]
  <2>1. pass[p] \in PassState /\ pass[p].pc = "down" /\ pass[p].claimed = {} /\ pass[p].batches = 0
    BY <1>1 DEF Start, IInv, TypeOK, ClaimFine
  <2>2. next \in PassState /\ next.claimed = {} /\ next.pc = "claim" /\ next.batches < MaxBatches
    BY <2>1, BoundAssumption DEF PassState
  <2>3. QED
    BY <1>1, <2>2, Emptied DEF Start, IInv, TypeOK
<1>2. CASE Die(p)
  <2>1. Down \in PassState /\ Down.claimed = {} /\ Down.pc = "down" /\ Down.batches = 0
    BY BoundAssumption DEF Down, PassState
  <2>2. deaths' \in 0..MaxDeaths
    BY <1>2, BoundAssumption DEF Die, IInv, TypeOK
  <2>3. QED
    BY <1>2, <2>1, <2>2, Emptied DEF Die
<1>3. QED
  BY <1>1, <1>2

(* SKIP LOCKED: what a batch claims no other has, and it is not marked.      *)
LEMMA ClaimKeeps ==
  ASSUME IInv, NEW p \in Pass, claim_unmatched_jobs(p)
  PROVE  IInv'
<1> DEFINE claimed == Oldest(Unmatched(p))
<1>1. claimed \subseteq Job /\ \A j \in claimed : job[j].status # "absent" /\ ~job[j].matched /\ ~Locked(j)
  BY DEF Oldest, Unmatched
<1>2. pass[p] \in PassState /\ pass[p].pc = "claim" /\ pass[p].batches < MaxBatches
  BY DEF claim_unmatched_jobs, IInv, TypeOK, ClaimFine
<1>3. CASE claimed = {}
  <2>1. Down \in PassState /\ Down.claimed = {} /\ Down.pc = "down" /\ Down.batches = 0
    BY BoundAssumption DEF Down, PassState
  <2>2. pass' = [pass EXCEPT ![p] = Down]
    BY <1>3 DEF claim_unmatched_jobs
  <2>3. QED
    BY <2>1, <2>2, Emptied DEF claim_unmatched_jobs, IInv, TypeOK
<1>4. CASE claimed # {}
  <2> DEFINE next == [pc |-> "match", batches |-> pass[p].batches + 1, claimed |-> claimed, matches |-> {}]
  <2>1. pass' = [pass EXCEPT ![p] = next] /\ UNCHANGED <<verified, search, job, outbox, owed, changes, deaths>>
    BY <1>4 DEF claim_unmatched_jobs
  <2>2. pass[p].batches + 1 \in 0..MaxBatches
    BY <1>2, BoundAssumption DEF PassState
  <2> HIDE DEF claimed
  <2>3. next \in PassState /\ next.pc = "match" /\ next.claimed = claimed
    BY <1>1, <2>2 DEF PassState
  <2> HIDE DEF next
  <2>4. TypeOK'
    BY <2>1, <2>3 DEF IInv, TypeOK
  <2>5. pass'[p] = next /\ \A q \in Pass \ {p} : pass'[q] = pass[q]
    BY <2>1 DEF IInv, TypeOK
  <2>6. \A q \in Pass : claimed \cap pass[q].claimed = {}
    BY <1>1 DEF Locked
  <2>7. ASSUME NEW q \in Pass PROVE ClaimFine(q)'
    <3>1. CASE q = p
      BY <1>1, <2>1, <2>3, <2>5, <2>6, <3>1 DEF ClaimFine
    <3>2. CASE q # p
      BY <2>1, <2>3, <2>5, <2>6, <3>2 DEF IInv, ClaimFine
    <3>3. QED
      BY <3>1, <3>2
  <2>8. ASSUME NEW q \in Pass PROVE MatchFine(q)'
    BY <2>1, <2>3, <2>5 DEF IInv, MatchFine
  <2>9. \A u \in User : OneTelling(u)'
    BY <2>1 DEF IInv, OneTelling
  <2>10. \A u \in User, j \in Job : ToldExactly(u, j)'
    BY <2>1 DEF IInv, ToldExactly, Told
  <2>11. AbsentFine'
    BY <2>1 DEF IInv, AbsentFine
  <2>12. QED
    BY <2>4, <2>7, <2>8, <2>9, <2>10, <2>11 DEF IInv
<1>5. QED
  BY <1>3, <1>4

(* The join finds exactly those whom the job interests.                      *)
LEMMA MatchKeeps ==
  ASSUME IInv, NEW p \in Pass, matches_for_jobs(p)
  PROVE  IInv'
<1> DEFINE claimed == pass[p].claimed
           matches == {m \in Search \X claimed : Alerts(m[1], m[2])}
           next == [pass[p] EXCEPT !.pc = "commit", !.matches = matches]
<1>1. pass[p] \in PassState /\ pass[p].pc = "match" /\ claimed \subseteq Job
  BY DEF matches_for_jobs, IInv, TypeOK, PassState
<1>2. pass' = [pass EXCEPT ![p] = next] /\ UNCHANGED <<verified, search, job, outbox, changes, deaths>>
  BY DEF matches_for_jobs
<1>3. matches \in SUBSET (Search \X Job)
  BY <1>1
<1>4. \A m \in matches : m \in Search \X claimed /\ Alerts(m[1], m[2])
  OBVIOUS
<1>5. ASSUME NEW j \in claimed, NEW u \in User
      PROVE  u \in owed'[j] <=> \E m \in matches : m[2] = j /\ search[m[1]].owner = u
  <2>1. j \in Job
    BY <1>1
  <2>2. u \in owed'[j] <=> /\ job[j].status = "open" /\ u \in verified /\ u # job[j].poster
                           /\ \E s \in SavedBy(u) : search[s].notify /\ j \in Wanted[s]
    BY <2>1 DEF matches_for_jobs
  <2>3. ASSUME u \in owed'[j] PROVE \E m \in matches : m[2] = j /\ search[m[1]].owner = u
    <3>1. PICK s \in Search : /\ search[s].state = "saved" /\ search[s].owner = u
                              /\ search[s].notify /\ j \in Wanted[s]
      BY <2>2, <2>3 DEF SavedBy
    <3>2. Alerts(s, j)
      BY <2>2, <2>3, <3>1 DEF Alerts
    <3>3. <<s, j>> \in matches
      BY <3>2
    <3>4. QED
      BY <3>1, <3>3
  <2>4. ASSUME NEW m \in matches, m[2] = j, search[m[1]].owner = u PROVE u \in owed'[j]
    <3>1. m[1] \in Search /\ Alerts(m[1], j)
      BY <1>4, <2>4
    <3>2. m[1] \in SavedBy(u) /\ search[m[1]].notify /\ j \in Wanted[m[1]] /\ u \in verified
          /\ job[j].status = "open" /\ job[j].poster # u
      BY <2>4, <3>1 DEF Alerts, SavedBy
    <3>3. QED
      BY <2>2, <3>2
  <2>5. QED
    BY <2>3, <2>4
<1>6. \A j \in Job \ claimed : owed'[j] = owed[j]
  BY DEF matches_for_jobs
<1>7. owed' \in [Job -> SUBSET User]
  BY DEF matches_for_jobs, IInv, TypeOK
<1>8. \A m \in matches : /\ job[m[2]].status = "open"
                         /\ search[m[1]].state # "absent" /\ search[m[1]].owner \in User
  BY <1>4 DEF Alerts, IInv, TypeOK
<1> HIDE DEF matches
<1>9. next \in PassState /\ next.pc = "commit" /\ next.claimed = claimed /\ next.matches = matches
  BY <1>1, <1>3 DEF PassState
<1> HIDE DEF next
<1>10. TypeOK'
  BY <1>2, <1>7, <1>9 DEF IInv, TypeOK
<1>11. pass'[p] = next /\ \A q \in Pass \ {p} : pass'[q] = pass[q]
  BY <1>2 DEF IInv, TypeOK
<1>12. ASSUME NEW q \in Pass PROVE ClaimFine(q)'
  <2>1. ClaimFine(q) /\ ClaimFine(p)
    BY DEF IInv
  <2>2. \A v \in Pass : pass'[v].claimed = pass[v].claimed
    BY <1>9, <1>11
  <2>3. pass'[q].pc \in {"down", "claim"} => pass'[q] = pass[q]
    BY <1>9, <1>11
  <2>4. QED
    BY <1>2, <2>1, <2>2, <2>3 DEF ClaimFine
<1>13. ASSUME NEW q \in Pass PROVE MatchFine(q)'
  <2>1. CASE q = p
    BY <1>2, <1>4, <1>5, <1>8, <1>9, <1>11, <2>1 DEF MatchFine
  <2>2. CASE q # p
    <3>1. pass'[q] = pass[q] /\ MatchFine(q) /\ pass[q].claimed \subseteq Job \ claimed
      BY <1>11, <2>2 DEF IInv, TypeOK, PassState, ClaimFine
    <3>2. \A j \in pass[q].claimed : owed'[j] = owed[j]
      BY <1>6, <3>1
    <3>3. QED
      BY <1>2, <3>1, <3>2 DEF MatchFine
  <2>3. QED
    BY <2>1, <2>2
<1>14. \A u \in User : OneTelling(u)'
  BY <1>2 DEF IInv, OneTelling
<1>15. ASSUME NEW u \in User, NEW j \in Job PROVE ToldExactly(u, j)'
  <2>1. j \in claimed => ~job[j].matched
    BY DEF IInv, ClaimFine
  <2>2. QED
    BY <1>2, <1>6, <2>1 DEF IInv, ToldExactly, Told
<1>16. AbsentFine'
  BY <1>2 DEF IInv, AbsentFine
<1>17. QED
  BY <1>10, <1>12, <1>13, <1>14, <1>15, <1>16 DEF IInv

-------------------------------------------------------------------------------
(* A digest is the claimed jobs that are owed to the user.                   *)
LEMMA DigestOwed ==
  ASSUME IInv, NEW p \in Pass, pass[p].pc = "commit", NEW u \in User
  PROVE  /\ Digest(u, pass[p].matches) \subseteq pass[p].claimed
         /\ pass[p].claimed \subseteq Job
         /\ \A j \in pass[p].claimed : j \in Digest(u, pass[p].matches) <=> u \in owed[j]
         /\ \A j \in Digest(u, pass[p].matches) : job[j].status = "open"
<1>1. \A j : j \in Digest(u, pass[p].matches) <=>
               \E m \in pass[p].matches : m[2] = j /\ search[m[1]].owner = u
  BY DEF Digest
<1>2. \A m \in pass[p].matches : m[2] \in pass[p].claimed /\ job[m[2]].status = "open"
  BY DEF IInv, MatchFine
<1>3. \A j \in pass[p].claimed :
        u \in owed[j] <=> \E m \in pass[p].matches : m[2] = j /\ search[m[1]].owner = u
  BY DEF IInv, MatchFine
<1>4. pass[p].claimed \subseteq Job
  BY DEF IInv, TypeOK, PassState
<1>5. QED
  BY <1>1, <1>2, <1>3, <1>4

(* The commit: those it tells were not told before, and the jobs are marked. *)
LEMMA RunBatchKeeps ==
  ASSUME IInv, NEW p \in Pass, run_batch(p)
  PROVE  IInv'
<1> DEFINE claimed == pass[p].claimed
<1>1. pass[p] \in PassState /\ pass[p].pc = "commit" /\ claimed \subseteq Job
  BY DEF run_batch, IInv, TypeOK, PassState
<1>2. PICK next \in PassState :
        /\ pass' = [pass EXCEPT ![p] = next]
        /\ next.claimed = {} /\ next.pc \in {"down", "claim"} /\ (next.pc = "claim" => next.batches < MaxBatches)
        /\ next.pc = "down" => next.batches = 0
  <2> DEFINE again == [Down EXCEPT !.pc = "claim", !.batches = pass[p].batches]
  <2>1. Down \in PassState /\ Down.claimed = {} /\ Down.pc = "down" /\ Down.batches = 0
    BY BoundAssumption DEF Down, PassState
  <2>2. again \in PassState /\ again.claimed = {} /\ again.pc = "claim" /\ again.batches = pass[p].batches
    BY <1>1 DEF Down, PassState
  <2>3. \/ pass' = [pass EXCEPT ![p] = Down]
        \/ pass' = [pass EXCEPT ![p] = again] /\ pass[p].batches < MaxBatches
    BY DEF run_batch
  <2> HIDE DEF again
  <2>4. QED
    BY <2>1, <2>2, <2>3
<1>3. UNCHANGED <<verified, search, owed, changes, deaths>>
  BY DEF run_batch
<1>4. ASSUME NEW j \in Job
      PROVE  /\ job'[j] \in JobRow /\ job'[j].status = job[j].status
             /\ job'[j].matched = (job[j].matched \/ j \in claimed)
             /\ j \notin claimed => job'[j] = job[j]
  BY DEF run_batch, Considered, IInv, TypeOK, JobRow
<1>5. pass'[p] = next /\ \A q \in Pass \ {p} : pass'[q] = pass[q]
  BY <1>2 DEF IInv, TypeOK
<1>6. ASSUME NEW u \in User
      PROVE  /\ outbox'[u] \in Seq(SUBSET Job)
             /\ OneTelling(u)'
             /\ \A j \in Job : ToldExactly(u, j)'
  <2> DEFINE digest == Digest(u, pass[p].matches)
  <2>1. /\ digest \subseteq claimed /\ \A j \in claimed : j \in digest <=> u \in owed[j]
    BY <1>1, DigestOwed
  <2>2. outbox[u] \in Seq(SUBSET Job) /\ OneTelling(u) /\ \A j \in Job : ToldExactly(u, j)
    BY DEF IInv, TypeOK
  <2>3. \A j \in claimed : ~job[j].matched
    BY DEF IInv, ClaimFine
  <2>4. \A i \in DOMAIN outbox[u], j \in claimed : j \notin outbox[u][i]
    BY <1>1, <2>2, <2>3 DEF ToldExactly, Told
  <2>5. outbox'[u] = IF digest = {} THEN outbox[u] ELSE Append(outbox[u], digest)
    BY DEF run_batch
  <2> HIDE DEF digest
  <2>6. CASE digest = {}
    <3>1. outbox'[u] = outbox[u]
      BY <2>5, <2>6
    <3>2. OneTelling(u)'
      BY <2>2, <3>1 DEF OneTelling
    <3>3. \A j \in Job : ToldExactly(u, j)'
      BY <1>1, <1>3, <1>4, <2>1, <2>2, <2>6, <3>1, <2>4 DEF ToldExactly, Told
    <3>4. QED
      BY <2>2, <3>1, <3>2, <3>3
  <2>7. CASE digest # {}
    <3> DEFINE n == Len(outbox[u]) + 1
    <3>1. outbox'[u] \in Seq(SUBSET Job) /\ DOMAIN outbox'[u] = 1..n
      BY <1>1, <2>1, <2>2, <2>5, <2>7
    <3>2. outbox'[u][n] = digest /\ n \notin DOMAIN outbox[u] /\ n \in 1..n
      BY <2>2, <2>5, <2>7
    <3>3. \A i \in DOMAIN outbox'[u] : i # n => i \in DOMAIN outbox[u] /\ outbox'[u][i] = outbox[u][i]
      BY <2>2, <2>5, <2>7, <3>1
    <3>4. \A i \in DOMAIN outbox[u] : i \in DOMAIN outbox'[u] /\ outbox'[u][i] = outbox[u][i]
      BY <2>2, <2>5, <2>7, <3>1
    <3> HIDE DEF n
    <3>5. OneTelling(u)'
      BY <2>1, <2>2, <2>4, <3>1, <3>2, <3>3 DEF OneTelling
    <3>6. \A j \in Job : Told(u, j)' <=> Told(u, j) \/ j \in digest
      BY <3>1, <3>2, <3>3, <3>4 DEF Told
    <3>7. \A j \in Job : ToldExactly(u, j)'
      BY <1>3, <1>4, <2>1, <2>2, <2>3, <3>6 DEF ToldExactly
    <3>8. QED
      BY <3>1, <3>5, <3>7
  <2>8. QED
    BY <2>6, <2>7
<1>7. TypeOK'
  <2>1. outbox' \in [User -> Seq(SUBSET Job)]
    BY <1>6 DEF run_batch
  <2>2. job' \in [Job -> JobRow]
    BY <1>4 DEF run_batch
  <2>3. QED
    BY <1>2, <1>3, <2>1, <2>2 DEF IInv, TypeOK
<1>8. ASSUME NEW q \in Pass PROVE ClaimFine(q)'
  <2>1. CASE q = p
    BY <1>2, <1>5, <2>1 DEF ClaimFine
  <2>2. CASE q # p
    <3>1. pass'[q] = pass[q] /\ ClaimFine(q) /\ pass[q].claimed \subseteq Job \ claimed
      BY <1>5, <2>2 DEF IInv, TypeOK, PassState, ClaimFine
    <3>2. \A j \in pass[q].claimed : job'[j] = job[j]
      BY <1>4, <3>1
    <3>3. QED
      BY <1>2, <1>5, <3>1, <3>2 DEF ClaimFine
  <2>3. QED
    BY <2>1, <2>2
<1>9. ASSUME NEW q \in Pass PROVE MatchFine(q)'
  <2>1. CASE q = p
    BY <1>2, <1>5, <2>1 DEF MatchFine
  <2>2. CASE q # p
    <3>1. pass'[q] = pass[q] /\ MatchFine(q) /\ pass[q].claimed \subseteq Job
      BY <1>5, <2>2 DEF IInv, TypeOK, PassState
    <3>2. \A j \in Job : job'[j].status = job[j].status
      BY <1>4
    <3>3. QED
      BY <1>3, <3>1, <3>2 DEF MatchFine
  <2>3. QED
    BY <2>1, <2>2
<1>10. AbsentFine'
  <2>1. \A j \in claimed : job[j].status # "absent"
    BY DEF IInv, ClaimFine
  <2>2. QED
    BY <1>4, <2>1 DEF IInv, AbsentFine
<1>11. QED
  BY <1>6, <1>7, <1>8, <1>9, <1>10 DEF IInv

-------------------------------------------------------------------------------
LEMMA NextIInv == IInv /\ [Next]_vars => IInv'
<1> SUFFICES ASSUME IInv, [Next]_vars PROVE IInv'
  OBVIOUS
<1>1. ASSUME \/ \E u \in User : mark_email_verified(u)
             \/ \E s \in Search : create(s) \/ delete(s) \/ set_notify_off(s) \/ \E u \in User : Save(s, u)
      PROVE  IInv'
  BY <1>1, UsersKeep
<1>2. ASSUME NEW j \in Job, CloseOrReopen(j) \/ \E u \in Poster : Post(j, u) PROVE IInv'
  BY <1>2, JobsKeep
<1>3. ASSUME NEW p \in Pass, Start(p) \/ Step(p) \/ Die(p) PROVE IInv'
  BY <1>3, StartsAndDeathsKeep, ClaimKeeps, MatchKeeps, RunBatchKeeps DEF Step
<1>4. CASE UNCHANGED vars
  <2>1. TypeOK'
    BY <1>4 DEF vars, IInv, TypeOK
  <2>2. \A p \in Pass : ClaimFine(p)' /\ MatchFine(p)'
    BY <1>4 DEF vars, IInv, ClaimFine, MatchFine
  <2>3. (\A u \in User : OneTelling(u)') /\ \A u \in User, j \in Job : ToldExactly(u, j)'
    BY <1>4 DEF vars, IInv, OneTelling, ToldExactly, Told
  <2>4. AbsentFine'
    BY <1>4 DEF vars, IInv, AbsentFine
  <2>5. QED
    BY <2>1, <2>2, <2>3, <2>4 DEF IInv
<1>5. QED
  BY <1>1, <1>2, <1>3, <1>4 DEF Next

LEMMA Invariance == Spec => []IInv
BY InitIInv, NextIInv, PTL DEF Spec

-------------------------------------------------------------------------------
(* The results                                                               *)

(* The searches, the jobs, the passes and the outbox keep their types        *)
(* (saved_searches.rs, job_alerts.rs).                                       *)
THEOREM TypeCorrect == Spec => []TypeOK
<1>1. IInv => TypeOK
  BY DEF IInv
<1>2. QED
  BY <1>1, Invariance, PTL

(* However many passes overlap or die, no two digests tell a user of one job *)
(* (claim_unmatched_jobs, run_batch).                                        *)
THEOREM NothingAlertsTwice == Spec => []ToldOnce
<1>1. IInv => ToldOnce
  <2> SUFFICES ASSUME IInv, NEW u \in User, NEW j \in Job
               PROVE  Cardinality(Tellings(u, j)) <= 1
    BY DEF ToldOnce
  <2>1. \A i, k \in Tellings(u, j) : i = k
    BY DEF IInv, OneTelling, Tellings
  <2>2. CASE Tellings(u, j) = {}
    BY <2>2, FS_EmptySet
  <2>3. CASE Tellings(u, j) # {}
    <3>1. PICK i : i \in Tellings(u, j)
      BY <2>3
    <3>2. Tellings(u, j) = {i}
      BY <2>1, <3>1
    <3>3. Cardinality({i}) = 1
      BY FS_Singleton
    <3>4. QED
      BY <3>2, <3>3
  <2>4. QED
    BY <2>2, <2>3
<1>2. QED
  BY <1>1, Invariance, PTL

(* A job that was considered has been told to exactly those it interested,   *)
(* and any other to nobody (matches_for_jobs, run_batch).                    *)
THEOREM TellsWhomItOwes == Spec => []ToldWhoWasOwed
<1>1. IInv => ToldWhoWasOwed
  <2> SUFFICES ASSUME IInv, NEW j \in Job
               PROVE  {u \in User : Tellings(u, j) # {}} = IF job[j].matched THEN owed[j] ELSE {}
    BY DEF ToldWhoWasOwed
  <2>1. \A u \in User : Tellings(u, j) # {} <=> job[j].matched /\ u \in owed[j]
    BY DEF IInv, ToldExactly, Told, Tellings
  <2>2. owed[j] \subseteq User
    BY DEF IInv, TypeOK
  <2>3. QED
    BY <2>1, <2>2
<1>2. QED
  BY <1>1, Invariance, PTL

(* The row locks of a batch keep a job open from its match to the commit     *)
(* (claim_unmatched_jobs, run_batch).                                        *)
THEOREM AnnouncesOpenJobs == Spec => OnlyOpenAnnounced
<1>1. IInv /\ [Next]_vars =>
        [\A u \in User : outbox'[u] # outbox[u] => \A j \in Last(outbox'[u]) : job[j].status = "open"]_vars
  <2> SUFFICES ASSUME IInv, Next, NEW u \in User, outbox'[u] # outbox[u], NEW j \in Last(outbox'[u])
               PROVE  job[j].status = "open"
    OBVIOUS
  <2>1. PICK p \in Pass : run_batch(p)
    BY DEF Next, Step, mark_email_verified, create, delete, set_notify_off, Save, CloseOrReopen, Post, Start,
           Die, claim_unmatched_jobs, matches_for_jobs
  <2> DEFINE digest == Digest(u, pass[p].matches)
  <2>2. outbox'[u] = Append(outbox[u], digest) /\ outbox[u] \in Seq(SUBSET Job)
    BY <2>1 DEF run_batch, IInv, TypeOK
  <2>3. digest \subseteq Job /\ \A i \in digest : job[i].status = "open"
    BY <2>1, DigestOwed DEF run_batch
  <2> HIDE DEF digest
  <2>4. Last(Append(outbox[u], digest)) = digest
    BY <2>2, <2>3 DEF Last
  <2>5. QED
    BY <2>2, <2>3, <2>4
<1>2. QED
  BY <1>1, Invariance, PTL DEF Spec, OnlyOpenAnnounced
===============================================================================
