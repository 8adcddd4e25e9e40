-------------------------------- MODULE Photos ---------------------------------
(***************************************************************************)
(* A job's life and its photos (crates/cm-domain/src/jobs.rs), the work    *)
(* photos and the profile photo of a listing (cm-domain/src/contractors.rs), *)
(* and the bucket that holds the bytes (crates/cm-storage).                *)
(*                                                                         *)
(* The rows say what is shown, the bucket holds the objects, and no        *)
(* transaction spans both: an upload writes the object before the row, a   *)
(* removal the row before the object, and a request may fail or die        *)
(* between.  There is one job and one listing, since no operation touches  *)
(* two.  Every request is its owner's: for anyone else a handler answers   *)
(* 404 before it does anything.  Rate limits, image normalisation and the  *)
(* audit records are left out.                                             *)
(***************************************************************************)
EXTENDS Integers, FiniteSets

CONSTANTS
  Request,   \* requests; one that uploads has its own id as object key
  None,
  MaxPhotos, \* MAX_PER_JOB and MAX_PER_CONTRACTOR
  MaxFaults  \* bound: failed puts, deletes and transactions, and deaths

ASSUME NoneAssumption == None \notin Request
ASSUME BoundAssumption == MaxPhotos \in Nat /\ MaxFaults \in Nat

VARIABLES
  status,   \* jobs.status
  photo,    \* job_photos and contractor_photos, by id
  profile,  \* contractors.photo_storage_key
  bucket,   \* the keys that have an object
  request,  \* the requests and where they are
  locked,   \* the request whose transaction holds the job's row
  logged,   \* ghost: keys the log names as orphaned
  lost,     \* ghost: keys whose request died or never heard of its put
  removed,  \* ghost: photos their owner removed
  faults    \* how many faults there have been

vars == <<status, photo, profile, bucket, request, locked, logged, lost, removed, faults>>

Album == {"job", "work"}
NoRow == [album |-> "none", position |-> 0]
PhotoRow == [album : Album, position : Nat] \cup {NoRow}

Op == {"none", "attach", "remove", "cancel", "set_photo"}
RequestState ==
  [op    : Op,
   pc    : {"idle", "put", "position", "insert", "delete_rows", "repoint", "delete", "done", "failed"},
   album : Album,
   slot  : Nat,            \* the position the INSERT computed
   keys  : SUBSET Request] \* the objects it is going to delete

TypeOK ==
  /\ status \in {"absent", "open", "closed", "cancelled"}
  /\ photo \in [Request -> PhotoRow]
  /\ profile \in Request \cup {None}
  /\ request \in [Request -> RequestState]
  /\ locked \in Request \cup {None}
  /\ bucket \subseteq Request /\ logged \subseteq Request /\ lost \subseteq Request
  /\ removed \subseteq Request
  /\ faults \in 0..MaxFaults

Init ==
  /\ status = "absent"
  /\ photo = [r \in Request |-> NoRow]
  /\ profile = None
  /\ bucket = {} /\ logged = {} /\ lost = {} /\ removed = {}
  /\ request = [r \in Request |-> [op |-> "none", pc |-> "idle", album |-> "job", slot |-> 0, keys |-> {}]]
  /\ locked = None
  /\ faults = 0

In(a) == {p \in Request : photo[p].album = a}
Idle(r) == request[r].pc = "idle"
Done(r) == request' = [request EXCEPT ![r].pc = "done"]
Fails(r) == request' = [request EXCEPT ![r].pc = "failed"]
Fault == faults < MaxFaults /\ faults' = faults + 1

-------------------------------------------------------------------------------
(* The job.                                                                  *)

post(r) ==
  /\ Idle(r) /\ status = "absent"
  /\ status' = "open" /\ Done(r)
  /\ UNCHANGED <<photo, profile, bucket, locked, logged, lost, removed, faults>>

(* close with a status of closed takes nothing away.                         *)
close(r) ==
  /\ Idle(r) /\ locked = None /\ status # "absent"
  /\ status' = IF status = "open" THEN "closed" ELSE status
  /\ Done(r)
  /\ UNCHANGED <<photo, profile, bucket, locked, logged, lost, removed, faults>>

\* Mutant: whatever is not open can be reopened.
ReopenNotOpen(r) ==
  /\ Idle(r) /\ locked = None /\ status # "absent"
  /\ status' = "open" /\ Done(r)
  /\ UNCHANGED <<photo, profile, bucket, locked, logged, lost, removed, faults>>
reopen(r) ==
  /\ Idle(r) /\ locked = None /\ status # "absent"
  /\ status' = IF status = "closed" THEN "open" ELSE status
  /\ Done(r)
  /\ UNCHANGED <<photo, profile, bucket, locked, logged, lost, removed, faults>>

(* Cancelling: the row is updated and stays locked, and the keys are read.   *)
CancelKeys(r) ==
  /\ Idle(r) /\ locked = None /\ status # "absent"
  /\ IF status = "open"
     THEN /\ request' = [request EXCEPT ![r] = [@ EXCEPT !.op = "cancel", !.pc = "delete_rows", !.keys = In("job")]]
          /\ locked' = r
     ELSE Done(r) /\ UNCHANGED locked
  /\ UNCHANGED <<status, photo, profile, bucket, logged, lost, removed, faults>>

(* The rows are deleted, those that came since the keys were read too, and   *)
(* the transaction commits.                                                  *)
CancelRows(r) ==
  /\ request[r].pc = "delete_rows"
  /\ status' = "cancelled"
  /\ photo' = [p \in Request |-> IF photo[p].album = "job" THEN NoRow ELSE photo[p]]
  /\ request' = [request EXCEPT ![r].pc = "delete"]
  /\ locked' = None
  /\ UNCHANGED <<profile, bucket, logged, lost, removed, faults>>

(* A statement of the transaction fails: nothing has happened.               *)
CancelFails(r) ==
  /\ request[r].pc = "delete_rows" /\ Fault
  /\ Fails(r) /\ locked' = None
  /\ UNCHANGED <<status, photo, profile, bucket, logged, lost, removed>>

-------------------------------------------------------------------------------
(* Photos of the job and of the work: attach_photo and add_work_photo.       *)

(* The rows are counted.                                                     *)
BeginAttach(r, a) ==
  /\ Idle(r)
  /\ request' = [request EXCEPT ![r] =
       [@ EXCEPT !.op = "attach", !.album = a,
                 !.pc = IF Cardinality(In(a)) < MaxPhotos THEN "put" ELSE "failed"]]
  /\ UNCHANGED <<status, photo, profile, bucket, locked, logged, lost, removed, faults>>

(* Nothing looks at the job's status.                                        *)
attach_photo(r) == status # "absent" /\ BeginAttach(r, "job")
add_work_photo(r) == BeginAttach(r, "work")

NextAfterPut(r) == IF request[r].op = "attach" THEN "position" ELSE "repoint"

\* Mutant: the row is written first and the object after it.
PutLate(r) ==
  /\ request[r].pc = "put"
  /\ request' = [request EXCEPT ![r].pc = NextAfterPut(r)]
  /\ UNCHANGED <<status, photo, profile, bucket, locked, logged, lost, removed, faults>>
put(r) ==
  /\ request[r].pc = "put"
  /\ bucket' = bucket \cup {r}
  /\ request' = [request EXCEPT ![r].pc = NextAfterPut(r)]
  /\ UNCHANGED <<status, photo, profile, locked, logged, lost, removed, faults>>

(* The bucket refuses, or takes the object and the answer is lost.           *)
PutFails(r, taken) ==
  /\ request[r].pc = "put" /\ Fault
  /\ bucket' = IF taken THEN bucket \cup {r} ELSE bucket
  /\ lost' = IF taken THEN lost \cup {r} ELSE lost
  /\ Fails(r)
  /\ UNCHANGED <<status, photo, profile, locked, logged, removed>>

(* The INSERT computes its position from the rows its snapshot shows ...     *)
Slot(r) ==
  /\ request[r].pc = "position"
  /\ LET taken == {photo[p].position : p \in In(request[r].album)}
     IN \E slot \in IF taken = {} THEN {0} ELSE {t + 1 : t \in taken} :
          /\ \A t \in taken : t < slot
          /\ request' = [request EXCEPT ![r] = [@ EXCEPT !.pc = "insert", !.slot = slot]]
  /\ UNCHANGED <<status, photo, profile, bucket, locked, logged, lost, removed, faults>>

Taken(r) == \E p \in In(request[r].album) : photo[p].position = request[r].slot

\* Mutant: the error of the INSERT is not logged.
InsertUnlogged(r) ==
  /\ request[r].pc = "insert"
  /\ photo' = IF Taken(r) THEN photo
              ELSE [photo EXCEPT ![r] = [album |-> request[r].album, position |-> request[r].slot]]
  /\ IF Taken(r) THEN Fails(r) ELSE Done(r)
  /\ UNCHANGED <<status, profile, bucket, locked, logged, lost, removed, faults>>
(* ... and the unique constraint refuses one that was taken meanwhile.       *)
insert(r) ==
  /\ request[r].pc = "insert"
  /\ IF Taken(r)
     THEN logged' = logged \cup {r} /\ Fails(r) /\ UNCHANGED photo
     ELSE /\ photo' = [photo EXCEPT ![r] = [album |-> request[r].album, position |-> request[r].slot]]
          /\ Done(r) /\ UNCHANGED logged
  /\ UNCHANGED <<status, profile, bucket, locked, lost, removed, faults>>

(* The row goes, and then its object.  A row that a cancellation is deleting *)
(* is not there any more after it.                                           *)
Remove(r, p) ==
  /\ Idle(r)
  /\ photo' = [photo EXCEPT ![p] = NoRow]
  /\ removed' = removed \cup {p}
  /\ request' = [request EXCEPT ![r] = [@ EXCEPT !.op = "remove", !.pc = "delete", !.album = photo[p].album, !.keys = {p}]]
  /\ UNCHANGED <<status, profile, bucket, locked, logged, lost, faults>>

remove_photo(r, p) == photo[p].album = "job" /\ Remove(r, p)
remove_work_photo(r, p) == photo[p].album = "work" /\ Remove(r, p)

-------------------------------------------------------------------------------
(* The profile photo.                                                        *)

BeginSetPhoto(r) ==
  /\ Idle(r)
  /\ request' = [request EXCEPT ![r] = [@ EXCEPT !.op = "set_photo", !.album = "work", !.pc = "put"]]
  /\ UNCHANGED <<status, photo, profile, bucket, locked, logged, lost, removed, faults>>

(* The CTE reads the old key in the statement's snapshot; the row itself is  *)
(* updated when its lock is free.                                            *)
Displaced(r) ==
  /\ request[r].pc = "repoint" /\ request[r].slot = 0
  /\ request' = [request EXCEPT ![r] = [@ EXCEPT !.slot = 1, !.keys = {profile} \ {None}]]
  /\ UNCHANGED <<status, photo, profile, bucket, locked, logged, lost, removed, faults>>

Repoint(r) ==
  /\ request[r].pc = "repoint" /\ request[r].slot = 1
  /\ profile' = r
  /\ request' = [request EXCEPT ![r].pc = "delete"]
  /\ UNCHANGED <<status, photo, bucket, locked, logged, lost, removed, faults>>

(* clear_photo returns photo_storage_key as the UPDATE left it: NULL, and so *)
(* there is nothing to delete.                                               *)
clear_photo(r) ==
  /\ Idle(r)
  /\ profile' = None
  /\ Done(r)
  /\ UNCHANGED <<status, photo, bucket, locked, logged, lost, removed, faults>>

-------------------------------------------------------------------------------
(* Objects are deleted after the rows, one by one; a 404 is a success.       *)
delete(r, k) ==
  /\ request[r].pc = "delete" /\ k \in request[r].keys
  /\ bucket' = bucket \ {k}
  /\ request' = [request EXCEPT ![r].keys = @ \ {k}]
  /\ UNCHANGED <<status, photo, profile, locked, logged, lost, removed, faults>>

(* A failure is logged, except by set_photo, and the request goes on.        *)
DeleteFails(r, k) ==
  /\ request[r].pc = "delete" /\ k \in request[r].keys /\ Fault
  /\ logged' = IF request[r].op = "set_photo" THEN logged ELSE logged \cup {k}
  /\ request' = [request EXCEPT ![r].keys = @ \ {k}]
  /\ UNCHANGED <<status, photo, profile, bucket, locked, lost, removed>>

Finish(r) ==
  /\ request[r].pc = "delete" /\ request[r].keys = {} /\ Done(r)
  /\ UNCHANGED <<status, photo, profile, bucket, locked, logged, lost, removed, faults>>

(* The server dies, or the client goes and the handler's future is dropped.  *)
Die(r) ==
  /\ request[r].pc \notin {"idle", "done", "failed"} /\ Fault
  /\ Fails(r)
  /\ lost' = lost \cup request[r].keys \cup {r}
  /\ locked' = IF locked = r THEN None ELSE locked
  /\ UNCHANGED <<status, photo, profile, bucket, logged, removed>>

Step(r) ==
  \/ put(r) \/ Slot(r) \/ insert(r) \/ CancelRows(r) \/ Displaced(r) \/ Repoint(r) \/ Finish(r)
  \/ \E k \in Request : delete(r, k)

Next ==
  \E r \in Request :
    \/ post(r) \/ close(r) \/ reopen(r) \/ CancelKeys(r)
    \/ attach_photo(r) \/ add_work_photo(r)
    \/ \E p \in Request : remove_photo(r, p) \/ remove_work_photo(r, p) \/ DeleteFails(r, p)
    \/ BeginSetPhoto(r) \/ clear_photo(r)
    \/ Step(r)
    \/ CancelFails(r) \/ Die(r)
    \/ \E taken \in BOOLEAN : PutFails(r, taken)

Spec == Init /\ [][Next]_vars

-------------------------------------------------------------------------------
(* Properties                                                                *)

(* No photo that is shown lacks its object, at any moment: neither a row of  *)
(* a job or a listing nor a profile points at nothing, whatever fails or     *)
(* dies between the bucket and the database (attach_photo, remove_photo,     *)
(* set_photo).                                                               *)
NoBrokenPhoto ==
  /\ \A p \in Request : photo[p].album \in Album => p \in bucket
  /\ profile # None => profile \in bucket

(* A job that can still be seen or reopened has every photo its poster was   *)
(* told is attached and did not remove: only a cancellation takes photos     *)
(* away, and there is no way back from it (attach_photo, close, reopen).     *)
NothingLostUnlessCancelled ==
  status \in {"open", "closed"} =>
    \A p \in Request :
      request[p].op = "attach" /\ request[p].album = "job" /\ request[p].pc = "done"
        => photo[p].album = "job" \/ p \in removed

(* An object of the work photos that no row shows is in the hands of a       *)
(* request, or its key is in the log, or its request died: nothing is        *)
(* orphaned in silence (add_work_photo, remove_work_photo).                  *)
Handled(k) == \/ request[k].pc \in {"put", "position", "insert", "repoint"}
              \/ \E r \in Request : request[r].pc \in {"delete_rows", "repoint", "delete"} /\ k \in request[r].keys
WorkOrphansLogged ==
  \A k \in bucket :
    request[k].op = "attach" /\ request[k].album = "work"
      => photo[k].album = "work" \/ Handled(k) \/ k \in logged \cup lost

(* repo/contractors.rs of clear_photo: it clears the profile photo,          *)
(* "returning the key that was there", so that remove_photo can delete it.   *)
ClearedIsDeleted ==
  profile = None =>
    \A k \in bucket : request[k].op = "set_photo" => Handled(k) \/ k \in lost
===============================================================================
