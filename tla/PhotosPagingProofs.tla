--------------------------- MODULE PhotosPagingProofs ---------------------------
(***************************************************************************)
(* What is shown of a job or a listing: its photos, and itself on the      *)
(* pages of a list.  Photos and Paging share no variable, and each has its *)
(* own invariant here.                                                     *)
(*                                                                         *)
(* Photos, for any number of requests, faults and photos.  An object is    *)
(* deleted on the strength of a key read earlier, by a cancellation, a     *)
(* removal or a replacement.  The invariant says why that key cannot be    *)
(* shown again by then: its upload is over, uploads are the only ones to   *)
(* show it, and the row or the profile has let go of it before the         *)
(* deletion begins.                                                        *)
(*                                                                         *)
(* Paging, for any table, ordering and size of a page.  As long as the     *)
(* reader goes on, what was shown where it stands is behind the cursor and *)
(* what is owed lies ahead of it.                                          *)
(***************************************************************************)
EXTENDS Photos, Paging, TLAPS

Over == {"delete", "done", "failed"}

(* Nobody shows the object k, and nobody will.                               *)
Gone(k) == request[k].pc \in Over /\ photo[k].album \notin Album /\ profile # k

(* What a request has in its hands at each of its steps: an object that is   *)
(* there once put has returned, and keys that may be deleted when it comes   *)
(* to that (attach_photo, close, set_photo).                                 *)
RequestFine(r) ==
  /\ request[r].pc \in {"idle", "put"} => request[r].slot = 0
  /\ request[r].pc = "put" => request[r].op \in {"attach", "set_photo"}
  /\ request[r].pc \in {"position", "insert"} => request[r].op = "attach" /\ r \in bucket
  /\ request[r].pc = "repoint" => request[r].op = "set_photo" /\ r \in bucket
  /\ request[r].pc = "repoint" /\ request[r].slot = 1 =>
       \A k \in request[r].keys : k # r /\ request[k].op = "set_photo" /\ request[k].pc \in Over
  /\ request[r].pc = "delete_rows" =>
       \A k \in request[r].keys : request[k].op = "attach" /\ request[k].pc = "done" /\ request[k].album = "job"
  /\ request[r].pc = "delete" => \A k \in request[r].keys : Gone(k)

(* A row is that of an upload that ended well, in the album it was for.      *)
RowFine(p) ==
  photo[p].album \in Album =>
    /\ p \in bucket
    /\ request[p].op = "attach" /\ request[p].pc = "done" /\ request[p].album = photo[p].album

(* The profile shows an object whose upload has come to repoint it.          *)
ProfileFine ==
  profile # None =>
    profile \in bucket /\ request[profile].op = "set_photo" /\ request[profile].pc \in Over

IInv ==
  /\ TypeOK
  /\ ProfileFine
  /\ \A r \in Request : RequestFine(r)
  /\ \A p \in Request : RowFine(p)

-------------------------------------------------------------------------------
(* Before the first request there is nothing.                                *)
LEMMA InitIInv == Init => IInv
<1> SUFFICES ASSUME Init PROVE IInv
  OBVIOUS
<1>1. TypeOK
  BY BoundAssumption DEF Init, TypeOK, PhotoRow, NoRow, RequestState, Op, Album
<1>2. ProfileFine
  BY DEF Init, ProfileFine
<1>3. \A r \in Request : RequestFine(r)
  BY DEF Init, RequestFine
<1>4. \A p \in Request : RowFine(p)
  BY DEF Init, RowFine, NoRow, Album
<1>5. QED
  BY <1>1, <1>2, <1>3, <1>4 DEF IInv

(* A step of one request that takes no object away and shows nothing new     *)
(* keeps what is true of the others, if the request was not over or only     *)
(* goes on deleting.                                                         *)
LEMMA Moves ==
  ASSUME IInv, NEW r \in Request, NEW q \in RequestState, request' = [request EXCEPT ![r] = q],
         request[r].pc \notin {"done", "failed"},
         request[r].pc = "delete" => q.pc \in Over /\ q.op = request[r].op,
         UNCHANGED <<photo, profile>>, bucket \subseteq bucket',
         TypeOK', RequestFine(r)'
  PROVE  IInv'
<1>1. \A k \in Request :
        request[k].pc \in Over =>
          request'[k].pc \in Over /\ request'[k].op = request[k].op
  BY DEF IInv, TypeOK, Over
<1>2. \A k \in Request : request[k].pc = "done" => request'[k] = request[k]
  BY DEF IInv, TypeOK
<1>3. \A k \in Request : Gone(k) => Gone(k)'
  BY <1>1 DEF Gone
<1>4. ASSUME NEW v \in Request, v # r PROVE RequestFine(v)'
  <2>1. request'[v] = request[v] /\ request[v].keys \subseteq Request
    BY <1>4 DEF IInv, TypeOK, RequestState
  <2>2. RequestFine(v)
    BY DEF IInv
  <2>3. QED
    BY <2>1, <2>2, <1>1, <1>2, <1>3 DEF RequestFine
<1>5. ProfileFine'
  BY <1>1 DEF IInv, TypeOK, ProfileFine
<1>6. ASSUME NEW p \in Request PROVE RowFine(p)'
  BY <1>2 DEF IInv, RowFine
<1>7. QED
  BY <1>4, <1>5, <1>6 DEF IInv

(* A request that is answered, well or with an error, has nothing more to do. *)
LEMMA Answered ==
  ASSUME IInv, NEW r \in Request, Done(r) \/ Fails(r), request[r].pc \notin {"done", "failed"},
         UNCHANGED <<photo, profile>>, bucket \subseteq bucket', bucket' \subseteq Request,
         status' \in {"absent", "open", "closed", "cancelled"}, locked' \in Request \cup {None},
         logged' \subseteq Request, lost' \subseteq Request, removed' \subseteq Request,
         faults' \in 0..MaxFaults
  PROVE  IInv'
<1>1. PICK end \in {"done", "failed"} : request' = [request EXCEPT ![r].pc = end]
  BY DEF Done, Fails
<1> DEFINE q == [request[r] EXCEPT !.pc = end]
<1>2. q \in RequestState /\ q.pc = end /\ q.op = request[r].op
  BY DEF IInv, TypeOK, RequestState
<1>3. request' = [request EXCEPT ![r] = q]
  BY <1>1
<1> HIDE DEF q
<1>4. TypeOK'
  BY <1>2, <1>3 DEF IInv, TypeOK
<1>5. request'[r] = q
  BY <1>3 DEF IInv, TypeOK
<1>6. RequestFine(r)'
  BY <1>2, <1>5 DEF RequestFine
<1>7. QED
  BY <1>2, <1>3, <1>4, <1>6, Moves DEF Over

-------------------------------------------------------------------------------
(* The job                                                                   *)

LEMMA JobKeeps ==
  ASSUME IInv, NEW r \in Request, post(r) \/ close(r) \/ reopen(r)
  PROVE  IInv'
<1>1. request[r].pc = "idle" /\ Done(r) /\ UNCHANGED <<photo, profile, bucket, locked, logged, lost, removed, faults>>
  BY DEF post, close, reopen, Idle
<1>2. status' \in {"absent", "open", "closed", "cancelled"}
  BY DEF post, close, reopen, IInv, TypeOK
<1>3. QED
  BY <1>1, <1>2, Answered DEF IInv, TypeOK

(* A cancellation reads the keys of rows, which are those of uploads to the  *)
(* job that ended well.                                                      *)
LEMMA CancelKeysKeeps ==
  ASSUME IInv, NEW r \in Request, CancelKeys(r)
  PROVE  IInv'
<1>0. request[r].pc = "idle"
  BY DEF CancelKeys, Idle
<1>1. CASE status # "open"
  <2>1. Done(r) /\ UNCHANGED <<status, photo, profile, bucket, locked, logged, lost, removed, faults>>
    BY <1>1 DEF CancelKeys
  <2>2. QED
    BY <1>0, <2>1, Answered DEF IInv, TypeOK
<1>2. CASE status = "open"
  <2> DEFINE q == [request[r] EXCEPT !.op = "cancel", !.pc = "delete_rows", !.keys = In("job")]
  <2>0. request[r] \in RequestState /\ In("job") \in SUBSET Request
    BY DEF IInv, TypeOK, In
  <2>1. q \in RequestState /\ q.pc = "delete_rows" /\ q.keys = In("job")
    BY <2>0 DEF RequestState, Op
  <2>2. request' = [request EXCEPT ![r] = q] /\ locked' = r
    BY <1>2 DEF CancelKeys
  <2> HIDE DEF q
  <2>3. TypeOK'
    BY <2>1, <2>2 DEF CancelKeys, IInv, TypeOK
  <2>4. \A k \in In("job") : request[k].op = "attach" /\ request[k].pc = "done" /\ request[k].album = "job"
    BY DEF In, IInv, RowFine, Album
  <2>5. \A k \in In("job") : k \in Request /\ k # r /\ request'[k] = request[k]
    BY <1>0, <2>2, <2>4 DEF In, IInv, TypeOK
  <2>6. request'[r] = q
    BY <2>2 DEF IInv, TypeOK
  <2>7. RequestFine(r)'
    BY <2>1, <2>4, <2>5, <2>6 DEF RequestFine
  <2>8. QED
    BY <1>0, <2>1, <2>2, <2>3, <2>7, Moves DEF CancelKeys
<1>3. QED
  BY <1>1, <1>2

(* With the rows its keys are let go of.                                     *)
LEMMA CancelRowsKeeps ==
  ASSUME IInv, NEW r \in Request, CancelRows(r)
  PROVE  IInv'
<1>1. request[r] \in RequestState /\ request[r].pc = "delete_rows"
  BY DEF CancelRows, IInv, TypeOK
<1>2. request'[r] = [request[r] EXCEPT !.pc = "delete"] /\ \A v \in Request \ {r} : request'[v] = request[v]
  BY DEF CancelRows, IInv, TypeOK
<1>3. \A p \in Request : photo'[p] = IF photo[p].album = "job" THEN NoRow ELSE photo[p]
  BY DEF CancelRows
<1>4. \A p \in Request : photo'[p].album \in Album => photo'[p] = photo[p] /\ photo[p].album # "job"
  BY <1>3 DEF NoRow, Album
<1>5. TypeOK'
  <2>1. request' \in [Request -> RequestState]
    BY DEF CancelRows, IInv, TypeOK, RequestState
  <2>2. photo' \in [Request -> PhotoRow]
    BY DEF CancelRows, IInv, TypeOK, PhotoRow
  <2>3. QED
    BY <2>1, <2>2 DEF CancelRows, IInv, TypeOK
<1>6. \A k \in Request : request[k].pc \in Over => request'[k].pc \in Over /\ request'[k].op = request[k].op
  BY <1>1, <1>2 DEF Over, RequestState
<1>7. \A k \in Request : request[k].pc = "done" => request'[k] = request[k]
  BY <1>1, <1>2
<1>8. \A k \in Request : Gone(k) => Gone(k)'
  BY <1>4, <1>6 DEF Gone, CancelRows
<1>9. ProfileFine'
  BY <1>6 DEF CancelRows, IInv, TypeOK, ProfileFine
<1>10. ASSUME NEW p \in Request PROVE RowFine(p)'
  BY <1>4, <1>7 DEF RowFine, CancelRows, IInv
<1>11. ASSUME NEW v \in Request PROVE RequestFine(v)'
  <2>1. CASE v # r
    <3>1. request'[v] = request[v] /\ request[v].keys \subseteq Request /\ RequestFine(v)
      BY <1>2, <2>1 DEF IInv, TypeOK, RequestState
    <3>2. QED
      BY <3>1, <1>6, <1>7, <1>8 DEF RequestFine, CancelRows
  <2>2. CASE v = r
    <3>1. request'[r].pc = "delete" /\ request'[r].keys = request[r].keys /\ request[r].keys \subseteq Request
      BY <1>1, <1>2 DEF RequestState
    <3>2. ASSUME NEW k \in request[r].keys PROVE Gone(k)'
      <4>1. k \in Request /\ request[k].op = "attach" /\ request[k].pc = "done" /\ request[k].album = "job"
        BY <1>1, <3>1, <3>2 DEF IInv, RequestFine
      <4>2. profile # k
        BY <4>1, NoneAssumption DEF IInv, ProfileFine
      <4>3. photo'[k].album \notin Album
        BY <1>4, <4>1 DEF IInv, RowFine
      <4>4. QED
        BY <1>7, <4>1, <4>2, <4>3 DEF Gone, Over, CancelRows
    <3>3. QED
      BY <2>2, <3>1, <3>2 DEF RequestFine
  <2>3. QED
    BY <2>1, <2>2
<1>12. QED
  BY <1>5, <1>9, <1>10, <1>11 DEF IInv

(* Faults that end a request: a failed transaction, a death.                 *)
LEMMA FaultsKeep ==
  ASSUME IInv, NEW r \in Request,
         CancelFails(r) \/ Die(r) \/ \E taken \in BOOLEAN : PutFails(r, taken)
  PROVE  IInv'
<1>1. request[r].pc \notin {"done", "failed"} /\ Fails(r)
  BY DEF CancelFails, Die, PutFails
<1>2. faults' \in 0..MaxFaults
  BY BoundAssumption DEF CancelFails, Die, PutFails, Fault, IInv, TypeOK
<1>3. UNCHANGED <<status, photo, profile, removed>> /\ bucket \subseteq bucket' /\ bucket' \subseteq Request
  BY DEF CancelFails, Die, PutFails, IInv, TypeOK
<1>4. locked' \in Request \cup {None} /\ logged' = logged
  BY DEF CancelFails, Die, PutFails, IInv, TypeOK
<1>5. lost' \subseteq Request
  BY DEF CancelFails, Die, PutFails, IInv, TypeOK, RequestState
<1>6. QED
  BY <1>1, <1>2, <1>3, <1>4, <1>5, Answered DEF IInv, TypeOK

-------------------------------------------------------------------------------
(* Uploads and removals                                                      *)

LEMMA BeginsKeep ==
  ASSUME IInv, NEW r \in Request, attach_photo(r) \/ add_work_photo(r) \/ BeginSetPhoto(r)
  PROVE  IInv'
<1>0. request[r] \in RequestState /\ request[r].slot = 0
  BY DEF attach_photo, add_work_photo, BeginAttach, BeginSetPhoto, Idle, IInv, TypeOK, RequestFine
<1>1. PICK q \in RequestState :
        /\ request' = [request EXCEPT ![r] = q]
        /\ q.pc \in {"put", "failed"} /\ q.op \in {"attach", "set_photo"} /\ q.slot = 0
  <2>1. CASE BeginSetPhoto(r)
    <3> DEFINE q == [request[r] EXCEPT !.op = "set_photo", !.album = "work", !.pc = "put"]
    <3>1. q \in RequestState /\ q.pc = "put" /\ q.op = "set_photo" /\ q.slot = 0
      BY <1>0 DEF RequestState, Op, Album
    <3>2. QED
      BY <2>1, <3>1 DEF BeginSetPhoto
  <2>2. ASSUME NEW a \in Album, BeginAttach(r, a)
        PROVE  \E q \in RequestState : /\ request' = [request EXCEPT ![r] = q]
                                       /\ q.pc \in {"put", "failed"} /\ q.op \in {"attach", "set_photo"}
                                       /\ q.slot = 0
    <3> DEFINE q == [request[r] EXCEPT !.op = "attach", !.album = a,
                       !.pc = IF Cardinality(In(a)) < MaxPhotos THEN "put" ELSE "failed"]
    <3>1. q \in RequestState /\ q.pc \in {"put", "failed"} /\ q.op = "attach" /\ q.slot = 0
      BY <1>0 DEF RequestState, Op
    <3>2. QED
      BY <2>2, <3>1 DEF BeginAttach
  <2>3. QED
    BY <2>1, <2>2 DEF attach_photo, add_work_photo, Album
<1>2. request[r].pc = "idle" /\ UNCHANGED <<status, photo, profile, bucket, locked, logged, lost, removed, faults>>
  BY DEF attach_photo, add_work_photo, BeginAttach, BeginSetPhoto, Idle
<1>3. TypeOK'
  BY <1>1, <1>2 DEF IInv, TypeOK
<1>4. request'[r] = q
  BY <1>1 DEF IInv, TypeOK
<1>5. RequestFine(r)'
  BY <1>1, <1>4 DEF RequestFine
<1>6. QED
  BY <1>1, <1>2, <1>3, <1>5, Moves

(* The object comes before the row.                                          *)
LEMMA PutKeeps ==
  ASSUME IInv, NEW r \in Request, put(r)
  PROVE  IInv'
<1> DEFINE q == [request[r] EXCEPT !.pc = NextAfterPut(r)]
<1>1. /\ request[r] \in RequestState /\ request[r].pc = "put"
      /\ request[r].op \in {"attach", "set_photo"} /\ request[r].slot = 0
  BY DEF put, IInv, TypeOK, RequestFine
<1>2. /\ q \in RequestState /\ q.op = request[r].op /\ q.slot = request[r].slot /\ q.keys = request[r].keys
      /\ q.pc = IF request[r].op = "attach" THEN "position" ELSE "repoint"
  BY <1>1 DEF RequestState, NextAfterPut
<1>3. request' = [request EXCEPT ![r] = q] /\ r \in bucket'
  BY DEF put
<1> HIDE DEF q
<1>4. TypeOK'
  BY <1>2, <1>3 DEF put, IInv, TypeOK
<1>5. request'[r] = q
  BY <1>3 DEF IInv, TypeOK
<1>6. RequestFine(r)'
  BY <1>1, <1>2, <1>3, <1>5 DEF RequestFine
<1>7. QED
  BY <1>1, <1>2, <1>3, <1>4, <1>6, Moves DEF put

LEMMA SlotKeeps ==
  ASSUME IInv, NEW r \in Request, Slot(r)
  PROVE  IInv'
<1>1. PICK slot \in Nat : request' = [request EXCEPT ![r] = [@ EXCEPT !.pc = "insert", !.slot = slot]]
  <2> DEFINE taken == {photo[p].position : p \in In(request[r].album)}
  <2>1. taken \subseteq Nat
    BY DEF IInv, TypeOK, PhotoRow, NoRow, In
  <2>2. PICK slot \in IF taken = {} THEN {0} ELSE {t + 1 : t \in taken} :
          request' = [request EXCEPT ![r] = [@ EXCEPT !.pc = "insert", !.slot = slot]]
    BY DEF Slot
  <2>3. slot \in Nat
    <3>1. CASE taken = {}
      BY <2>2, <3>1
    <3>2. CASE taken # {}
      <4>1. slot \in {t + 1 : t \in taken}
        BY <2>2, <3>2
      <4> HIDE DEF taken
      <4>2. QED
        BY <2>1, <4>1
    <3>3. QED
      BY <3>1, <3>2
  <2>4. QED
    BY <2>2, <2>3
<1> DEFINE q == [request[r] EXCEPT !.pc = "insert", !.slot = slot]
<1>0. request[r] \in RequestState
  BY DEF IInv, TypeOK
<1>2. q \in RequestState /\ q.pc = "insert" /\ q.op = request[r].op
  BY <1>0 DEF RequestState
<1>3. request[r].pc = "position" /\ request[r].op = "attach" /\ r \in bucket
  BY DEF Slot, IInv, RequestFine
<1>4. request' = [request EXCEPT ![r] = q]
  BY <1>1
<1> HIDE DEF q
<1>5. TypeOK'
  BY <1>2, <1>4 DEF Slot, IInv, TypeOK
<1>6. request'[r] = q
  BY <1>4 DEF IInv, TypeOK
<1>7. RequestFine(r)'
  BY <1>2, <1>3, <1>6 DEF RequestFine, Slot
<1>8. QED
  BY <1>2, <1>3, <1>4, <1>5, <1>7, Moves DEF Slot

(* The row shows an object that is there: nobody deletes that of an upload   *)
(* that is not over.                                                         *)
LEMMA InsertKeeps ==
  ASSUME IInv, NEW r \in Request, insert(r)
  PROVE  IInv'
<1>1. request[r] \in RequestState /\ request[r].pc = "insert" /\ request[r].op = "attach" /\ r \in bucket
  BY DEF insert, IInv, TypeOK, RequestFine
<1>2. CASE Taken(r)
  <2>1. Fails(r) /\ logged' \subseteq Request /\ UNCHANGED <<status, photo, profile, bucket, locked, lost, removed, faults>>
    BY <1>2 DEF insert, IInv, TypeOK
  <2>2. QED
    BY <1>1, <2>1, Answered DEF IInv, TypeOK
<1>3. CASE ~Taken(r)
  <2> DEFINE new == [album |-> request[r].album, position |-> request[r].slot]
  <2>1. /\ photo' = [photo EXCEPT ![r] = new]
        /\ request' = [request EXCEPT ![r].pc = "done"]
        /\ UNCHANGED <<status, profile, bucket, locked, logged, lost, removed, faults>>
    BY <1>3 DEF insert, Done
  <2>2. new \in PhotoRow /\ new.album = request[r].album
    BY <1>1 DEF RequestState, PhotoRow
  <2> HIDE DEF new
  <2>3. TypeOK'
    <3>1. request' \in [Request -> RequestState]
      BY <2>1 DEF IInv, TypeOK, RequestState
    <3>2. photo' \in [Request -> PhotoRow]
      BY <2>1, <2>2 DEF IInv, TypeOK
    <3>3. QED
      BY <2>1, <3>1, <3>2 DEF IInv, TypeOK
  <2>4. request'[r] = [request[r] EXCEPT !.pc = "done"] /\ \A v \in Request \ {r} : request'[v] = request[v]
    BY <2>1 DEF IInv, TypeOK
  <2>5. photo'[r] = new /\ \A v \in Request \ {r} : photo'[v] = photo[v]
    BY <2>1 DEF IInv, TypeOK
  <2>6. \A k \in Request : request[k].pc \in Over => k # r
    BY <1>1 DEF Over
  <2>7. \A k \in Request : Gone(k) => Gone(k)'
    BY <2>1, <2>4, <2>5, <2>6 DEF Gone
  <2>8. ProfileFine'
    BY <2>1, <2>4, <2>6 DEF ProfileFine, IInv, TypeOK
  <2>9. ASSUME NEW p \in Request PROVE RowFine(p)'
    <3>1. CASE p = r
      BY <1>1, <2>1, <2>2, <2>4, <2>5, <3>1 DEF RowFine, RequestState
    <3>2. CASE p # r
      BY <2>1, <2>4, <2>5, <3>2 DEF RowFine, IInv
    <3>3. QED
      BY <3>1, <3>2
  <2>10. ASSUME NEW v \in Request PROVE RequestFine(v)'
    <3>1. CASE v = r
      BY <1>1, <2>4, <3>1 DEF RequestFine, RequestState
    <3>2. CASE v # r
      <4>1. request'[v] = request[v] /\ request[v].keys \subseteq Request /\ RequestFine(v)
        BY <2>4, <3>2 DEF IInv, TypeOK, RequestState
      <4>2. \A k \in Request : request[k].pc \in Over => request'[k] = request[k]
        BY <2>4, <2>6
      <4>3. QED
        BY <2>1, <2>7, <4>1, <4>2 DEF RequestFine, Over
    <3>3. QED
      BY <3>1, <3>2
  <2>11. QED
    BY <2>3, <2>8, <2>9, <2>10 DEF IInv
<1>4. QED
  BY <1>2, <1>3

(* The row goes before the object.                                           *)
LEMMA RemoveKeeps ==
  ASSUME IInv, NEW r \in Request, NEW p \in Request, remove_photo(r, p) \/ remove_work_photo(r, p)
  PROVE  IInv'
<1>1. request[r].pc = "idle" /\ photo[p].album \in Album
  BY DEF remove_photo, remove_work_photo, Remove, Idle, Album
<1> DEFINE q == [request[r] EXCEPT !.op = "remove", !.pc = "delete", !.album = photo[p].album, !.keys = {p}]
<1>2. /\ photo' = [photo EXCEPT ![p] = NoRow]
      /\ request' = [request EXCEPT ![r] = q]
      /\ removed' = removed \cup {p}
      /\ UNCHANGED <<status, profile, bucket, locked, logged, lost, faults>>
  BY DEF remove_photo, remove_work_photo, Remove
<1>0. request[r] \in RequestState
  BY DEF IInv, TypeOK
<1>3. q \in RequestState /\ q.pc = "delete" /\ q.keys = {p}
  BY <1>0, <1>1 DEF RequestState, Op
<1> HIDE DEF q
<1>4. p \in bucket /\ request[p].op = "attach" /\ request[p].pc = "done"
  BY <1>1 DEF IInv, RowFine
<1>5. TypeOK'
  <2>1. photo' \in [Request -> PhotoRow]
    BY <1>2 DEF IInv, TypeOK, PhotoRow
  <2>2. QED
    BY <1>2, <1>3, <2>1 DEF IInv, TypeOK
<1>6. request'[r] = q /\ \A v \in Request \ {r} : request'[v] = request[v]
  BY <1>2 DEF IInv, TypeOK
<1>7. photo'[p] = NoRow /\ \A v \in Request \ {p} : photo'[v] = photo[v]
  BY <1>2 DEF IInv, TypeOK
<1>8. \A k \in Request : request[k].pc \in Over => k # r /\ request'[k] = request[k]
  BY <1>1, <1>6 DEF Over
<1>9. \A k \in Request : photo'[k].album \in Album => photo'[k] = photo[k]
  BY <1>7 DEF NoRow, Album
<1>10. \A k \in Request : Gone(k) => Gone(k)'
  BY <1>2, <1>8, <1>9 DEF Gone
<1>11. ProfileFine'
  BY <1>2, <1>8 DEF ProfileFine, IInv, TypeOK
<1>12. ASSUME NEW k \in Request PROVE RowFine(k)'
  BY <1>2, <1>8, <1>9 DEF RowFine, IInv, Over
<1>13. Gone(p)'
  <2>1. profile # p
    BY <1>4, NoneAssumption DEF IInv, ProfileFine
  <2>2. QED
    BY <1>2, <1>4, <1>7, <1>8, <2>1 DEF Gone, Over, NoRow, Album
<1>14. ASSUME NEW v \in Request PROVE RequestFine(v)'
  <2>1. CASE v = r
    BY <1>3, <1>6, <1>13, <2>1 DEF RequestFine
  <2>2. CASE v # r
    <3>1. request'[v] = request[v] /\ request[v].keys \subseteq Request /\ RequestFine(v)
      BY <1>6, <2>2 DEF IInv, TypeOK, RequestState
    <3>2. QED
      BY <1>2, <1>8, <1>10, <3>1 DEF RequestFine, Over
  <2>3. QED
    BY <2>1, <2>2
<1>15. QED
  BY <1>5, <1>11, <1>12, <1>14 DEF IInv

-------------------------------------------------------------------------------
(* The profile photo                                                         *)

(* The key that will be displaced is that of an upload that is over.         *)
LEMMA DisplacedKeeps ==
  ASSUME IInv, NEW r \in Request, Displaced(r)
  PROVE  IInv'
<1> DEFINE q == [request[r] EXCEPT !.slot = 1, !.keys = {profile} \ {None}]
<1>1. request[r] \in RequestState /\ request[r].pc = "repoint" /\ request[r].op = "set_photo" /\ r \in bucket
  BY DEF Displaced, IInv, TypeOK, RequestFine
<1>2. q \in RequestState /\ q.pc = "repoint" /\ q.op = "set_photo" /\ q.keys = {profile} \ {None}
  BY <1>1 DEF RequestState, IInv, TypeOK
<1>3. request' = [request EXCEPT ![r] = q] /\ UNCHANGED <<status, photo, profile, bucket, locked, logged, lost, removed, faults>>
  BY DEF Displaced
<1> HIDE DEF q
<1>4. TypeOK'
  BY <1>2, <1>3 DEF IInv, TypeOK
<1>5. request'[r] = q /\ \A v \in Request \ {r} : request'[v] = request[v]
  BY <1>3 DEF IInv, TypeOK
<1>6. \A k \in q.keys : k \in Request /\ k # r /\ request[k].op = "set_photo" /\ request[k].pc \in Over
  BY <1>1, <1>2 DEF IInv, TypeOK, ProfileFine, Over
<1>7. RequestFine(r)'
  BY <1>1, <1>2, <1>3, <1>5, <1>6 DEF RequestFine
<1>8. QED
  BY <1>1, <1>2, <1>3, <1>4, <1>7, Moves

(* Once the profile shows the new object no one shows the displaced one.     *)
LEMMA RepointKeeps ==
  ASSUME IInv, NEW r \in Request, Repoint(r)
  PROVE  IInv'
<1> DEFINE q == [request[r] EXCEPT !.pc = "delete"]
<1>1. /\ request[r] \in RequestState /\ request[r].pc = "repoint" /\ request[r].op = "set_photo" /\ r \in bucket
      /\ \A k \in request[r].keys : k # r /\ request[k].op = "set_photo" /\ request[k].pc \in Over
  BY DEF Repoint, IInv, TypeOK, RequestFine
<1>2. q \in RequestState /\ q.pc = "delete" /\ q.op = "set_photo" /\ q.keys = request[r].keys /\ q.keys \subseteq Request
  BY <1>1 DEF RequestState
<1>3. request' = [request EXCEPT ![r] = q] /\ profile' = r /\ UNCHANGED <<status, photo, bucket, locked, logged, lost, removed, faults>>
  BY DEF Repoint
<1> HIDE DEF q
<1>4. TypeOK'
  BY <1>2, <1>3 DEF IInv, TypeOK
<1>5. request'[r] = q /\ \A v \in Request \ {r} : request'[v] = request[v]
  BY <1>3 DEF IInv, TypeOK
<1>6. \A k \in Request : request[k].pc \in Over => k # r /\ request'[k] = request[k]
  BY <1>1, <1>5 DEF Over
<1>7. \A k \in Request : Gone(k) => Gone(k)'
  BY <1>3, <1>6 DEF Gone
<1>8. ProfileFine'
  BY <1>1, <1>2, <1>3, <1>5 DEF ProfileFine, Over
<1>9. ASSUME NEW k \in Request PROVE RowFine(k)'
  BY <1>3, <1>6 DEF RowFine, IInv, Over
<1>10. ASSUME NEW k \in q.keys PROVE Gone(k)'
  <2>1. k \in Request /\ request[k].op = "set_photo" /\ request[k].pc \in Over /\ k # r
    BY <1>1, <1>2, <1>10
  <2>2. photo[k].album \notin Album
    BY <2>1 DEF IInv, RowFine
  <2>3. QED
    BY <1>3, <1>6, <2>1, <2>2 DEF Gone
<1>11. ASSUME NEW v \in Request PROVE RequestFine(v)'
  <2>1. CASE v = r
    BY <1>2, <1>5, <1>10, <2>1 DEF RequestFine
  <2>2. CASE v # r
    <3>1. request'[v] = request[v] /\ request[v].keys \subseteq Request /\ RequestFine(v)
      BY <1>5, <2>2 DEF IInv, TypeOK, RequestState
    <3>2. QED
      BY <1>3, <1>6, <1>7, <3>1 DEF RequestFine, Over
  <2>3. QED
    BY <2>1, <2>2
<1>12. QED
  BY <1>4, <1>8, <1>9, <1>11 DEF IInv

LEMMA ClearPhotoKeeps ==
  ASSUME IInv, NEW r \in Request, clear_photo(r)
  PROVE  IInv'
<1> DEFINE q == [request[r] EXCEPT !.pc = "done"]
<1>1. request[r].pc = "idle" /\ request' = [request EXCEPT ![r] = q] /\ profile' = None
      /\ UNCHANGED <<status, photo, bucket, locked, logged, lost, removed, faults>>
  BY DEF clear_photo, Idle, Done
<1>2. q \in RequestState /\ q.pc = "done"
  BY DEF IInv, TypeOK, RequestState
<1> HIDE DEF q
<1>3. TypeOK'
  BY <1>1, <1>2 DEF IInv, TypeOK
<1>4. request'[r] = q /\ \A v \in Request \ {r} : request'[v] = request[v]
  BY <1>1 DEF IInv, TypeOK
<1>5. \A k \in Request : request[k].pc \in Over => request'[k] = request[k]
  BY <1>1, <1>4 DEF Over
<1>6. \A k \in Request : Gone(k) => Gone(k)'
  BY <1>1, <1>5, NoneAssumption DEF Gone
<1>7. ASSUME NEW k \in Request PROVE RowFine(k)'
  BY <1>1, <1>5 DEF RowFine, IInv, Over
<1>8. ASSUME NEW v \in Request PROVE RequestFine(v)'
  <2>1. CASE v = r
    BY <1>2, <1>4, <2>1 DEF RequestFine
  <2>2. CASE v # r
    <3>1. request'[v] = request[v] /\ request[v].keys \subseteq Request /\ RequestFine(v)
      BY <1>4, <2>2 DEF IInv, TypeOK, RequestState
    <3>2. QED
      BY <1>1, <1>5, <1>6, <3>1 DEF RequestFine, Over
  <2>3. QED
    BY <2>1, <2>2
<1>9. QED
  BY <1>1, <1>3, <1>7, <1>8 DEF IInv, ProfileFine

-------------------------------------------------------------------------------
(* Deletion                                                                  *)

(* A request that deletes goes on with fewer keys.                           *)
LEMMA FewerKeys ==
  ASSUME IInv, NEW r \in Request, NEW k \in Request, request[r].pc = "delete",
         request' = [request EXCEPT ![r].keys = @ \ {k}], UNCHANGED <<photo, profile>>
  PROVE  /\ request' \in [Request -> RequestState]
         /\ \A v \in Request : /\ request'[v].pc = request[v].pc /\ request'[v].op = request[v].op
                               /\ request'[v].album = request[v].album /\ request'[v].slot = request[v].slot
                               /\ request'[v].keys \subseteq request[v].keys
         /\ \A v \in Request : Gone(v) => Gone(v)'
<1>1. request' \in [Request -> RequestState]
  BY DEF IInv, TypeOK, RequestState
<1>2. ASSUME NEW v \in Request
      PROVE  /\ request'[v].pc = request[v].pc /\ request'[v].op = request[v].op
             /\ request'[v].album = request[v].album /\ request'[v].slot = request[v].slot
             /\ request'[v].keys \subseteq request[v].keys
  BY DEF IInv, TypeOK, RequestState
<1>3. \A v \in Request : Gone(v) => Gone(v)'
  BY <1>2 DEF Gone
<1>4. QED
  BY <1>1, <1>2, <1>3

LEMMA DeletionKeeps ==
  ASSUME IInv, NEW r \in Request, NEW k \in Request, delete(r, k) \/ DeleteFails(r, k)
  PROVE  IInv'
<1>1. /\ request[r].pc = "delete" /\ k \in request[r].keys
      /\ request' = [request EXCEPT ![r].keys = @ \ {k}]
      /\ UNCHANGED <<status, photo, profile, locked, lost, removed>>
      /\ bucket \ {k} \subseteq bucket' /\ bucket' \subseteq bucket
  BY DEF delete, DeleteFails
<1>2. logged' \subseteq Request /\ faults' \in 0..MaxFaults
  BY BoundAssumption DEF delete, DeleteFails, Fault, IInv, TypeOK
<1>3. request' \in [Request -> RequestState]
  BY <1>1, FewerKeys
<1>4. \A v \in Request : /\ request'[v].pc = request[v].pc /\ request'[v].op = request[v].op
                         /\ request'[v].album = request[v].album /\ request'[v].slot = request[v].slot
                         /\ request'[v].keys \subseteq request[v].keys
  BY <1>1, FewerKeys
<1>5. \A v \in Request : Gone(v) => Gone(v)'
  BY <1>1, FewerKeys
<1>6. Gone(k)
  BY <1>1 DEF IInv, RequestFine
<1>7. TypeOK'
  BY <1>1, <1>2, <1>3 DEF IInv, TypeOK
<1>8. ProfileFine'
  BY <1>1, <1>4, <1>6 DEF ProfileFine, Gone, IInv, TypeOK
<1>9. ASSUME NEW p \in Request PROVE RowFine(p)'
  BY <1>1, <1>4, <1>6 DEF RowFine, Gone, IInv
<1>10. ASSUME NEW v \in Request PROVE RequestFine(v)'
  <2>1. RequestFine(v) /\ request[v].keys \subseteq Request
    BY DEF IInv, TypeOK, RequestState
  <2>2. request[v].pc \in {"position", "insert", "repoint"} => v # k
    BY <1>6 DEF Gone, Over
  <2>3. QED
    BY <1>1, <1>4, <1>5, <2>1, <2>2 DEF RequestFine
<1>11. QED
  BY <1>7, <1>8, <1>9, <1>10 DEF IInv

LEMMA FinishKeeps ==
  ASSUME IInv, NEW r \in Request, Finish(r)
  PROVE  IInv'
<1>1. request[r].pc = "delete" /\ Done(r) /\ UNCHANGED <<status, photo, profile, bucket, locked, logged, lost, removed, faults>>
  BY DEF Finish
<1>2. QED
  BY <1>1, Answered DEF IInv, TypeOK

-------------------------------------------------------------------------------
LEMMA NextIInv == IInv /\ [Next]_vars => IInv'
<1> SUFFICES ASSUME IInv, [Next]_vars PROVE IInv'
  OBVIOUS
<1>1. ASSUME NEW r \in Request, Step(r) PROVE IInv'
  BY <1>1, PutKeeps, SlotKeeps, InsertKeeps, CancelRowsKeeps, DisplacedKeeps, RepointKeeps, FinishKeeps,
     DeletionKeeps DEF Step
<1>2. ASSUME NEW r \in Request, post(r) \/ close(r) \/ reopen(r) \/ CancelKeys(r) PROVE IInv'
  BY <1>2, JobKeeps, CancelKeysKeeps
<1>3. ASSUME NEW r \in Request, attach_photo(r) \/ add_work_photo(r) \/ BeginSetPhoto(r) PROVE IInv'
  BY <1>3, BeginsKeep
<1>4. ASSUME NEW r \in Request, NEW p \in Request,
             remove_photo(r, p) \/ remove_work_photo(r, p) \/ DeleteFails(r, p)
      PROVE  IInv'
  BY <1>4, RemoveKeeps, DeletionKeeps
<1>5. ASSUME NEW r \in Request, clear_photo(r) PROVE IInv'
  BY <1>5, ClearPhotoKeeps
<1>6. ASSUME NEW r \in Request, CancelFails(r) \/ Die(r) \/ \E taken \in BOOLEAN : PutFails(r, taken)
      PROVE  IInv'
  BY <1>6, FaultsKeep
<1>7. CASE UNCHANGED vars
  BY <1>7 DEF vars, IInv, TypeOK, ProfileFine, RequestFine, RowFine, Gone
<1>8. QED
  BY <1>1, <1>2, <1>3, <1>4, <1>5, <1>6, <1>7 DEF Next

LEMMA Invariance == Spec => []IInv
BY InitIInv, NextIInv, PTL DEF Spec

-------------------------------------------------------------------------------
(* Where the photos are                                                      *)
(*                                                                           *)
(* On top of IInv: an object without a row is in somebody's hands until it   *)
(* is deleted, logged or lost, and a photo whose poster was told of it is    *)
(* shown until a removal or the cancellation.                                *)

InHand == {"delete_rows", "repoint", "delete"}

(* What a request has in its hands, and what it has not: before its own      *)
(* statement has read keys it has none, and a replacement only has other     *)
(* profile photos (attach_photo, close, set_photo).                          *)
HandFine(r) ==
  /\ request[r].pc = "idle" => request[r].op = "none"
  /\ request[r].pc \in {"idle", "put"} => r \notin bucket
  /\ \/ request[r].pc \in {"idle", "put", "position", "insert"}
     \/ request[r].pc = "repoint" /\ request[r].slot = 0
     => request[r].keys = {}
  /\ request[r].pc = "delete_rows" => request[r].op = "cancel"
  /\ request[r].pc = "delete" => request[r].op \in {"cancel", "remove", "set_photo"}
  /\ request[r].pc = "delete" /\ request[r].op = "set_photo" =>
       \A k \in request[r].keys : request[k].op = "set_photo"

ToJob(p) == request[p].op = "attach" /\ request[p].album = "job"
ToWork(p) == request[p].op = "attach" /\ request[p].album = "work"

(* The two properties, photo by photo.                                       *)
JobFine(p) ==
  status \in {"open", "closed"} /\ ToJob(p) /\ request[p].pc = "done" => photo[p].album = "job" \/ p \in removed
WorkFine(k) ==
  k \in bucket /\ ToWork(k) => photo[k].album = "work" \/ Handled(k) \/ k \in logged \cup lost

(* Nobody has a photo for a job that is not posted yet (attach_photo).       *)
AbsentFine == status = "absent" => \A p \in Request : ~ToJob(p)

PhotoInv == AbsentFine /\ \A r \in Request : HandFine(r) /\ JobFine(r) /\ WorkFine(r)

(* A step of one request, by what it does to the photos of the others: it    *)
(* lets go of a key only if the object is deleted, logged or lost, and takes *)
(* a row away only with the key in its hands.                                *)
LEMMA Carried ==
  ASSUME IInv, PhotoInv, NEW r \in Request, NEW q \in RequestState, request' = [request EXCEPT ![r] = q],
         request[r].op # "none" => q.op = request[r].op,
         bucket' \subseteq bucket \cup {r},
         logged \subseteq logged', lost \subseteq lost', removed \subseteq removed',
         status' \in {"open", "closed"} => status # "cancelled",
         status' = "absent" => status = "absent" /\ ~ToJob(r)',
         \A k \in request[r].keys :
           request[r].pc \in InHand => \/ q.pc \in InHand /\ k \in q.keys
                                       \/ k \notin bucket' \/ k \in logged' \cup lost' \/ ~ToWork(k),
         \A k \in Request \ {r} : photo[k].album = "work" => photo'[k].album = "work" \/ (q.pc = "delete" /\ k \in q.keys),
         \A k \in Request \ {r} : photo[k].album = "job" =>
           photo'[k].album = "job" \/ k \in removed' \/ status' = "cancelled",
         HandFine(r)', JobFine(r)', WorkFine(r)'
  PROVE  PhotoInv'
<1>1. request'[r] = q /\ \A v \in Request \ {r} : request'[v] = request[v]
  BY DEF IInv, TypeOK
<1>2. \A v \in Request : request[v].op # "none" => request'[v].op = request[v].op
  BY <1>1
<1>3. status \in {"absent", "open", "closed", "cancelled"} /\ \A v \in Request : request[v].keys \subseteq Request
  BY DEF IInv, TypeOK, RequestState
<1>4. AbsentFine'
  BY <1>1 DEF PhotoInv, AbsentFine, ToJob
<1>5. ASSUME NEW v \in Request, v # r PROVE HandFine(v)'
  <2>1. HandFine(v) /\ request'[v] = request[v] /\ (v \in bucket' => v \in bucket)
    BY <1>1, <1>5 DEF PhotoInv
  <2>2. request[v].pc = "delete" /\ request[v].op = "set_photo" => \A k \in request[v].keys : request'[k].op = "set_photo"
    BY <1>2, <1>3, <2>1 DEF HandFine
  <2>3. QED
    BY <2>1, <2>2 DEF HandFine
<1>6. ASSUME NEW v \in Request, v # r PROVE JobFine(v)'
  <2>1. JobFine(v) /\ request'[v] = request[v]
    BY <1>1, <1>6 DEF PhotoInv
  <2>2. status = "absent" => ~ToJob(v)
    BY DEF PhotoInv, AbsentFine
  <2>3. QED
    BY <1>3, <1>6, <2>1, <2>2 DEF JobFine, ToJob
<1>7. ASSUME NEW k \in Request, k # r, k \in bucket', ToWork(k)'
      PROVE  photo'[k].album = "work" \/ Handled(k)' \/ k \in logged' \cup lost'
  <2>1. request'[k] = request[k] /\ k \in bucket /\ ToWork(k)
    BY <1>1, <1>7 DEF ToWork
  <2>2. WorkFine(k)
    BY DEF PhotoInv
  <2>3. CASE photo[k].album = "work"
    BY <1>1, <1>7, <2>3 DEF Handled
  <2>4. CASE request[k].pc \in {"put", "position", "insert", "repoint"}
    BY <2>1, <2>4 DEF Handled
  <2>5. ASSUME NEW v \in Request, request[v].pc \in InHand, k \in request[v].keys
        PROVE  Handled(k)' \/ k \in logged' \cup lost'
    <3>1. CASE v = r
      <4>1. \/ q.pc \in InHand /\ k \in q.keys
            \/ k \notin bucket' \/ k \in logged' \cup lost' \/ ~ToWork(k)
        BY <2>5, <3>1
      <4>2. QED
        BY <1>1, <1>7, <2>1, <4>1 DEF Handled, InHand
    <3>2. CASE v # r
      BY <1>1, <2>5, <3>2 DEF Handled, InHand
    <3>3. QED
      BY <3>1, <3>2
  <2>6. CASE k \in logged \cup lost
    BY <2>6
  <2>7. QED
    BY <2>1, <2>2, <2>3, <2>4, <2>5, <2>6 DEF WorkFine, Handled, InHand
<1>8. QED
  BY <1>4, <1>5, <1>6, <1>7 DEF PhotoInv, WorkFine

(* A request that shows nothing, deletes nothing and is no upload that ends  *)
(* well.                                                                     *)
LEMMA Aside ==
  ASSUME IInv, PhotoInv, NEW r \in Request, NEW q \in RequestState, request' = [request EXCEPT ![r] = q],
         request[r].op # "none" => q.op = request[r].op,
         q.op = "attach" => q.pc # "done",
         status' \in {"open", "closed"} => status # "cancelled",
         status' = "absent" => status = "absent" /\ ~(q.op = "attach" /\ q.album = "job"),
         \A k \in request[r].keys : request[r].pc \in InHand => q.pc \in InHand /\ k \in q.keys,
         HandFine(r)', WorkFine(r)',
         UNCHANGED <<photo, bucket, logged, lost, removed>>
  PROVE  PhotoInv'
<1>1. request'[r] = q
  BY DEF IInv, TypeOK
<1>2. JobFine(r)'
  BY <1>1 DEF JobFine, ToJob
<1>3. ToJob(r)' => q.op = "attach" /\ q.album = "job"
  BY <1>1 DEF ToJob
<1>4. QED
  BY <1>2, <1>3, Carried

-------------------------------------------------------------------------------
LEMMA JobKeepsPhotos ==
  ASSUME IInv, PhotoInv, NEW r \in Request, post(r) \/ close(r) \/ reopen(r)
  PROVE  PhotoInv'
<1> DEFINE q == [request[r] EXCEPT !.pc = "done"]
<1>1. request[r] \in RequestState /\ request[r].pc = "idle" /\ request' = [request EXCEPT ![r] = q]
      /\ UNCHANGED <<photo, profile, bucket, locked, logged, lost, removed, faults>>
  BY DEF post, close, reopen, Idle, Done, IInv, TypeOK
<1>2. request[r].op = "none" /\ request[r].keys = {}
  BY <1>1 DEF PhotoInv, HandFine
<1>3. q \in RequestState /\ q.pc = "done" /\ q.op = "none"
  BY <1>1, <1>2 DEF RequestState
<1>4. (status' \in {"open", "closed"} => status # "cancelled") /\ status' # "absent"
  BY DEF post, close, reopen
<1> HIDE DEF q
<1>5. request'[r] = q
  BY <1>1 DEF IInv, TypeOK
<1>6. HandFine(r)' /\ WorkFine(r)'
  BY <1>3, <1>5 DEF HandFine, WorkFine, ToWork
<1>7. QED
  BY <1>1, <1>2, <1>3, <1>4, <1>6, Aside

LEMMA CancelKeepsPhotos ==
  ASSUME IInv, PhotoInv, NEW r \in Request, CancelKeys(r) \/ CancelRows(r) \/ CancelFails(r)
  PROVE  PhotoInv'
<1>1. CASE CancelKeys(r)
  <2>1. request[r] \in RequestState /\ request[r].op = "none" /\ request[r].keys = {}
    BY <1>1 DEF CancelKeys, Idle, IInv, TypeOK, PhotoInv, HandFine
  <2>2. PICK q \in RequestState :
          /\ request' = [request EXCEPT ![r] = q]
          /\ (q.pc = "done" /\ q.op = "none") \/ (q.pc = "delete_rows" /\ q.op = "cancel")
    <3> DEFINE c == [request[r] EXCEPT !.op = "cancel", !.pc = "delete_rows", !.keys = In("job")]
               d == [request[r] EXCEPT !.pc = "done"]
    <3>1. In("job") \subseteq Request
      BY DEF In
    <3>2. c \in RequestState /\ c.pc = "delete_rows" /\ c.op = "cancel"
      BY <2>1, <3>1 DEF RequestState, Op
    <3>3. d \in RequestState /\ d.pc = "done" /\ d.op = "none"
      BY <2>1 DEF RequestState
    <3>4. request' = [request EXCEPT ![r] = c] \/ request' = [request EXCEPT ![r] = d]
      BY <1>1 DEF CancelKeys, Done
    <3> HIDE DEF c, d
    <3>5. QED
      BY <3>2, <3>3, <3>4
  <2>3. UNCHANGED <<status, photo, profile, bucket, logged, lost, removed>> /\ status # "absent"
    BY <1>1 DEF CancelKeys
  <2>4. request'[r] = q
    BY <2>2 DEF IInv, TypeOK
  <2>5. HandFine(r)' /\ WorkFine(r)'
    BY <2>2, <2>4 DEF HandFine, WorkFine, ToWork
  <2>6. QED
    BY <2>1, <2>2, <2>3, <2>5, Aside
<1>2. CASE CancelRows(r)
  <2> DEFINE q == [request[r] EXCEPT !.pc = "delete"]
  <2>1. request[r] \in RequestState /\ request[r].pc = "delete_rows" /\ request[r].op = "cancel"
    BY <1>2 DEF CancelRows, IInv, TypeOK, PhotoInv, HandFine
  <2>2. q \in RequestState /\ q.pc = "delete" /\ q.op = "cancel" /\ q.keys = request[r].keys
    BY <2>1 DEF RequestState
  <2>3. request' = [request EXCEPT ![r] = q] /\ status' = "cancelled" /\ UNCHANGED <<bucket, logged, lost, removed>>
    BY <1>2 DEF CancelRows
  <2>4. \A k \in Request : photo[k].album = "work" => photo'[k].album = "work"
    BY <1>2 DEF CancelRows
  <2> HIDE DEF q
  <2>5. request'[r] = q
    BY <2>3 DEF IInv, TypeOK
  <2>6. HandFine(r)' /\ WorkFine(r)' /\ JobFine(r)'
    BY <2>2, <2>5 DEF HandFine, WorkFine, JobFine, ToWork, ToJob
  <2>7. QED
    BY <2>1, <2>2, <2>3, <2>4, <2>6, Carried DEF InHand
<1>3. CASE CancelFails(r)
  <2> DEFINE q == [request[r] EXCEPT !.pc = "failed"]
  <2>1. request[r] \in RequestState /\ request[r].pc = "delete_rows" /\ request[r].op = "cancel"
    BY <1>3 DEF CancelFails, IInv, TypeOK, PhotoInv, HandFine
  <2>2. q \in RequestState /\ q.pc = "failed" /\ q.op = "cancel"
    BY <2>1 DEF RequestState
  <2>3. request' = [request EXCEPT ![r] = q] /\ UNCHANGED <<status, photo, bucket, logged, lost, removed>>
    BY <1>3 DEF CancelFails, Fails
  <2>4. \A k \in request[r].keys : ~ToWork(k)
    BY <2>1 DEF IInv, RequestFine, ToWork
  <2>5. status' \in {"open", "closed"} => status # "cancelled"
    BY <2>3
  <2> HIDE DEF q
  <2>6. request'[r] = q
    BY <2>3 DEF IInv, TypeOK
  <2>7. HandFine(r)' /\ WorkFine(r)' /\ JobFine(r)' /\ ~ToJob(r)'
    BY <2>2, <2>6 DEF HandFine, WorkFine, JobFine, ToWork, ToJob
  <2>8. QED
    BY <2>1, <2>2, <2>3, <2>4, <2>5, <2>7, Carried
<1>4. QED
  BY <1>1, <1>2, <1>3

LEMMA BeginsKeepPhotos ==
  ASSUME IInv, PhotoInv, NEW r \in Request, attach_photo(r) \/ add_work_photo(r) \/ BeginSetPhoto(r)
  PROVE  PhotoInv'
<1>1. /\ request[r] \in RequestState /\ request[r].pc = "idle" /\ request[r].op = "none" /\ request[r].keys = {}
      /\ r \notin bucket
      /\ UNCHANGED <<status, photo, profile, bucket, locked, logged, lost, removed, faults>>
  BY DEF attach_photo, add_work_photo, BeginAttach, BeginSetPhoto, Idle, IInv, TypeOK, PhotoInv, HandFine
<1>2. PICK q \in RequestState :
        /\ request' = [request EXCEPT ![r] = q]
        /\ q.pc \in {"put", "failed"} /\ q.op \in {"attach", "set_photo"} /\ q.keys = {}
        /\ q.op = "attach" /\ q.album = "job" => status # "absent"
  <2>1. CASE BeginSetPhoto(r)
    <3> DEFINE q == [request[r] EXCEPT !.op = "set_photo", !.album = "work", !.pc = "put"]
    <3>1. q \in RequestState /\ q.pc = "put" /\ q.op = "set_photo" /\ q.keys = {}
      BY <1>1 DEF RequestState, Op, Album
    <3>2. QED
      BY <2>1, <3>1 DEF BeginSetPhoto
  <2>2. ASSUME NEW a \in Album, BeginAttach(r, a), a = "job" => status # "absent"
        PROVE  \E q \in RequestState : /\ request' = [request EXCEPT ![r] = q]
                                       /\ q.pc \in {"put", "failed"} /\ q.op \in {"attach", "set_photo"}
                                       /\ q.keys = {} /\ (q.op = "attach" /\ q.album = "job" => status # "absent")
    <3> DEFINE q == [request[r] EXCEPT !.op = "attach", !.album = a,
                       !.pc = IF Cardinality(In(a)) < MaxPhotos THEN "put" ELSE "failed"]
    <3>1. q \in RequestState /\ q.pc \in {"put", "failed"} /\ q.op = "attach" /\ q.album = a /\ q.keys = {}
      BY <1>1 DEF RequestState, Op
    <3>2. QED
      BY <2>2, <3>1 DEF BeginAttach
  <2>3. QED
    BY <2>1, <2>2 DEF attach_photo, add_work_photo, Album
<1>3. request'[r] = q
  BY <1>2 DEF IInv, TypeOK
<1>4. HandFine(r)' /\ WorkFine(r)'
  BY <1>1, <1>2, <1>3 DEF HandFine, WorkFine
<1>5. QED
  BY <1>1, <1>2, <1>4, Aside

(* From the object on until its row is there an upload has it in hand.       *)
LEMMA UploadsKeepPhotos ==
  ASSUME IInv, PhotoInv, NEW r \in Request,
         put(r) \/ Slot(r) \/ insert(r) \/ \E taken \in BOOLEAN : PutFails(r, taken)
  PROVE  PhotoInv'
<1>1. request[r] \in RequestState /\ request[r].keys = {} /\ UNCHANGED <<status, removed>>
      /\ request[r].pc \in {"put", "position", "insert"} /\ (request[r].pc # "put" => request[r].op = "attach")
      /\ (request[r].pc = "put" => request[r].op \in {"attach", "set_photo"} /\ request[r].slot = 0)
  BY DEF put, Slot, insert, PutFails, IInv, TypeOK, PhotoInv, HandFine, RequestFine
<1>2. PICK q \in RequestState :
        /\ request' = [request EXCEPT ![r] = q]
        /\ q.op = request[r].op /\ q.album = request[r].album /\ q.keys = {}
        /\ \/ q.pc = "failed" /\ (r \in bucket' => r \in logged' \cup lost')
           \/ q.pc \in {"position", "insert"} /\ q.op = "attach"
           \/ q.pc = "repoint" /\ q.op = "set_photo" /\ q.slot = 0
           \/ q.pc = "done" /\ q.op = "attach" /\ photo'[r].album = q.album
  <2> DEFINE at(pc) == [request[r] EXCEPT !.pc = pc]
  <2>1. \A pc \in {"failed", "position", "repoint", "done"} :
          /\ at(pc) \in RequestState /\ at(pc).pc = pc /\ at(pc).op = request[r].op
          /\ at(pc).album = request[r].album /\ at(pc).keys = {} /\ at(pc).slot = request[r].slot
    BY <1>1 DEF RequestState
  <2>2. CASE put(r)
    <3>1. request' = [request EXCEPT ![r] = at(NextAfterPut(r))]
      BY <2>2 DEF put
    <3>2. CASE request[r].op = "attach"
      BY <2>1, <3>1, <3>2 DEF NextAfterPut
    <3>3. CASE request[r].op = "set_photo"
      BY <1>1, <2>1, <2>2, <3>1, <3>3 DEF NextAfterPut, put
    <3>4. QED
      BY <1>1, <2>2, <3>2, <3>3 DEF put
  <2>3. CASE \E taken \in BOOLEAN : PutFails(r, taken)
    <3>1. request' = [request EXCEPT ![r] = at("failed")]
      BY <2>3 DEF PutFails, Fails
    <3>2. r \in bucket' => r \in lost'
      BY <2>3 DEF PutFails, PhotoInv, HandFine
    <3>3. QED
      BY <2>1, <3>1, <3>2
  <2>4. CASE Slot(r)
    <3>1. PICK slot : request' = [request EXCEPT ![r] = [@ EXCEPT !.pc = "insert", !.slot = slot]]
      BY <2>4 DEF Slot
    <3>2. request'[r] = [request[r] EXCEPT !.pc = "insert", !.slot = slot]
      BY <3>1 DEF IInv, TypeOK
    <3>3. request' \in [Request -> RequestState]
      BY <2>4, SlotKeeps DEF IInv, TypeOK
    <3>4. request' = [request EXCEPT ![r] = request'[r]]
      BY <3>1 DEF IInv, TypeOK
    <3>5. /\ request'[r].pc = "insert" /\ request'[r].op = request[r].op
          /\ request'[r].album = request[r].album /\ request'[r].keys = {}
      BY <1>1, <3>2 DEF RequestState
    <3>6. request'[r] \in RequestState /\ request[r].op = "attach"
      BY <1>1, <2>4, <3>3 DEF Slot
    <3>7. QED
      BY <3>4, <3>5, <3>6
  <2>5. CASE insert(r)
    <3>1. CASE Taken(r)
      <4>1. request' = [request EXCEPT ![r] = at("failed")] /\ r \in logged'
        BY <2>5, <3>1 DEF insert, Fails
      <4>2. QED
        BY <2>1, <4>1
    <3>2. CASE ~Taken(r)
      <4>1. request' = [request EXCEPT ![r] = at("done")]
            /\ photo' = [photo EXCEPT ![r] = [album |-> request[r].album, position |-> request[r].slot]]
        BY <2>5, <3>2 DEF insert, Done
      <4>2. photo'[r].album = request[r].album /\ request[r].op = "attach"
        BY <1>1, <2>5, <4>1 DEF insert, IInv, TypeOK
      <4>3. QED
        BY <2>1, <4>1, <4>2
    <3>3. QED
      BY <3>1, <3>2
  <2>6. QED
    BY <2>2, <2>3, <2>4, <2>5
<1>3. bucket' \subseteq bucket \cup {r} /\ logged \subseteq logged' /\ lost \subseteq lost'
  BY DEF put, Slot, insert, PutFails
<1>4. \A k \in Request \ {r} : photo'[k] = photo[k]
  BY DEF put, Slot, insert, PutFails, IInv, TypeOK
<1>5. request'[r] = q
  BY <1>2 DEF IInv, TypeOK
<1>6. HandFine(r)'
  BY <1>2, <1>5 DEF HandFine
<1>7. JobFine(r)' /\ WorkFine(r)'
  BY <1>2, <1>5 DEF JobFine, WorkFine, ToJob, ToWork, Handled
<1>8. ToJob(r) <=> ToJob(r)'
  BY <1>2, <1>5 DEF ToJob
<1>9. status' = "absent" => status = "absent" /\ ~ToJob(r)'
  BY <1>1, <1>8 DEF PhotoInv, AbsentFine
<1>10. QED
  BY <1>1, <1>2, <1>3, <1>4, <1>6, <1>7, <1>9, Carried

(* A removal has the key in its hands as the row goes.                       *)
LEMMA RemoveKeepsPhotos ==
  ASSUME IInv, PhotoInv, NEW r \in Request, NEW p \in Request, remove_photo(r, p) \/ remove_work_photo(r, p)
  PROVE  PhotoInv'
<1>1. /\ request[r] \in RequestState /\ request[r].pc = "idle" /\ photo[p].album \in Album
      /\ request[r].op = "none" /\ request[r].keys = {}
  BY DEF remove_photo, remove_work_photo, Remove, Idle, Album, IInv, TypeOK, PhotoInv, HandFine
<1> DEFINE q == [request[r] EXCEPT !.op = "remove", !.pc = "delete", !.album = photo[p].album, !.keys = {p}]
<1>2. /\ photo' = [photo EXCEPT ![p] = NoRow]
      /\ request' = [request EXCEPT ![r] = q]
      /\ removed' = removed \cup {p}
      /\ UNCHANGED <<status, profile, bucket, locked, logged, lost, faults>>
  BY DEF remove_photo, remove_work_photo, Remove
<1>3. q \in RequestState /\ q.pc = "delete" /\ q.op = "remove" /\ q.keys = {p}
  BY <1>1 DEF RequestState, Op
<1> HIDE DEF q
<1>4. \A k \in Request \ {p} : photo'[k] = photo[k]
  BY <1>2 DEF IInv, TypeOK
<1>5. request'[r] = q
  BY <1>2 DEF IInv, TypeOK
<1>6. HandFine(r)' /\ WorkFine(r)' /\ JobFine(r)' /\ ~ToJob(r)'
  BY <1>3, <1>5 DEF HandFine, WorkFine, JobFine, ToWork, ToJob
<1>7. QED
  BY <1>1, <1>2, <1>3, <1>4, <1>6, Carried

LEMMA ProfileKeepsPhotos ==
  ASSUME IInv, PhotoInv, NEW r \in Request, Displaced(r) \/ Repoint(r) \/ clear_photo(r)
  PROVE  PhotoInv'
<1>1. /\ request[r] \in RequestState
      /\ UNCHANGED <<status, photo, bucket, logged, lost, removed>>
  BY DEF Displaced, Repoint, clear_photo, IInv, TypeOK
<1>2. CASE Displaced(r)
  <2> DEFINE q == [request[r] EXCEPT !.slot = 1, !.keys = {profile} \ {None}]
  <2>1. request[r].pc = "repoint" /\ request[r].op = "set_photo" /\ request[r].keys = {}
    BY <1>2 DEF Displaced, IInv, RequestFine, PhotoInv, HandFine
  <2>2. q \in RequestState /\ q.pc = "repoint" /\ q.op = "set_photo" /\ q.slot = 1
    BY <1>1, <2>1 DEF RequestState, IInv, TypeOK
  <2>3. request' = [request EXCEPT ![r] = q]
    BY <1>2 DEF Displaced
  <2> HIDE DEF q
  <2>4. request'[r] = q
    BY <2>3 DEF IInv, TypeOK
  <2>5. HandFine(r)' /\ WorkFine(r)'
    BY <2>2, <2>4 DEF HandFine, WorkFine, ToWork
  <2>6. QED
    BY <1>1, <2>1, <2>2, <2>3, <2>5, Aside
<1>3. CASE Repoint(r)
  <2> DEFINE q == [request[r] EXCEPT !.pc = "delete"]
  <2>1. request[r].pc = "repoint" /\ request[r].op = "set_photo"
        /\ \A k \in request[r].keys : k # r /\ request[k].op = "set_photo"
    BY <1>3 DEF Repoint, IInv, RequestFine
  <2>2. q \in RequestState /\ q.pc = "delete" /\ q.op = "set_photo" /\ q.keys = request[r].keys
        /\ q.keys \subseteq Request
    BY <1>1, <2>1 DEF RequestState
  <2>3. request' = [request EXCEPT ![r] = q]
    BY <1>3 DEF Repoint
  <2> HIDE DEF q
  <2>4. request'[r] = q /\ \A v \in Request \ {r} : request'[v] = request[v]
    BY <2>3 DEF IInv, TypeOK
  <2>5. \A k \in q.keys : request'[k].op = "set_photo"
    BY <2>1, <2>2, <2>4
  <2>6. HandFine(r)' /\ WorkFine(r)'
    BY <2>2, <2>4, <2>5 DEF HandFine, WorkFine, ToWork
  <2>7. QED
    BY <1>1, <2>1, <2>2, <2>3, <2>6, Aside DEF InHand
<1>4. CASE clear_photo(r)
  <2> DEFINE q == [request[r] EXCEPT !.pc = "done"]
  <2>1. request[r].pc = "idle" /\ request[r].op = "none" /\ request[r].keys = {}
    BY <1>4 DEF clear_photo, Idle, PhotoInv, HandFine
  <2>2. q \in RequestState /\ q.pc = "done" /\ q.op = "none"
    BY <1>1, <2>1 DEF RequestState
  <2>3. request' = [request EXCEPT ![r] = q]
    BY <1>4 DEF clear_photo, Done
  <2> HIDE DEF q
  <2>4. request'[r] = q
    BY <2>3 DEF IInv, TypeOK
  <2>5. HandFine(r)' /\ WorkFine(r)'
    BY <2>2, <2>4 DEF HandFine, WorkFine, ToWork
  <2>6. QED
    BY <1>1, <2>1, <2>2, <2>3, <2>5, Aside
<1>5. QED
  BY <1>2, <1>3, <1>4

(* A key is let go of when its object is deleted, or logged; set_photo, which *)
(* does not log, has no key of another photo.                                *)
LEMMA DeletionKeepsPhotos ==
  ASSUME IInv, PhotoInv, NEW r \in Request, NEW k \in Request, delete(r, k) \/ DeleteFails(r, k)
  PROVE  PhotoInv'
<1> DEFINE q == [request[r] EXCEPT !.keys = @ \ {k}]
<1>1. /\ request[r] \in RequestState /\ request[r].pc = "delete" /\ k \in request[r].keys
      /\ request' = [request EXCEPT ![r] = q]
      /\ UNCHANGED <<status, photo, lost, removed>> /\ bucket' \subseteq bucket /\ logged \subseteq logged'
  BY DEF delete, DeleteFails, IInv, TypeOK
<1>2. HandFine(r) /\ request[r].op \in {"cancel", "remove", "set_photo"}
  BY <1>1 DEF PhotoInv, HandFine
<1>3. k \notin bucket' \/ k \in logged' \/ ~ToWork(k)
  BY <1>1, <1>2 DEF delete, DeleteFails, HandFine, ToWork
<1>4. q \in RequestState /\ q.pc = "delete" /\ q.op = request[r].op /\ q.keys = request[r].keys \ {k}
  BY <1>1 DEF RequestState
<1> HIDE DEF q
<1>5. request'[r] = q /\ \A v \in Request : request'[v].op = request[v].op
  BY <1>1, <1>4 DEF IInv, TypeOK
<1>6. HandFine(r)'
  <2>1. q.keys \subseteq Request
    BY <1>4 DEF RequestState
  <2>2. QED
    BY <1>1, <1>2, <1>4, <1>5, <2>1 DEF HandFine
<1>7. WorkFine(r)' /\ JobFine(r)' /\ ~ToJob(r)'
  BY <1>2, <1>4, <1>5 DEF WorkFine, JobFine, ToWork, ToJob
<1>8. QED
  BY <1>1, <1>3, <1>4, <1>6, <1>7, Carried DEF InHand

LEMMA EndsKeepPhotos ==
  ASSUME IInv, PhotoInv, NEW r \in Request, Finish(r) \/ Die(r)
  PROVE  PhotoInv'
<1>1. PICK end \in {"done", "failed"} : request' = [request EXCEPT ![r] = [request[r] EXCEPT !.pc = end]]
  BY DEF Finish, Die, Done, Fails
<1> DEFINE q == [request[r] EXCEPT !.pc = end]
<1>2. /\ request[r] \in RequestState /\ UNCHANGED <<status, photo, bucket, logged, removed>>
      /\ lost \subseteq lost' /\ HandFine(r)
  BY DEF Finish, Die, IInv, TypeOK, PhotoInv
<1>3. q \in RequestState /\ q.pc = end /\ q.op = request[r].op /\ q.album = request[r].album
  BY <1>2 DEF RequestState
<1>4. request' = [request EXCEPT ![r] = q]
  BY <1>1
<1> HIDE DEF q
<1>5. request'[r] = q
  BY <1>4 DEF IInv, TypeOK
<1>6. HandFine(r)'
  BY <1>3, <1>5 DEF HandFine
<1>7. \A k \in request[r].keys : k \in lost'
  BY DEF Finish, Die
<1>8. q.op = "attach" => q.pc = "failed" /\ r \in lost'
  <2>1. CASE Finish(r)
    BY <1>2, <1>3, <2>1 DEF Finish, HandFine
  <2>2. CASE Die(r)
    <3>1. request'[r].pc = "failed" /\ r \in lost'
      BY <2>2 DEF Die, Fails, IInv, TypeOK, RequestState
    <3>2. QED
      BY <1>5, <3>1
  <2>3. QED
    BY <2>1, <2>2
<1>9. JobFine(r)' /\ WorkFine(r)'
  BY <1>3, <1>5, <1>8 DEF JobFine, WorkFine, ToJob, ToWork
<1>10. status' = "absent" => status = "absent" /\ ~ToJob(r)'
  BY <1>2, <1>3, <1>5 DEF PhotoInv, AbsentFine, ToJob
<1>11. QED
  BY <1>2, <1>3, <1>4, <1>6, <1>7, <1>9, <1>10, Carried

-------------------------------------------------------------------------------
LEMMA PhotoInvariance == Spec => []PhotoInv
<1>1. Init => PhotoInv
  BY DEF Init, PhotoInv, AbsentFine, HandFine, JobFine, WorkFine, ToJob, ToWork
<1>2. IInv /\ PhotoInv /\ [Next]_vars => PhotoInv'
  <2> SUFFICES ASSUME IInv, PhotoInv, [Next]_vars PROVE PhotoInv'
    OBVIOUS
  <2>1. ASSUME NEW r \in Request, Step(r) PROVE PhotoInv'
    BY <2>1, UploadsKeepPhotos, CancelKeepsPhotos, ProfileKeepsPhotos, EndsKeepPhotos, DeletionKeepsPhotos DEF Step
  <2>2. ASSUME NEW r \in Request, post(r) \/ close(r) \/ reopen(r) \/ CancelKeys(r) PROVE PhotoInv'
    BY <2>2, JobKeepsPhotos, CancelKeepsPhotos
  <2>3. ASSUME NEW r \in Request, attach_photo(r) \/ add_work_photo(r) \/ BeginSetPhoto(r) PROVE PhotoInv'
    BY <2>3, BeginsKeepPhotos
  <2>4. ASSUME NEW r \in Request, NEW p \in Request,
               remove_photo(r, p) \/ remove_work_photo(r, p) \/ DeleteFails(r, p)
        PROVE  PhotoInv'
    BY <2>4, RemoveKeepsPhotos, DeletionKeepsPhotos
  <2>5. ASSUME NEW r \in Request, clear_photo(r) PROVE PhotoInv'
    BY <2>5, ProfileKeepsPhotos
  <2>6. ASSUME NEW r \in Request, CancelFails(r) \/ Die(r) \/ \E taken \in BOOLEAN : PutFails(r, taken)
        PROVE  PhotoInv'
    BY <2>6, CancelKeepsPhotos, EndsKeepPhotos, UploadsKeepPhotos
  <2>7. CASE UNCHANGED vars
    BY <2>7 DEF vars, PhotoInv, AbsentFine, HandFine, JobFine, WorkFine, ToJob, ToWork, Handled
  <2>8. QED
    BY <2>1, <2>2, <2>3, <2>4, <2>5, <2>6, <2>7 DEF Next
<1>3. QED
  BY <1>1, <1>2, Invariance, PTL DEF Spec

-------------------------------------------------------------------------------
(* The results                                                               *)

(* The rows, the bucket and the requests keep their types                    *)
(* (repo/job_photos.rs, repo/contractor_photos.rs).                          *)
THEOREM TypeCorrect == Spec => []TypeOK
<1>1. IInv => TypeOK
  BY DEF IInv
<1>2. QED
  BY <1>1, Invariance, PTL

(* No row and no profile ever points at an object that is not there,         *)
(* however many requests upload, remove, cancel and replace at once, and     *)
(* wherever they fail or die (attach_photo, close, set_photo).               *)
THEOREM NothingBroken == Spec => []NoBrokenPhoto
<1>1. IInv => NoBrokenPhoto
  BY DEF IInv, NoBrokenPhoto, RowFine, ProfileFine
<1>2. QED
  BY <1>1, Invariance, PTL

(* As long as a job is on the board or can come back to it, every photo its  *)
(* poster was told of is shown, or the poster removed it (attach_photo,      *)
(* close, reopen).                                                           *)
THEOREM NothingLost == Spec => []NothingLostUnlessCancelled
<1>1. PhotoInv => NothingLostUnlessCancelled
  BY DEF PhotoInv, JobFine, ToJob, NothingLostUnlessCancelled
<1>2. QED
  BY <1>1, PhotoInvariance, PTL

(* An object of the work photos without a row is in the hands of a request,  *)
(* or in the log, or was lost with its request (add_work_photo,              *)
(* remove_work_photo).                                                       *)
THEOREM OrphansKnown == Spec => []WorkOrphansLogged
<1>1. IInv /\ PhotoInv => WorkOrphansLogged
  <2> SUFFICES ASSUME IInv, PhotoInv, NEW k \in bucket, request[k].op = "attach", request[k].album = "work"
               PROVE  photo[k].album = "work" \/ Handled(k) \/ k \in logged \cup lost
    BY DEF WorkOrphansLogged
  <2>1. k \in Request
    BY DEF IInv, TypeOK
  <2>2. QED
    BY <2>1 DEF PhotoInv, WorkFine, ToWork
<1>2. QED
  BY <1>1, Invariance, PhotoInvariance, PTL

-------------------------------------------------------------------------------
(* Paging: the reader.                                                       *)

(* The reader has come to a row, or past it.                                 *)
Past(r) == ~ order_by(view, reader.cursor, PositionOf(r))

(* As long as the reader goes on, a row that was shown where it stands is    *)
(* behind the cursor, and a row that is owed and was not shown lies ahead.   *)
ReaderInv ==
  /\ PagingTypeOK /\ NothingDropped /\ NothingRepeated
  /\ \A r \in steady : Matches(view, row[r], row[r].covers = "serving")
  /\ reader.pc = "list" /\ view.surface = "directory" /\ view.near =>
       \A r \in steady : r \in reader.serving <=> row[r].covers = "serving"
  /\ reader.pc # "done" /\ reader.cursor = NoCursor => \A r \in Row : served[r] = 0
  /\ reader.pc # "done" /\ reader.cursor # NoCursor =>
       /\ \A r \in Row : served[r] > 0 => Past(r)
       /\ \A r \in steady \ seen : ~Past(r)

-------------------------------------------------------------------------------
(* The orderings.                                                            *)

(* The tie-break is a strict order, in which what is not ahead of a row does *)
(* not come between it and what it is ahead of.                              *)
LEMMA TieOrder ==
  ASSUME NEW v, NEW a \in Position, NEW b \in Position, NEW c \in Position
  PROVE  /\ ~ TieAhead(v, a, a)
         /\ TieAhead(v, a, b) => ~ TieAhead(v, b, a)
         /\ TieAhead(v, a, b) => TieAhead(v, a, c) \/ TieAhead(v, c, b)
<1>1. /\ a.at \in 1..MaxAt /\ b.at \in 1..MaxAt /\ c.at \in 1..MaxAt
      /\ a.id \in Nat /\ b.id \in Nat /\ c.id \in Nat
  BY RowAssumption DEF Position
<1>2. MaxAt \in Nat
  BY PagingBounds
<1> QED
  BY <1>1, <1>2 DEF TieAhead

(* And so is the whole ordering.                                             *)
LEMMA Order ==
  ASSUME NEW v, NEW a \in Position, NEW b \in Position, NEW c \in Position
  PROVE  /\ ~ order_by(v, a, a)
         /\ order_by(v, a, b) => ~ order_by(v, b, a)
         /\ order_by(v, a, b) => order_by(v, a, c) \/ order_by(v, c, b)
<1>1. /\ a.key \in Nat \cup {Null} /\ b.key \in Nat \cup {Null} /\ c.key \in Nat \cup {Null}
      /\ Null \notin Nat
  BY NullAssumption, PagingBounds DEF Position, Key
<1>2. PICK o : o = ordering_for(v)
  OBVIOUS
<1>3. CASE o.field = "none"
  BY <1>2, <1>3, TieOrder DEF order_by
<1>4. CASE o.field # "none"
  <2>1. \A x, y \in Position : order_by(v, x, y) <=> \/ KeyAhead(o, x.key, y.key)
                                                    \/ (x.key # Null /\ y.key = Null)
                                                    \/ (x.key = y.key /\ TieAhead(v, x, y))
    BY <1>2, <1>4 DEF order_by
  <2>2. \A x, y, z \in Nat \cup {Null} :
          /\ ~ KeyAhead(o, x, x)
          /\ KeyAhead(o, x, y) => x # Null /\ y # Null /\ ~ KeyAhead(o, y, x)
          /\ KeyAhead(o, x, y) /\ z # Null => KeyAhead(o, x, z) \/ KeyAhead(o, z, y)
          /\ x # Null /\ y # Null => x = y \/ KeyAhead(o, x, y) \/ KeyAhead(o, y, x)
    BY <1>1 DEF KeyAhead
  <2>3. ~ order_by(v, a, a) /\ (order_by(v, a, b) => ~ order_by(v, b, a))
    BY <1>1, <2>1, <2>2, TieOrder
  <2>4. order_by(v, a, b) => order_by(v, a, c) \/ order_by(v, c, b)
    BY <1>1, <2>1, <2>2, TieOrder
  <2> QED
    BY <2>3, <2>4
<1> QED
  BY <1>3, <1>4

LEMMA OrderTransitive ==
  ASSUME NEW v, NEW a \in Position, NEW b \in Position, NEW c \in Position,
         order_by(v, a, b), order_by(v, b, c)
  PROVE  order_by(v, a, c)
  BY Order

(* The keyset admits only what is ahead; what it leaves out has no key, and  *)
(* lies beyond every row that it admits.                                     *)
LEMMA Keyset ==
  ASSUME NEW v, NEW a \in Position, NEW b \in Position, NEW c \in Position
  PROVE  /\ keyset(v, b, c) => order_by(v, c, b)
         /\ order_by(v, c, b) /\ b.key # Null => keyset(v, b, c)
         /\ order_by(v, c, b) /\ ~ keyset(v, b, c) /\ keyset(v, a, c) => order_by(v, a, b)
<1>1. PICK o : o = ordering_for(v)
  OBVIOUS
<1>2. CASE o.field = "none"
  BY <1>1, <1>2 DEF order_by, keyset, jobs_keyset, search_keyset
<1>3. CASE o.field # "none"
  BY <1>1, <1>3 DEF order_by, keyset, jobs_keyset, search_keyset, KeyAhead
<1> QED
  BY <1>2, <1>3

(* A cursor comes back as it was sent.                                       *)
LEMMA CursorKept ==
  ASSUME NEW p \in Position
  PROVE  decode_cursor(encode_cursor(p)) = p
<1>1. p = [key |-> p.key, at |-> p.at, id |-> p.id]
  BY DEF Position
<1>2. CASE p.key = Null
  <2>1. encode_cursor(p) = <<p.id, <<>>, p.at>>
    BY <1>2 DEF encode_cursor
  <2>2. decode_cursor(encode_cursor(p)) = [id |-> p.id, key |-> Null, at |-> p.at]
    BY <2>1 DEF decode_cursor
  <2> QED
    BY <1>1, <1>2, <2>2
<1>3. CASE p.key # Null
  <2>1. encode_cursor(p) = <<p.id, <<p.key>>, p.at>>
    BY <1>3 DEF encode_cursor
  <2>2. <<p.key>> # <<>> /\ <<p.key>>[1] = p.key
    OBVIOUS
  <2>3. decode_cursor(encode_cursor(p)) = [id |-> p.id, key |-> p.key, at |-> p.at]
    BY <2>1, <2>2 DEF decode_cursor
  <2> QED
    BY <1>1, <2>3
<1> QED
  BY <1>2, <1>3

(* Only the directory asks how a listing covers a place, and only near one.  *)
LEMMA FoundNear ==
  ASSUME NEW v \in View, NEW x, NEW found, NEW other,
         v.surface = "directory" /\ v.near => (found <=> other)
  PROVE  Matches(v, x, found) <=> Matches(v, x, other)
<1>1. v.surface \in {"board", "feed", "directory"}
  BY DEF View, Surface
<1> QED
  BY <1>1 DEF Matches, OfJobs, jobs_predicate, search_predicate

LEMMA Positions ==
  ASSUME PagingTypeOK
  PROVE  /\ \A r \in Row : PositionOf(r) \in Position
         /\ NoCursor \notin Position
         /\ reader.cursor # NoCursor => reader.cursor \in Position
         /\ view \in View
<1>1. \A r \in Row : PositionOf(r) \in Position
  BY DEF PositionOf, Position, PagingTypeOK, Listing
<1>2. NoCursor \notin Position
  <2>1. NoCursor.id = Null /\ Null \notin Row
    BY RowAssumption, NullAssumption DEF NoCursor
  <2> QED
    BY <2>1 DEF Position
<1> QED
  BY <1>1, <1>2 DEF PagingTypeOK, Reader, view

-------------------------------------------------------------------------------
(* Before the first page nothing was shown and nothing is owed.              *)
LEMMA ParsedView ==
  ASSUME NEW raw \in Queries, parse(raw) # NoView
  PROVE  parse(raw) \in View
<1>1. /\ raw \in RawQuery /\ raw.surface \in {"board", "feed", "directory"}
      /\ raw.sort \in {"newest", "best", "budget", "distance", "for_me", "rating", "name"} \cup {"absent", "unknown"}
      /\ raw.q \in BOOLEAN /\ raw.near \in BOOLEAN /\ raw.radius \in BOOLEAN
  BY QueriesAssumption DEF RawQuery, Surface, Sort
<1>2. jobs_parse(raw) # NoView => jobs_parse(raw) \in View
  BY <1>1 DEF jobs_parse, View, Surface, Sort
<1>3. feed_parse(raw) # NoView => feed_parse(raw) \in View
  BY <1>1, <1>2 DEF feed_parse, View, Surface, Sort
<1>4. search_parse(raw) # NoView => search_parse(raw) \in View
  BY <1>1 DEF search_parse, View, Surface, Sort
<1>5. (raw.near /\ raw.radius) \in BOOLEAN
  OBVIOUS
<1> QED
  BY <1>1, <1>2, <1>3, <1>4 DEF parse

LEMMA InitReader == PagingInit => ReaderInv
<1> SUFFICES ASSUME PagingInit PROVE ReaderInv
  OBVIOUS
<1>1. PICK raw \in Queries :
        /\ parse(raw) # NoView
        /\ reader = [pc |-> "request", view |-> parse(raw), cursor |-> NoCursor, serving |-> {}]
        /\ row \in Table(parse(raw))
  BY DEF PagingInit
<1>2. parse(raw) \in View
  BY <1>1, ParsedView
<1>3. reader \in Reader /\ reader.pc = "request" /\ reader.cursor = NoCursor
  BY <1>1, <1>2 DEF Reader
<1>4. row \in [Row -> Listing]
  <2>1. PICK f \in [Row -> Shape(parse(raw))] : row = [r \in Row |-> [f[r] EXCEPT !.at = FirstAt[r]]]
    BY <1>1 DEF Table
  <2>2. ASSUME NEW r \in Row PROVE [f[r] EXCEPT !.at = FirstAt[r]] \in Listing
    <3>1. /\ f[r] \in [status : {"absent", "listed"}, key : Key \cup {Null}, at : {1}, placed : BOOLEAN,
                       covers : {"default", "serving", "no"}]
      BY DEF Shape
    <3>2. FirstAt[r] \in 1..MaxAt
      BY PagingBounds
    <3> QED
      BY <3>1, <3>2 DEF Listing
  <2> QED
    BY <2>1, <2>2
<1>5. seen = {} /\ steady = {} /\ served = [r \in Row |-> 0] /\ changes = 0
  BY DEF PagingInit
<1>6. PagingTypeOK
  BY <1>3, <1>4, <1>5, PagingBounds DEF PagingTypeOK
<1> QED
  BY <1>3, <1>5, <1>6 DEF ReaderInv, NothingDropped, NothingRepeated

-------------------------------------------------------------------------------
(* The reader asks.                                                          *)
LEMMA LookupKeeps == ReaderInv /\ Lookup => ReaderInv'
<1> SUFFICES ASSUME ReaderInv, Lookup PROVE ReaderInv'
  OBVIOUS
<1>1. /\ reader.pc = "request" /\ reader \in Reader /\ view \in View
      /\ UNCHANGED <<row, seen, served, changes>>
  BY DEF ReaderInv, PagingTypeOK, Lookup, Reader, view
<1>2. contractors_serving(view) \subseteq Row
  BY DEF contractors_serving
<1>3. /\ reader' \in Reader /\ reader'.pc = "list" /\ reader'.view = view /\ reader'.cursor = reader.cursor
      /\ reader'.serving = contractors_serving(view)
  BY <1>1, <1>2 DEF Lookup, Reader, view
<1>4. view' = view
  BY <1>3 DEF view
<1>5. \A r \in Row : PositionOf(r)' = PositionOf(r) /\ Past(r)' = Past(r)
  BY <1>1, <1>3, <1>4 DEF PositionOf, Past
<1>6. view.surface = "directory" /\ view.near =>
        \A r \in Row : r \in contractors_serving(view) <=> row[r].covers = "serving"
  BY DEF contractors_serving
<1>7. /\ steady' \subseteq Row
      /\ \A r \in steady' : Matches(view, row[r], row[r].covers = "serving")
  <2>1. CASE reader.cursor # NoCursor
    BY <2>1 DEF Lookup, ReaderInv, PagingTypeOK
  <2>2. CASE reader.cursor = NoCursor
    <3>1. steady' = {r \in Row : Matches(view, row[r], r \in contractors_serving(view))}
      BY <2>2 DEF Lookup
    <3>2. \A r \in Row : Matches(view, row[r], r \in contractors_serving(view))
                           => Matches(view, row[r], row[r].covers = "serving")
      BY <1>1, <1>6, FoundNear
    <3> QED
      BY <3>1, <3>2
  <2> QED
    BY <2>1, <2>2
<1>8. PagingTypeOK'
  BY <1>1, <1>3, <1>7 DEF PagingTypeOK, ReaderInv
<1>9. reader'.cursor # NoCursor => steady' = steady
  BY <1>3 DEF Lookup
<1>10. NothingDropped' /\ NothingRepeated'
  BY <1>1, <1>3 DEF NothingDropped, NothingRepeated, ReaderInv
<1>11. \A r \in steady' : Matches(view', row'[r], row'[r].covers = "serving")
  BY <1>1, <1>4, <1>7
<1> QED
  BY <1>1, <1>3, <1>4, <1>5, <1>6, <1>7, <1>8, <1>9, <1>10, <1>11 DEF ReaderInv

(* The reader gets a page.                                                   *)
LEMMA PageFacts ==
  ASSUME ReaderInv, NEW n, List(n)
  PROVE  /\ view' = view /\ reader.pc = "list" /\ UNCHANGED <<row, steady, changes>>
         /\ \E shown \in SUBSET Candidates, next \in Candidates \cup {Null} :
              /\ seen' = seen \cup shown
              /\ served' = [r \in Row |-> IF r \in shown THEN served[r] + 1 ELSE served[r]]
              /\ reader' \in Reader /\ reader'.serving = reader.serving
              /\ next = Null => shown = Candidates /\ reader'.pc = "done" /\ reader'.cursor = reader.cursor
              /\ next # Null =>
                   /\ next \in shown /\ next \in Row
                   /\ reader'.pc = "request" /\ reader'.cursor = PositionOf(next)
                   /\ \A r \in shown \ {next} : Ahead(view, r, next)
                   /\ \A r \in Candidates \ shown : Ahead(view, next, r)
<1>1. /\ reader.pc = "list" /\ reader \in Reader /\ view \in View /\ UNCHANGED <<row, steady, changes>>
      /\ PagingTypeOK
  BY DEF List, ReaderInv, PagingTypeOK, Reader, view
<1>2. PICK take \in take_next(view, Candidates, n) :
        /\ reader' = [reader EXCEPT
                        !.pc = IF take.next = Null THEN "done" ELSE "request",
                        !.cursor = IF take.next = Null THEN @
                                   ELSE decode_cursor(encode_cursor(PositionOf(take.next)))]
        /\ seen' = seen \cup take.shown
        /\ served' = [r \in Row |-> IF r \in take.shown THEN served[r] + 1 ELSE served[r]]
  BY DEF List
<1>3. PICK shown, next : shown = take.shown /\ next = take.next
  OBVIOUS
<1>4. /\ shown \subseteq Candidates /\ next \in Candidates \cup {Null}
      /\ Null \notin Row /\ Candidates \subseteq Row
  BY <1>2, <1>3, RowAssumption, NullAssumption DEF take_next, Candidates
<1>5. next = Null => shown = Candidates
  BY <1>2, <1>3, <1>4 DEF take_next
<1>6. next # Null => /\ next \in shown
                     /\ \A r \in shown \ {next} : Ahead(view, r, next)
                     /\ \A r \in Candidates \ shown : Ahead(view, next, r)
  BY <1>2, <1>3 DEF take_next
<1>7. next # Null => PositionOf(next) \in Position
                     /\ decode_cursor(encode_cursor(PositionOf(next))) = PositionOf(next)
  BY <1>1, <1>4, Positions, CursorKept
<1>8. /\ reader' \in Reader /\ reader'.serving = reader.serving /\ reader'.view = reader.view
      /\ next = Null => reader'.pc = "done" /\ reader'.cursor = reader.cursor
      /\ next # Null => reader'.pc = "request" /\ reader'.cursor = PositionOf(next)
  BY <1>1, <1>2, <1>3, <1>7 DEF Reader
<1>9. view' = view
  BY <1>8 DEF view
<1> QED
  BY <1>1, <1>2, <1>3, <1>4, <1>5, <1>6, <1>8, <1>9

LEMMA ListKeeps ==
  ASSUME ReaderInv, NEW n, List(n)
  PROVE  ReaderInv'
<1>1. /\ view' = view /\ reader.pc = "list" /\ UNCHANGED <<row, steady, changes>>
      /\ PagingTypeOK /\ view \in View /\ Candidates \subseteq Row /\ steady \subseteq Row
  BY PageFacts, Positions DEF ReaderInv, PagingTypeOK, Candidates
<1>2. PICK shown \in SUBSET Candidates, next \in Candidates \cup {Null} :
              /\ seen' = seen \cup shown
              /\ served' = [r \in Row |-> IF r \in shown THEN served[r] + 1 ELSE served[r]]
              /\ reader' \in Reader /\ reader'.serving = reader.serving
              /\ next = Null => shown = Candidates /\ reader'.pc = "done" /\ reader'.cursor = reader.cursor
              /\ next # Null =>
                   /\ next \in shown /\ next \in Row
                   /\ reader'.pc = "request" /\ reader'.cursor = PositionOf(next)
                   /\ \A r \in shown \ {next} : Ahead(view, r, next)
                   /\ \A r \in Candidates \ shown : Ahead(view, next, r)
  BY PageFacts
<1>3. \A r \in Row : PositionOf(r) \in Position /\ PositionOf(r)' = PositionOf(r)
  BY <1>1, Positions DEF PositionOf
<1>4. reader.cursor # NoCursor => reader.cursor \in Position
  BY <1>1, Positions
<1>5. PagingTypeOK'
  <2>1. served' \in [Row -> Nat]
    BY <1>1, <1>2 DEF PagingTypeOK
  <2> QED
    BY <1>1, <1>2, <2>1 DEF PagingTypeOK
(* What is shown was not shown before where it stands.                       *)
<1>6. ASSUME NEW r \in shown PROVE served[r] = 0
  <2>1. CASE reader.cursor = NoCursor
    BY <1>1, <2>1 DEF ReaderInv
  <2>2. CASE reader.cursor # NoCursor
    <3>1. keyset(view, PositionOf(r), reader.cursor)
      BY <2>2 DEF Candidates
    <3>2. order_by(view, reader.cursor, PositionOf(r))
      BY <1>1, <1>3, <1>4, <2>2, <3>1, Keyset
    <3>3. ~ (served[r] > 0)
      BY <1>1, <2>2, <3>2 DEF ReaderInv, Past
    <3>4. served[r] \in Nat
      BY <1>1 DEF PagingTypeOK
    <3> QED
      BY <3>3, <3>4
  <2> QED
    BY <2>1, <2>2
<1>7. NothingRepeated'
  <2>1. \A r \in Row : served'[r] = IF r \in shown THEN served[r] + 1 ELSE served[r]
    BY <1>2
  <2> QED
    BY <1>6, <2>1 DEF NothingRepeated, ReaderInv
(* A row that is owed matches the query as the page reads it.                *)
<1>8. ASSUME NEW r \in steady
      PROVE  /\ Matches(view, row[r], r \in reader.serving)
             /\ reader.cursor = NoCursor \/ keyset(view, PositionOf(r), reader.cursor) => r \in Candidates
  <2>1. Matches(view, row[r], row[r].covers = "serving")
    BY DEF ReaderInv
  <2>2. view.surface = "directory" /\ view.near => (row[r].covers = "serving" <=> r \in reader.serving)
    BY <1>1 DEF ReaderInv
  <2>3. Matches(view, row[r], r \in reader.serving)
    BY <1>1, <2>1, <2>2, FoundNear
  <2> QED
    BY <1>1, <2>3 DEF Candidates
<1>9. CASE next = Null
  <2>1. shown = Candidates /\ reader'.pc = "done"
    BY <1>2, <1>9
  <2>2. ASSUME NEW r \in steady, row[r].key # Null, r \notin seen
        PROVE  r \in Candidates
    <3>1. CASE reader.cursor = NoCursor
      BY <1>8, <3>1
    <3>2. CASE reader.cursor # NoCursor
      <4>1. order_by(view, reader.cursor, PositionOf(r))
        BY <1>1, <2>2, <3>2 DEF ReaderInv, Past
      <4>2. PositionOf(r).key # Null
        BY <2>2 DEF PositionOf
      <4> QED
        BY <1>1, <1>3, <1>4, <1>8, <3>2, <4>1, <4>2, Keyset
    <3> QED
      BY <3>1, <3>2
  <2>3. NothingDropped'
    BY <1>1, <1>2, <2>1, <2>2 DEF NothingDropped
  <2> QED
    BY <1>1, <1>5, <1>7, <2>1, <2>3 DEF ReaderInv
<1>10. CASE next # Null
  <2>1. /\ next \in shown /\ next \in Row
        /\ reader'.pc = "request" /\ reader'.cursor = PositionOf(next)
        /\ \A r \in shown \ {next} : Ahead(view, r, next)
        /\ \A r \in Candidates \ shown : Ahead(view, next, r)
    BY <1>2, <1>10
  <2>2. reader.cursor # NoCursor =>
          keyset(view, PositionOf(next), reader.cursor) /\ order_by(view, reader.cursor, PositionOf(next))
    BY <1>1, <1>3, <1>4, <2>1, Keyset DEF Candidates
  <2>3. \A r \in Row : Past(r)' <=> ~ order_by(view, PositionOf(next), PositionOf(r))
    BY <1>1, <1>3, <2>1 DEF Past
  <2>4. ASSUME NEW r \in Row, served'[r] > 0 PROVE Past(r)'
    <3>1. CASE r \in shown
      <4>1. r = next \/ order_by(view, PositionOf(r), PositionOf(next))
        BY <2>1, <3>1 DEF Ahead
      <4> QED
        BY <1>3, <2>1, <2>3, <4>1, Order
    <3>2. CASE r \notin shown
      <4>1. served[r] > 0
        BY <1>2, <2>4, <3>2
      <4>2. reader.cursor # NoCursor /\ ~ order_by(view, reader.cursor, PositionOf(r))
        BY <1>1, <4>1 DEF ReaderInv, Past
      <4> QED
        BY <1>3, <1>4, <2>1, <2>2, <2>3, <4>2, OrderTransitive
    <3> QED
      BY <3>1, <3>2
  <2>5. ASSUME NEW r \in steady, r \notin seen' PROVE ~ Past(r)'
    <3>1. r \notin shown /\ r \notin seen /\ r \in Row
      BY <1>1, <1>2, <2>5
    <3>2. CASE r \in Candidates
      BY <2>1, <2>3, <3>1, <3>2 DEF Ahead
    <3>3. CASE r \notin Candidates
      <4>1. reader.cursor # NoCursor /\ ~ keyset(view, PositionOf(r), reader.cursor)
        BY <1>8, <3>3
      <4>2. order_by(view, reader.cursor, PositionOf(r))
        BY <1>1, <3>1, <4>1 DEF ReaderInv, Past
      <4> QED
        BY <1>3, <1>4, <2>1, <2>2, <2>3, <3>1, <4>1, <4>2, Keyset
    <3> QED
      BY <3>2, <3>3
  <2>6. reader'.cursor # NoCursor
    BY <1>1, <1>3, <2>1, Positions
  <2>7. NothingDropped'
    BY <2>1 DEF NothingDropped
  <2>8. \A r \in steady' : Matches(view', row'[r], row'[r].covers = "serving")
    BY <1>1 DEF ReaderInv
  <2> QED
    BY <1>1, <1>5, <1>7, <2>1, <2>4, <2>5, <2>6, <2>7, <2>8 DEF ReaderInv
<1> QED
  BY <1>9, <1>10

-------------------------------------------------------------------------------
(* The table changes.                                                        *)
LEMMA ChangeKeeps ==
  ASSUME ReaderInv, NEW f \in [Row -> Listing], Change(f)
  PROVE  ReaderInv'
<1>1. /\ row' = f /\ reader' = reader /\ seen' = seen /\ view' = view /\ reader.pc # "done"
      /\ PagingTypeOK /\ view \in View /\ steady \subseteq Row
      /\ served' = [r \in Row |-> IF Place(f[r]) = Place(row[r]) THEN served[r] ELSE 0]
      /\ steady' = {r \in steady : Stays(f, r)}
  BY Positions DEF Change, ReaderInv, PagingTypeOK, Reading, view
<1>2. PagingTypeOK'
  <2>1. served' \in [Row -> Nat]
    BY <1>1 DEF PagingTypeOK
  <2>2. changes' \in 0..MaxChanges
    BY <1>1, PagingBounds DEF Change, PagingTypeOK
  <2> QED
    BY <1>1, <2>1, <2>2 DEF PagingTypeOK
<1>3. \A r \in Row : served'[r] = IF Place(f[r]) = Place(row[r]) THEN served[r] ELSE 0
  BY <1>1
<1>4. NothingRepeated'
  BY <1>3 DEF NothingRepeated, ReaderInv
<1>5. NothingDropped'
  BY <1>1 DEF NothingDropped
<1>6. \A r \in steady' : Matches(view, f[r], f[r].covers = "serving") /\ f[r].covers = row[r].covers
  BY <1>1 DEF Stays
<1>7. \A r \in Row : PositionOf(r)' = PositionIn(f, r) /\ PositionOf(r) \in Position
                     /\ PositionIn(f, r) \in Position
  BY <1>1, <1>2, Positions DEF PositionOf, PositionIn, Position, Listing
<1>8. \A r \in Row : Past(r)' <=> ~ order_by(view, reader.cursor, PositionIn(f, r))
  BY <1>1, <1>7 DEF Past
<1>9. reader.cursor = NoCursor => \A r \in Row : served'[r] = 0
  BY <1>1, <1>3 DEF ReaderInv
<1>10. ASSUME reader.cursor # NoCursor, NEW r \in Row, served'[r] > 0 PROVE Past(r)'
  <2>1. Place(f[r]) = Place(row[r]) /\ served[r] > 0
    BY <1>3, <1>10
  <2>2. PositionIn(f, r) = PositionOf(r)
    BY <2>1 DEF Place, PositionIn, PositionOf
  <2>3. Past(r)
    BY <1>1, <1>10, <2>1 DEF ReaderInv
  <2> QED
    BY <1>8, <2>2, <2>3 DEF Past
<1>11. ASSUME reader.cursor # NoCursor, NEW r \in steady', r \notin seen PROVE ~ Past(r)'
  <2>1. r \in steady /\ r \in Row /\ ~ order_by(view, PositionIn(f, r), PositionOf(r))
    BY <1>1, <1>11 DEF Stays
  <2>2. order_by(view, reader.cursor, PositionOf(r)) /\ reader.cursor \in Position
    BY <1>1, <1>11, <2>1, Positions DEF ReaderInv, Past
  <2> QED
    BY <1>7, <1>8, <2>1, <2>2, Order
<1>12. reader.pc = "list" /\ view.surface = "directory" /\ view.near =>
         \A r \in steady' : r \in reader.serving <=> f[r].covers = "serving"
  BY <1>1, <1>6 DEF ReaderInv
<1> QED
  BY <1>1, <1>2, <1>4, <1>5, <1>6, <1>9, <1>10, <1>11, <1>12 DEF ReaderInv

(* What may become of a row is a row.                                        *)
LEMMA RowKeeps ==
  ASSUME ReaderInv, NEW r \in Row, NEW x \in Listing, ChangeRow(r, x)
  PROVE  ReaderInv'
<1>1. [row EXCEPT ![r] = x] \in [Row -> Listing]
  BY DEF ReaderInv, PagingTypeOK
<1> QED
  BY <1>1, ChangeKeeps DEF ChangeRow

LEMMA StepReader == ReaderInv /\ [PagingNext]_pagingVars => ReaderInv'
<1> SUFFICES ASSUME ReaderInv, [PagingNext]_pagingVars PROVE ReaderInv'
  OBVIOUS
<1>0. \A r \in Row : row[r] \in Listing
  BY DEF ReaderInv, PagingTypeOK
<1>1. CASE UNCHANGED pagingVars
  BY <1>1 DEF pagingVars, ReaderInv, PagingTypeOK, NothingDropped, NothingRepeated, view, Past, PositionOf
<1>2. CASE Lookup
  BY <1>2, LookupKeeps
<1>3. ASSUME NEW n \in {limit(asked) : asked \in Asked}, List(n) PROVE ReaderInv'
  BY <1>3, ListKeeps
<1>4. ASSUME NEW r \in Row, NEW as \in {"closed", "cancelled"}, Close(r, as) PROVE ReaderInv'
  <2>1. [row[r] EXCEPT !.status = as] \in Listing
    BY <1>0 DEF Listing
  <2> QED
    BY <1>4, <2>1, RowKeeps DEF Close
<1>5. ASSUME NEW r \in Row, Reopen(r) PROVE ReaderInv'
  <2>1. [row[r] EXCEPT !.status = "listed"] \in Listing
    BY <1>0 DEF Listing
  <2> QED
    BY <1>5, <2>1, RowKeeps DEF Reopen
<1>6. ASSUME NEW r \in Row,
             NEW x \in [status : {"listed"}, key : Key \cup {Null}, at : 1..MaxAt,
                        placed : BOOLEAN, covers : {"default", "no"}],
             Post(r, x) \/ Import(r, x)
      PROVE  ReaderInv'
  <2>1. x \in Listing
    BY DEF Listing
  <2> QED
    BY <1>6, <2>1, RowKeeps DEF Post, Import
<1>7. ASSUME NEW r \in Row, NEW k \in Key, FitFalls(r, k) \/ Rescore(r, k) PROVE ReaderInv'
  <2>1. [row[r] EXCEPT !.key = k] \in Listing
    BY <1>0 DEF Listing
  <2> QED
    BY <1>7, <2>1, RowKeeps DEF FitFalls, Rescore
<1>8. ASSUME NEW k \in [Row -> Key], ViewerChanges(k) PROVE ReaderInv'
  <2>1. [r \in Row |-> [row[r] EXCEPT !.key = k[r]]] \in [Row -> Listing]
    BY <1>0 DEF Listing
  <2> QED
    BY <1>8, <2>1, ChangeKeeps DEF ViewerChanges
<1>9. ASSUME NEW r \in Row, NEW name \in 1..MaxAt, Rename(r, name) PROVE ReaderInv'
  <2>1. [row[r] EXCEPT !.at = name] \in Listing
    BY <1>0 DEF Listing
  <2> QED
    BY <1>9, <2>1, RowKeeps DEF Rename
<1>10. ASSUME NEW r \in Row, NEW p \in BOOLEAN, NEW k \in Key \cup {Null}, Republish(r, p, k) PROVE ReaderInv'
  <2>1. [row[r] EXCEPT !.placed = p, !.key = k] \in Listing
    BY <1>0 DEF Listing
  <2> QED
    BY <1>10, <2>1, RowKeeps DEF Republish
<1>11. ASSUME NEW r \in Row, NEW c \in {"default", "serving", "no"}, ServiceAreas(r, c) PROVE ReaderInv'
  <2>1. [row[r] EXCEPT !.covers = c] \in Listing
    BY <1>0 DEF Listing
  <2> QED
    BY <1>11, <2>1, RowKeeps DEF ServiceAreas
<1> QED
  BY <1>1, <1>2, <1>3, <1>4, <1>5, <1>6, <1>7, <1>8, <1>9, <1>10, <1>11 DEF PagingNext

(* For any table, any query strings and any number of changes.               *)
THEOREM ReaderInvariance == PagingSpec => []ReaderInv
  BY InitReader, StepReader, PTL DEF PagingSpec

(* Nothing is dropped between two pages: whoever comes to the last page has  *)
(* seen every row with a sort key that matched all along and did not move    *)
(* nearer to the front (order_and_keyset, list_sql, take_next).              *)
THEOREM AllShown == PagingSpec => []NothingDropped
<1>1. ReaderInv => NothingDropped
  BY DEF ReaderInv
<1> QED
  BY <1>1, ReaderInvariance, PTL

(* No row is shown twice in one place, since a page shows what is ahead of   *)
(* the cursor only and the cursor is the last of what a page has shown       *)
(* (jobs_keyset, search_keyset, take_next).                                  *)
THEOREM ShownOnce == PagingSpec => []NothingRepeated
<1>1. ReaderInv => NothingRepeated
  BY DEF ReaderInv
<1> QED
  BY <1>1, ReaderInvariance, PTL

(* Only a page moves the cursor, and to a row that the keyset admits.        *)
LEMMA CursorStep ==
  ASSUME ReaderInv, [PagingNext]_pagingVars, reader.cursor # NoCursor, reader'.cursor # reader.cursor
  PROVE  order_by(view, reader.cursor, reader'.cursor)
<1>1. PICK n : List(n)
  <2>1. ~ UNCHANGED pagingVars
    BY DEF pagingVars
  <2>2. ~ Lookup
    BY DEF Lookup, ReaderInv, PagingTypeOK, Reader
  <2>3. \A f : ~ Change(f)
    BY DEF Change
  <2>4. \A r, x : ~ ChangeRow(r, x)
    BY <2>3 DEF ChangeRow
  <2>5. /\ \A r, as : ~ Close(r, as)
        /\ \A r : ~ Reopen(r)
        /\ \A r, x : ~ Post(r, x) /\ ~ Import(r, x)
        /\ \A r, k : ~ FitFalls(r, k) /\ ~ Rescore(r, k)
        /\ \A k : ~ ViewerChanges(k)
        /\ \A r, name : ~ Rename(r, name)
        /\ \A r, p, k : ~ Republish(r, p, k)
        /\ \A r, c : ~ ServiceAreas(r, c)
    BY <2>3, <2>4 DEF Close, Reopen, Post, Import, FitFalls, Rescore, ViewerChanges, Rename, Republish,
                      ServiceAreas
  <2> QED
    BY <2>1, <2>2, <2>5 DEF PagingNext
<1>2. PICK next \in Candidates : reader'.cursor = PositionOf(next)
  BY <1>1, PageFacts
<1>3. /\ PagingTypeOK /\ PositionOf(next) \in Position /\ reader.cursor \in Position
      /\ keyset(view, PositionOf(next), reader.cursor)
  BY Positions DEF ReaderInv, Candidates
<1> QED
  BY <1>2, <1>3, Keyset

(* A cursor is further along the ordering than the one before it, so that a  *)
(* reader never circles (keyset, encode_cursor, decode_cursor).              *)
THEOREM CursorForward == PagingSpec => CursorAdvances
<1>1. ReaderInv /\ [PagingNext]_pagingVars =>
        [reader.cursor # NoCursor /\ reader'.cursor # reader.cursor
           => order_by(view, reader.cursor, reader'.cursor)]_pagingVars
  BY CursorStep
<1> QED
  BY <1>1, ReaderInvariance, PTL DEF PagingSpec, CursorAdvances
===============================================================================
