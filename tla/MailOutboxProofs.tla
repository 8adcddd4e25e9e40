--------------------------- MODULE MailOutboxProofs ----------------------------
(* Proofs about MailOutbox, for any number of messages, workers and stops,   *)
(* and for passes that outlast their claims.                                 *)
EXTENDS MailOutbox, FiniteSetTheorems, TLAPS

(* Every UPDATE of the repository makes a row of a row.                      *)
LEMMA RowType ==
  ASSUME NEW x \in Row, NEW w \in Worker
  PROVE  /\ requeue_stalled(x) \in Row /\ claim(x, w) \in Row
         /\ mark_sent(x) \in Row /\ mark_failed(x) \in Row
         /\ Unlocked("queued", 0, TRUE) \in Row
  BY ConfigAssumption DEF requeue_stalled, claim, mark_sent, mark_failed, Unlocked, Row

(* A pass at the start of a step holds nothing, and a batch makes a pass.    *)
LEMMA PassType ==
  ASSUME NEW pc \in {"down", "stopped", "requeue", "claim", "send"}, NEW S \in SUBSET Message
  PROVE  /\ At(pc) \in Pass /\ At(pc).pc = pc /\ At(pc).batch = {}
         /\ [At(pc) EXCEPT !.batch = S] \in Pass
         /\ [At(pc) EXCEPT !.batch = S].pc = pc /\ [At(pc) EXCEPT !.batch = S].batch = S
  BY DEF At, Pass

(* What a claim and a mark leave their worker with.                          *)
LEMMA BatchType ==
  ASSUME NEW S \in SUBSET Message,
         NEW p, p = [At(IF S = {} THEN "requeue" ELSE "send") EXCEPT !.batch = S]
  PROVE  p \in Pass /\ p.pc # "mark" /\ p.batch = S
<1>1. CASE S = {}
  BY <1>1, PassType
<1>2. CASE S # {}
  BY <1>2, PassType
<1> QED
  BY <1>1, <1>2

-------------------------------------------------------------------------------
(* The workers that are late with a message are still to be counted: each of *)
(* them may add a failure.                                                   *)
CountFine(m) == row[m].attempts + Cardinality(Holders(m)) < MaxAttempts + Cardinality(Worker)

IInv ==
  /\ TypeOK /\ PassCoherent
  /\ SentWasDelivered /\ GivenUpWhenExhausted /\ LockedIffClaimed
  /\ \A m \in Message : CountFine(m)

(* What the invariant asks of the row of m, given which mails were taken.    *)
RowFine(x, m, taken) ==
  /\ x \in Row
  /\ x.status = "sent" => m \in taken
  /\ x.status = "failed" => x.attempts >= MaxAttempts
  /\ x.status \in {"queued", "in_progress"} => x.attempts < MaxAttempts
  /\ x.status = "in_progress" <=> x.holder # NoWorker

(* The invariant, row by row.                                                *)
LEMMA RowByRow ==
  IInv <=> /\ TypeOK /\ PassCoherent
           /\ \A m \in Message : RowFine(row[m], m, delivered) /\ CountFine(m)
  BY DEF IInv, RowFine, TypeOK, SentWasDelivered, GivenUpWhenExhausted, LockedIffClaimed

(* The invariant after a step, from its parts after the step.                *)
LEMMA Assembled ==
  ASSUME TypeOK', PassCoherent',
         \A m \in Message : RowFine(row'[m], m, delivered') /\ CountFine(m)'
  PROVE  IInv'
  BY DEF IInv, RowFine, SentWasDelivered, GivenUpWhenExhausted, LockedIffClaimed

(* The UPDATEs keep a row fine, each from the rows it is applied to.         *)
LEMMA UpdatesFine ==
  ASSUME NEW x, NEW m, NEW taken, RowFine(x, m, taken), NEW w \in Worker
  PROVE  /\ x.status = "in_progress" => RowFine(requeue_stalled(x), m, taken)
         /\ x.status = "queued" => RowFine(claim(x, w), m, taken)
         /\ m \in taken => RowFine(mark_sent(x), m, taken)
         /\ RowFine(mark_failed(x), m, taken)
         /\ RowFine(Unlocked("queued", 0, TRUE), m, taken)
  BY NullAssumption, ConfigAssumption
  DEF RowFine, Row, requeue_stalled, claim, mark_sent, mark_failed, Unlocked

(* Only mark_failed counts.                                                  *)
LEMMA UpdatesCount ==
  ASSUME NEW x, NEW w
  PROVE  /\ requeue_stalled(x).attempts = x.attempts /\ claim(x, w).attempts = x.attempts
         /\ mark_sent(x).attempts = x.attempts /\ mark_failed(x).attempts = x.attempts + 1
  BY DEF requeue_stalled, claim, mark_sent, mark_failed, Unlocked

-------------------------------------------------------------------------------
(* Counting the workers that hold a message.                                 *)
LEMMA Counts ==
  ASSUME NEW m \in Message
  PROVE  /\ Cardinality(Worker) \in Nat /\ Cardinality(Holders(m)) \in Nat
         /\ IsFiniteSet(Holders(m)) /\ Cardinality(Holders(m)) <= Cardinality(Worker)
<1>1. IsFiniteSet(Worker) /\ Holders(m) \subseteq Worker
  BY WorkersAssumption DEF Holders
<1> QED
  BY <1>1, FS_Subset, FS_CardinalityType

LEMMA FewerHold ==
  ASSUME NEW m \in Message, Holders(m)' \subseteq Holders(m)
  PROVE  Cardinality(Holders(m)') \in Nat /\ Cardinality(Holders(m)') <= Cardinality(Holders(m))
  BY Counts, FS_Subset, FS_CardinalityType

(* No more failures counted and nobody else holding it, a row's count stays  *)
(* within its bound.                                                         *)
LEMMA CountKept ==
  ASSUME NEW m \in Message, CountFine(m), row[m].attempts \in Nat, row'[m].attempts = row[m].attempts,
         Holders(m)' \subseteq Holders(m)
  PROVE  CountFine(m)'
<1>1. Cardinality(Holders(m)) \in Nat /\ Cardinality(Worker) \in Nat
  BY Counts
<1>2. Cardinality(Holders(m)') \in Nat /\ Cardinality(Holders(m)') <= Cardinality(Holders(m))
  BY FewerHold
<1>3. Cardinality(Holders(m))' = Cardinality(Holders(m)')
  OBVIOUS
<1> QED
  BY <1>1, <1>2, <1>3, ConfigAssumption DEF CountFine

(* A row that may be claimed has an attempt left, whoever else holds it.     *)
LEMMA CountLeft ==
  ASSUME NEW m \in Message, row'[m].attempts \in Nat, row'[m].attempts < MaxAttempts
  PROVE  CountFine(m)'
<1>1. Holders(m)' \subseteq Worker /\ IsFiniteSet(Worker)
  BY WorkersAssumption DEF Holders
<1>2. /\ Cardinality(Worker) \in Nat /\ Cardinality(Holders(m)') \in Nat
      /\ Cardinality(Holders(m)') <= Cardinality(Worker)
  BY <1>1, FS_Subset, FS_CardinalityType
<1>3. Cardinality(Holders(m))' = Cardinality(Holders(m)')
  OBVIOUS
<1> QED
  BY <1>2, <1>3, ConfigAssumption DEF CountFine

(* A mark counts at most one failure, and its worker lets go of the row.     *)
LEMMA CountMarked ==
  ASSUME NEW m \in Message, CountFine(m), row[m].attempts \in Nat, row'[m].attempts \in Nat,
         row'[m].attempts <= row[m].attempts + 1,
         NEW w \in Holders(m), Holders(m)' = Holders(m) \ {w}
  PROVE  CountFine(m)'
<1>1. /\ Cardinality(Holders(m)) \in Nat /\ Cardinality(Worker) \in Nat /\ IsFiniteSet(Holders(m))
  BY Counts
<1>2. Cardinality(Holders(m) \ {w}) = Cardinality(Holders(m)) - 1
  BY <1>1, FS_RemoveElement
<1>3. Cardinality(Holders(m))' = Cardinality(Holders(m)) - 1
  BY <1>2
<1> QED
  BY <1>1, <1>3, ConfigAssumption DEF CountFine

-------------------------------------------------------------------------------
(* Init satisfies the inductive invariant: the table is empty.               *)
LEMMA InitInvariant == Init => IInv
<1> SUFFICES ASSUME Init PROVE IInv
  OBVIOUS
<1>1. row \in [Message -> Row]
  BY DEF Init, Row
<1>2. At("requeue") \in Pass /\ At("requeue").pc = "requeue" /\ At("requeue").batch = {}
  BY PassType
<1>3. worker \in [Worker -> Pass]
  BY <1>2 DEF Init
<1>4. delivered \subseteq Message /\ stops \in 0..MaxStops
  BY ConfigAssumption DEF Init
<1>5. TypeOK
  BY <1>1, <1>3, <1>4 DEF TypeOK
<1>6. PassCoherent
  BY <1>2 DEF Init, PassCoherent
<1>7. SentWasDelivered /\ GivenUpWhenExhausted /\ LockedIffClaimed
  BY ConfigAssumption DEF Init, SentWasDelivered, GivenUpWhenExhausted, LockedIffClaimed
<1>8. ASSUME NEW m \in Message PROVE CountFine(m)
  <2>1. row[m].attempts = 0
    BY DEF Init
  <2>2. Cardinality(Holders(m)) \in Nat /\ Cardinality(Worker) \in Nat
        /\ Cardinality(Holders(m)) <= Cardinality(Worker)
    BY Counts
  <2> QED
    BY <2>1, <2>2, ConfigAssumption DEF CountFine
<1> QED
  BY <1>5, <1>6, <1>7, <1>8 DEF IInv

(* A step of a pass that leaves the table alone.                             *)
LEMMA PassOnly ==
  ASSUME IInv, row' = row, delivered' = delivered, stops' \in 0..MaxStops,
         NEW w \in Worker, NEW pc \in {"down", "stopped", "requeue"},
         worker' = [worker EXCEPT ![w] = At(pc)]
  PROVE  IInv'
<1>1. At(pc) \in Pass /\ At(pc).pc = pc /\ At(pc).batch = {}
  BY PassType
<1>2. TypeOK'
  BY <1>1 DEF IInv, TypeOK
<1>3. \A v \in Worker : worker'[v] = IF v = w THEN At(pc) ELSE worker[v]
  BY DEF IInv, TypeOK
<1>4. PassCoherent'
  BY <1>1, <1>3 DEF IInv, PassCoherent
<1>5. ASSUME NEW m \in Message PROVE RowFine(row'[m], m, delivered') /\ CountFine(m)'
  <2>1. Holders(m)' \subseteq Holders(m)
    BY <1>1, <1>3 DEF Holders
  <2>2. RowFine(row[m], m, delivered) /\ CountFine(m) /\ row[m].attempts \in Nat
    BY RowByRow DEF RowFine, Row
  <2> QED
    BY <2>1, <2>2, CountKept
<1> QED
  BY <1>2, <1>4, <1>5, Assembled

(* A step of the table that leaves the passes alone.                         *)
LEMMA RowOnly ==
  ASSUME IInv, NEW m \in Message, NEW x, RowFine(x, m, delivered),
         x.attempts = row[m].attempts \/ x.attempts < MaxAttempts,
         row' = [row EXCEPT ![m] = x], UNCHANGED <<worker, delivered, stops>>
  PROVE  IInv'
<1>1. \A k \in Message : row'[k] = IF k = m THEN x ELSE row[k]
  BY DEF IInv, TypeOK
<1>2. TypeOK'
  BY DEF IInv, TypeOK, RowFine
<1>3. PassCoherent'
  BY DEF IInv, PassCoherent
<1>4. ASSUME NEW k \in Message PROVE RowFine(row'[k], k, delivered') /\ CountFine(k)'
  <2>1. RowFine(row[k], k, delivered) /\ CountFine(k) /\ row[k].attempts \in Nat /\ row'[k].attempts \in Nat
    BY <1>2, RowByRow DEF RowFine, Row, TypeOK
  <2>2. Holders(k)' = Holders(k)
    BY DEF Holders
  <2>3. RowFine(row'[k], k, delivered')
    BY <1>1, <2>1
  <2>4. CASE row'[k].attempts = row[k].attempts
    BY <2>1, <2>2, <2>3, <2>4, CountKept
  <2>5. CASE row'[k].attempts < MaxAttempts
    BY <2>1, <2>3, <2>5, CountLeft
  <2> QED
    BY <1>1, <2>4, <2>5
<1> QED
  BY <1>2, <1>3, <1>4, Assembled

(* Returning the stale claims, whoever still holds them.                     *)
LEMMA RequeueStalledKeeps ==
  ASSUME IInv, NEW w \in Worker, RequeueStalled(w)
  PROVE  IInv'
<1>1. At("claim") \in Pass /\ At("claim").pc = "claim" /\ At("claim").batch = {}
  BY PassType
<1>2. \A m \in Message : /\ row'[m] = IF m \in Stalled THEN requeue_stalled(row[m]) ELSE row[m]
                         /\ RowFine(row[m], m, delivered)
  BY RowByRow DEF RequeueStalled
<1>3. ASSUME NEW m \in Message PROVE RowFine(row'[m], m, delivered')
  <2>1. delivered' = delivered /\ RowFine(row[m], m, delivered)
    BY <1>2 DEF RequeueStalled
  <2>2. m \in Stalled => row[m].status = "in_progress"
    BY DEF Stalled
  <2>3. row[m].status = "in_progress" => RowFine(requeue_stalled(row[m]), m, delivered)
    BY <2>1, UpdatesFine
  <2> QED
    BY <1>2, <2>1, <2>2, <2>3
<1>4. TypeOK'
  <2>1. row' \in [Message -> Row]
    BY <1>3 DEF RequeueStalled, RowFine
  <2> QED
    BY <2>1, <1>1 DEF RequeueStalled, IInv, TypeOK
<1>5. \A v \in Worker : worker'[v] = IF v = w THEN At("claim") ELSE worker[v]
  BY DEF RequeueStalled, IInv, TypeOK
<1>6. PassCoherent'
  BY <1>1, <1>5 DEF IInv, PassCoherent, RequeueStalled
<1>7. ASSUME NEW m \in Message PROVE CountFine(m)'
  <2>1. CountFine(m) /\ row[m].attempts \in Nat
    BY <1>2, RowByRow DEF RowFine, Row
  <2>2. row'[m].attempts = row[m].attempts
    BY <1>2, UpdatesCount
  <2>3. Holders(m)' \subseteq Holders(m)
    BY <1>1, <1>5 DEF Holders
  <2> QED
    BY <2>1, <2>2, <2>3, CountKept
<1> QED
  BY <1>3, <1>4, <1>6, <1>7, Assembled

(* Claiming a batch: what is queued has an attempt left.                     *)
LEMMA ClaimKeeps ==
  ASSUME IInv, NEW w \in Worker, Claim(w)
  PROVE  IInv'
<1>1. PICK S \in SUBSET Due :
      /\ row' = [m \in Message |-> IF m \in S THEN claim(row[m], w) ELSE row[m]]
      /\ worker' = [worker EXCEPT ![w] =
                      [At(IF S = {} THEN "requeue" ELSE "send") EXCEPT !.batch = S]]
  BY DEF Claim
<1>2. delivered' = delivered /\ stops' = stops /\ S \subseteq Message
  BY DEF Claim, Due
<1> DEFINE p == [At(IF S = {} THEN "requeue" ELSE "send") EXCEPT !.batch = S]
<1>3. p \in Pass /\ p.pc # "mark" /\ p.batch = S
  BY <1>2, BatchType
<1>4. worker' = [worker EXCEPT ![w] = p]
  BY <1>1
<1> HIDE DEF p
<1>5. \A m \in Message : /\ row'[m] = IF m \in S THEN claim(row[m], w) ELSE row[m]
                         /\ RowFine(row[m], m, delivered) /\ CountFine(m)
  BY <1>1, RowByRow
<1>6. ASSUME NEW m \in Message PROVE RowFine(row'[m], m, delivered')
  <2>1. m \in S => row[m].status = "queued"
    BY DEF Due
  <2>2. row[m].status = "queued" => RowFine(claim(row[m], w), m, delivered)
    BY <1>5, UpdatesFine
  <2> QED
    BY <1>2, <1>5, <2>1, <2>2
<1>7. TypeOK'
  <2>1. row' \in [Message -> Row]
    BY <1>1, <1>6 DEF RowFine
  <2> QED
    BY <2>1, <1>2, <1>3, <1>4 DEF IInv, TypeOK
<1>8. \A v \in Worker : worker'[v] = IF v = w THEN p ELSE worker[v]
  BY <1>4 DEF IInv, TypeOK
<1>9. PassCoherent'
  BY <1>2, <1>3, <1>8 DEF IInv, PassCoherent
<1>10. ASSUME NEW m \in Message PROVE CountFine(m)'
  <2>1. row[m].attempts \in Nat /\ row'[m].attempts = row[m].attempts
    <3>1. row[m].attempts \in Nat
      BY <1>5 DEF RowFine, Row
    <3> QED
      BY <1>5, <3>1, UpdatesCount
  <2>2. CASE m \in S
    <3>1. row[m].attempts < MaxAttempts
      BY <1>5, <2>2 DEF Due, RowFine
    <3> QED
      BY <2>1, <3>1, CountLeft
  <2>3. CASE m \notin S
    <3>1. Holders(m)' \subseteq Holders(m)
      BY <1>3, <1>8, <2>3 DEF Holders
    <3> QED
      BY <1>5, <2>1, <3>1, CountKept
  <2> QED
    BY <2>2, <2>3
<1> QED
  BY <1>6, <1>7, <1>9, <1>10, Assembled

(* Posting a message: what the provider has taken it keeps.                  *)
LEMMA SendKeeps ==
  ASSUME IInv, NEW w \in Worker, NEW m \in Message, NEW taken \in BOOLEAN, NEW answered \in BOOLEAN,
         Send(w, m, taken, answered)
  PROVE  IInv'
<1> DEFINE p == [pc |-> "mark", batch |-> worker[w].batch, msg |-> m, ok |-> answered]
<1>1. p \in Pass /\ m \in worker[w].batch
  BY DEF Send, IInv, TypeOK, Pass
<1>2. \A v \in Worker : worker'[v] = IF v = w THEN p ELSE worker[v]
  BY DEF Send, IInv, TypeOK
<1>3. delivered \subseteq delivered' /\ delivered' \subseteq Message /\ (answered => m \in delivered')
  BY DEF Send, IInv, TypeOK
<1>4. TypeOK'
  BY <1>1, <1>3 DEF Send, IInv, TypeOK
<1>5. ASSUME NEW k \in Message PROVE RowFine(row'[k], k, delivered') /\ CountFine(k)'
  <2>1. RowFine(row[k], k, delivered) /\ CountFine(k) /\ row' = row /\ row[k].attempts \in Nat
    BY RowByRow DEF Send, RowFine, Row
  <2>2. Holders(k)' \subseteq Holders(k)
    BY <1>2 DEF Holders
  <2>3. RowFine(row'[k], k, delivered')
    BY <1>3, <2>1 DEF RowFine
  <2> QED
    BY <2>1, <2>2, <2>3, CountKept
<1>6. PassCoherent'
  BY <1>1, <1>2, <1>3 DEF IInv, PassCoherent
<1> QED
  BY <1>4, <1>5, <1>6, Assembled

(* Recording the outcome, which lets go of the row.                          *)
LEMMA MarkKeeps ==
  ASSUME IInv, NEW w \in Worker, Mark(w)
  PROVE  IInv'
<1>0. PICK m : m = worker[w].msg
  OBVIOUS
<1> DEFINE rest == worker[w].batch \ {m}
           x == IF worker[w].ok THEN mark_sent(row[m]) ELSE mark_failed(row[m])
           p == [At(IF rest = {} THEN "requeue" ELSE "send") EXCEPT !.batch = rest]
<1>1. /\ m \in worker[w].batch /\ m \in Message /\ rest \subseteq Message
      /\ worker[w].ok \in BOOLEAN /\ worker[w].ok => m \in delivered
  BY <1>0 DEF Mark, IInv, PassCoherent, TypeOK, Pass
<1>2. row' = [row EXCEPT ![m] = x] /\ delivered' = delivered /\ stops' = stops
  BY <1>0 DEF Mark
<1>3. worker' = [worker EXCEPT ![w] = p]
  BY <1>0 DEF Mark
<1>4. p \in Pass /\ p.pc # "mark" /\ p.batch = rest
  <2>1. rest \in SUBSET Message
    BY <1>1
  <2> HIDE DEF rest
  <2> QED
    BY <2>1, BatchType
<1>5. /\ RowFine(x, m, delivered)
      /\ row[m].attempts \in Nat /\ x.attempts \in Nat /\ x.attempts <= row[m].attempts + 1
  <2>1. RowFine(row[m], m, delivered) /\ row[m].attempts \in Nat
    BY <1>1, RowByRow DEF RowFine, Row
  <2>2. /\ m \in delivered => RowFine(mark_sent(row[m]), m, delivered)
        /\ RowFine(mark_failed(row[m]), m, delivered)
    BY <2>1, UpdatesFine
  <2>3. RowFine(x, m, delivered)
    BY <1>1, <2>2
  <2>4. x.attempts \in {row[m].attempts, row[m].attempts + 1}
    BY UpdatesCount
  <2> QED
    BY <2>1, <2>3, <2>4
<1> HIDE DEF p, x
<1>6. \A v \in Worker : worker'[v] = IF v = w THEN p ELSE worker[v]
  BY <1>3 DEF IInv, TypeOK
<1>7. \A k \in Message : row'[k] = IF k = m THEN x ELSE row[k]
  BY <1>2 DEF IInv, TypeOK
<1>8. TypeOK'
  BY <1>2, <1>3, <1>4, <1>5 DEF IInv, TypeOK, RowFine
<1>9. PassCoherent'
  BY <1>2, <1>4, <1>6 DEF IInv, PassCoherent
<1>10. ASSUME NEW k \in Message PROVE RowFine(row'[k], k, delivered') /\ CountFine(k)'
  <2>1. RowFine(row[k], k, delivered) /\ CountFine(k) /\ row[k].attempts \in Nat
    BY RowByRow DEF RowFine, Row
  <2>2. RowFine(row'[k], k, delivered')
    BY <1>2, <1>5, <1>7, <2>1
  <2>3. CASE k = m
    <3>1. w \in Holders(m) /\ Holders(m)' = Holders(m) \ {w}
      <4>1. m \in worker[w].batch /\ worker'[w].batch = worker[w].batch \ {m}
        BY <1>1, <1>4, <1>6
      <4>2. \A v \in Worker \ {w} : worker'[v] = worker[v]
        BY <1>6
      <4> QED
        BY <1>1, <4>1, <4>2 DEF Holders
    <3>2. row'[m] = x
      BY <1>1, <1>7
    <3> QED
      <4>1. CountFine(m) /\ row'[m].attempts \in Nat /\ row'[m].attempts <= row[m].attempts + 1
        BY <1>5, <2>1, <2>3, <3>2
      <4>2. CountFine(m)'
        BY <1>1, <1>5, <3>1, <4>1, CountMarked
      <4>3. CountFine(k)'
        BY <2>3, <4>2
      <4> QED
        BY <2>2, <4>3
  <2>4. CASE k # m
    <3>1. Holders(k)' \subseteq Holders(k)
      BY <1>4, <1>6, <2>4 DEF Holders
    <3> QED
      BY <1>7, <2>1, <2>2, <2>4, <3>1, CountKept
  <2> QED
    BY <2>3, <2>4
<1> QED
  BY <1>8, <1>9, <1>10, Assembled

(* The inductive invariant holds in every step.                              *)
LEMMA StepInvariant == IInv /\ [Next]_vars => IInv'
<1> SUFFICES ASSUME IInv, [Next]_vars PROVE IInv'
  OBVIOUS
<1>1. ASSUME NEW w \in Worker, WorkerStep(w) PROVE IInv'
  BY <1>1, RequeueStalledKeeps, ClaimKeeps, MarkKeeps, SendKeeps DEF WorkerStep
<1>2. ASSUME NEW w \in Worker, Crash(w) \/ Sigterm(w) \/ Start(w) PROVE IInv'
  <2>0. stops \in 0..MaxStops
    BY DEF IInv, TypeOK
  <2>1. CASE Crash(w)
    <3>1. stops' \in 0..MaxStops
      BY <2>0, <2>1, ConfigAssumption DEF Crash
    <3> QED
      BY <2>1, <3>1, PassOnly DEF Crash
  <2>2. CASE Sigterm(w)
    <3>1. stops' \in 0..MaxStops
      BY <2>0, <2>2, ConfigAssumption DEF Sigterm
    <3> QED
      BY <2>2, <3>1, PassOnly DEF Sigterm
  <2>3. CASE Start(w)
    BY <2>0, <2>3, PassOnly DEF Start
  <2> QED
    BY <1>2, <2>1, <2>2, <2>3
<1>3. ASSUME NEW m \in Message, Enqueue(m) \/ ClaimGoesStale(m) \/ BackoffElapses(m) \/ Prune(m)
      PROVE  IInv'
  <2>1. RowFine(row[m], m, delivered) /\ row[m] \in Row
    BY RowByRow DEF RowFine
  <2>3. CASE Enqueue(m)
    <3>1. RowFine(Unlocked("queued", 0, TRUE), m, delivered) /\ Unlocked("queued", 0, TRUE).attempts < MaxAttempts
      BY <2>1, NullAssumption, ConfigAssumption DEF RowFine, Row, Unlocked
    <3> QED
      BY <2>3, <3>1, RowOnly DEF Enqueue
  <2>4. CASE ClaimGoesStale(m)
    <3>1. /\ RowFine([row[m] EXCEPT !.stale = TRUE], m, delivered)
          /\ [row[m] EXCEPT !.stale = TRUE].attempts = row[m].attempts
      BY <2>1 DEF RowFine, Row
    <3>2. row' = [row EXCEPT ![m] = [row[m] EXCEPT !.stale = TRUE]]
      BY <2>4 DEF ClaimGoesStale
    <3> QED
      BY <2>4, <3>1, <3>2, RowOnly DEF ClaimGoesStale
  <2>5. CASE BackoffElapses(m)
    <3>1. /\ RowFine([row[m] EXCEPT !.due = TRUE], m, delivered)
          /\ [row[m] EXCEPT !.due = TRUE].attempts = row[m].attempts
      BY <2>1 DEF RowFine, Row
    <3>2. row' = [row EXCEPT ![m] = [row[m] EXCEPT !.due = TRUE]]
      BY <2>5 DEF BackoffElapses
    <3> QED
      BY <2>5, <3>1, <3>2, RowOnly DEF BackoffElapses
  <2>6. CASE Prune(m)
    <3>1. /\ RowFine([row[m] EXCEPT !.status = "pruned"], m, delivered)
          /\ [row[m] EXCEPT !.status = "pruned"].attempts = row[m].attempts
      BY <2>1, <2>6 DEF RowFine, Row, Prune
    <3>2. row' = [row EXCEPT ![m] = [row[m] EXCEPT !.status = "pruned"]]
      BY <2>6 DEF Prune
    <3> QED
      BY <2>6, <3>1, <3>2, RowOnly DEF Prune
  <2> QED
    BY <1>3, <2>3, <2>4, <2>5, <2>6
<1>4. CASE UNCHANGED vars
  BY <1>4 DEF vars, IInv, TypeOK, PassCoherent, SentWasDelivered, GivenUpWhenExhausted, LockedIffClaimed,
              CountFine, Holders
<1> QED
  BY <1>1, <1>2, <1>3, <1>4 DEF Next

(* The inductive invariant holds in every reachable state.                   *)
LEMMA Invariance == Spec => []IInv
  BY InitInvariant, StepInvariant, PTL DEF Spec

(* The table and the passes keep their types (email_outbox.rs, run_once).    *)
THEOREM TypeCorrect == Spec => []TypeOK
<1>1. IInv => TypeOK
  BY DEF IInv
<1> QED
  BY <1>1, Invariance, PTL

(* Between claim and mark a pass knows what it does: the message in hand is  *)
(* of its batch, and an answered post was taken (run_once).                  *)
THEOREM PassesCoherent == Spec => []PassCoherent
<1>1. IInv => PassCoherent
  BY DEF IInv
<1> QED
  BY <1>1, Invariance, PTL

(* A row marked sent was taken by the provider (mark_sent).                  *)
THEOREM SentTrue == Spec => []SentWasDelivered
<1>1. IInv => SentWasDelivered
  BY DEF IInv
<1> QED
  BY <1>1, Invariance, PTL

(* Rows are given up exactly when their attempts are spent (mark_failed).    *)
THEOREM GivenUpExact == Spec => []GivenUpWhenExhausted
<1>1. IInv => GivenUpWhenExhausted
  BY DEF IInv
<1> QED
  BY <1>1, Invariance, PTL

(* Every claim can be found by its lock (claim, requeue_stalled).            *)
THEOREM ClaimsFindable == Spec => []LockedIffClaimed
<1>1. IInv => LockedIffClaimed
  BY DEF IInv
<1> QED
  BY <1>1, Invariance, PTL

(* However late the passes are, a row counts at most one failure past its    *)
(* cap for each other worker (claim, mark_failed).                           *)
THEOREM CountBounded == Spec => []AttemptsBounded
<1>1. IInv => AttemptsBounded
  <2> SUFFICES ASSUME IInv, NEW m \in Message PROVE row[m].attempts < MaxAttempts + Cardinality(Worker)
    BY DEF AttemptsBounded
  <2>1. Cardinality(Holders(m)) \in Nat /\ Cardinality(Worker) \in Nat
    BY Counts
  <2>2. row[m].attempts \in Nat
    BY DEF IInv, TypeOK, Row
  <2> QED
    BY <2>1, <2>2, ConfigAssumption DEF IInv, CountFine
<1> QED
  BY <1>1, Invariance, PTL

(* A row that is sent or failed is touched by no one but the workers that    *)
(* still have it in their batches (mark_sent, mark_failed, claim,            *)
(* requeue_stalled).                                                         *)
THEOREM TerminalStays == Spec => SettledStays
<1> DEFINE Stays == \A m \in Message :
             row[m].status \in {"sent", "failed"} /\ Holders(m) = {} =>
               row'[m].status \in {row[m].status, "pruned"} /\ Holders(m)' = {}
<1>1. IInv /\ [Next]_vars => [Stays]_vars
  <2> SUFFICES ASSUME IInv, Next, NEW m \in Message, row[m].status \in {"sent", "failed"}, Holders(m) = {}
               PROVE  row'[m].status \in {row[m].status, "pruned"} /\ Holders(m)' = {}
    OBVIOUS
  <2>0. /\ row \in [Message -> Row] /\ worker \in [Worker -> Pass]
        /\ \A w \in Worker : m \notin worker[w].batch
    BY DEF IInv, TypeOK, Holders
  <2>1. ASSUME NEW w \in Worker, NEW p, worker' = [worker EXCEPT ![w] = p], m \notin p.batch
        PROVE  Holders(m)' = {}
    BY <2>0, <2>1 DEF Holders
  <2>2. ASSUME NEW w \in Worker, WorkerStep(w)
        PROVE  row'[m].status \in {row[m].status, "pruned"} /\ Holders(m)' = {}
    <3>1. CASE RequeueStalled(w)
      <4>1. m \notin At("claim").batch
        BY DEF At
      <4>2. row'[m] = row[m] /\ Holders(m)' = {}
        BY <2>1, <3>1, <4>1 DEF RequeueStalled, Stalled
      <4> QED
        BY <4>2
    <3>2. CASE Claim(w)
      <4>1. PICK S \in SUBSET Due :
              /\ row' = [k \in Message |-> IF k \in S THEN claim(row[k], w) ELSE row[k]]
              /\ worker' = [worker EXCEPT ![w] =
                              [At(IF S = {} THEN "requeue" ELSE "send") EXCEPT !.batch = S]]
        BY <3>2 DEF Claim
      <4>2. m \notin S /\ S \subseteq Message
        BY DEF Due
      <4>3. [At(IF S = {} THEN "requeue" ELSE "send") EXCEPT !.batch = S].batch = S
        BY DEF At
      <4> QED
        BY <2>1, <4>1, <4>2, <4>3
    <3>3. CASE Mark(w)
      <4>1. worker[w].msg \in worker[w].batch
        BY <3>3 DEF Mark, IInv, PassCoherent
      <4>2. m # worker[w].msg
        BY <2>0, <4>1
      <4>3. row'[m] = row[m]
        BY <2>0, <3>3, <4>2 DEF Mark
      <4>4. PICK rest \in SUBSET worker[w].batch :
              worker' = [worker EXCEPT ![w] = [At(IF rest = {} THEN "requeue" ELSE "send") EXCEPT !.batch = rest]]
        BY <3>3 DEF Mark
      <4>5. [At(IF rest = {} THEN "requeue" ELSE "send") EXCEPT !.batch = rest].batch = rest
        BY DEF At
      <4> QED
        BY <2>0, <2>1, <4>3, <4>4, <4>5
    <3>4. ASSUME NEW k \in Message, NEW taken \in BOOLEAN, NEW answered \in BOOLEAN, Send(w, k, taken, answered)
          PROVE  row'[m].status \in {row[m].status, "pruned"} /\ Holders(m)' = {}
      <4>1. worker' = [worker EXCEPT ![w] = [pc |-> "mark", batch |-> worker[w].batch, msg |-> k, ok |-> answered]]
        BY <3>4 DEF Send
      <4> QED
        BY <2>0, <2>1, <3>4, <4>1 DEF Send
    <3> QED
      BY <2>2, <3>1, <3>2, <3>3, <3>4 DEF WorkerStep
  <2>3. ASSUME NEW w \in Worker, Crash(w) \/ Sigterm(w) \/ Start(w)
        PROVE  row'[m].status \in {row[m].status, "pruned"} /\ Holders(m)' = {}
    <3>1. PICK pc : worker' = [worker EXCEPT ![w] = At(pc)] /\ row' = row
      BY <2>3 DEF Crash, Sigterm, Start
    <3>2. m \notin At(pc).batch
      BY DEF At
    <3> QED
      BY <2>1, <3>1, <3>2
  <2>4. ASSUME NEW k \in Message, Enqueue(k) \/ ClaimGoesStale(k) \/ BackoffElapses(k) \/ Prune(k)
        PROVE  row'[m].status \in {row[m].status, "pruned"} /\ Holders(m)' = {}
    <3>1. Holders(m)' = {}
      BY <2>4 DEF Holders, Enqueue, ClaimGoesStale, BackoffElapses, Prune
    <3>2. k # m => row'[m] = row[m]
      BY <2>0, <2>4 DEF Enqueue, ClaimGoesStale, BackoffElapses, Prune
    <3>3. k = m => row'[m].status \in {row[m].status, "pruned"}
      BY <2>0, <2>4 DEF Enqueue, ClaimGoesStale, BackoffElapses, Prune, Row
    <3> QED
      BY <3>1, <3>2, <3>3
  <2> QED
    BY <2>2, <2>3, <2>4 DEF Next
<1> QED
  BY <1>1, Invariance, PTL DEF Spec, SettledStays
===============================================================================
