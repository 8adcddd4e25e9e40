------------------------------ MODULE MailOutbox -------------------------------
(***************************************************************************)
(* The email outbox and the workers that drain it                          *)
(* (crates/cm-db/src/repo/email_outbox.rs, crates/cm-domain/src/mail_worker.rs *)
(* and the mail-worker command of crates/cm-server/src/main.rs).           *)
(*                                                                         *)
(* A worker passes over the table again and again: it returns the claims   *)
(* that are stale, claims a batch, and then posts and marks the messages   *)
(* of the batch one by one, holding no connection while it posts.  It may  *)
(* die or be stopped between any two of these steps.  Time appears as what *)
(* it makes true: a backoff is over, a claim is older than                 *)
(* stale_after_secs.  A batch of 25 posts of up to 30 seconds each is      *)
(* longer than that, so a claim can grow stale in the hands of its worker  *)
(* and be taken over while the first one is still posting.                 *)
(*                                                                         *)
(* Bodies, recipients, the rate limit's sleep and the counters of a pass   *)
(* are left out: nothing reads them back.  So is what the provider does    *)
(* with a second post of one message, which carries the same               *)
(* Idempotency-Key: that is the provider's own.                            *)
(***************************************************************************)
EXTENDS Integers, FiniteSets

CONSTANTS
  Message,      \* outbox rows, each inserted once
  NoMessage,
  Worker,       \* mail-worker processes
  NoWorker,
  Batch,        \* config.batch, the LIMIT of a claim
  MaxAttempts,  \* config.max_attempts
  MaxStops      \* bound: how often workers die or are stopped

ASSUME NullAssumption == NoMessage \notin Message /\ NoWorker \notin Worker
ASSUME WorkersAssumption == IsFiniteSet(Worker)
ASSUME ConfigAssumption ==
  Batch \in Nat \ {0} /\ MaxAttempts \in Nat \ {0} /\ MaxStops \in Nat

VARIABLES
  row,        \* the email_outbox table
  worker,     \* the passes in progress
  delivered,  \* the rows whose mail the provider has taken
  stops       \* how often a worker has died or been stopped

vars == <<row, worker, delivered, stops>>

Row ==
  [status   : {"absent", "queued", "in_progress", "sent", "failed", "pruned"},
   attempts : Nat,
   due      : BOOLEAN,                  \* next_attempt_at <= now()
   holder   : Worker \cup {NoWorker},   \* locked_by, NULL with locked_at
   stale    : BOOLEAN]                  \* locked_at is older than stale_after_secs

Pass ==
  [pc    : {"down", "stopped", "requeue", "claim", "send", "mark"},
   batch : SUBSET Message,              \* what remains of the claimed batch
   msg   : Message \cup {NoMessage},    \* the message being posted
   ok    : BOOLEAN]                     \* what mailer.send returned

TypeOK ==
  /\ row \in [Message -> Row]
  /\ worker \in [Worker -> Pass]
  /\ delivered \subseteq Message
  /\ stops \in 0..MaxStops

At(pc) == [pc |-> pc, batch |-> {}, msg |-> NoMessage, ok |-> FALSE]

Init ==
  /\ row = [m \in Message |->
              [status |-> "absent", attempts |-> 0, due |-> TRUE, holder |-> NoWorker, stale |-> FALSE]]
  /\ worker = [w \in Worker |-> At("requeue")]
  /\ delivered = {}
  /\ stops = 0

-------------------------------------------------------------------------------
(* The repository: what each UPDATE makes of a row.                          *)

Unlocked(status, attempts, due) ==
  [status |-> status, attempts |-> attempts, due |-> due, holder |-> NoWorker, stale |-> FALSE]

\* Mutant: the lock is taken off and the status left as it is.
RequeuedUnlockedOnly(x) == Unlocked(x.status, x.attempts, x.due)
requeue_stalled(x) == Unlocked("queued", x.attempts, x.due)

claim(x, w) ==
  [status |-> "in_progress", attempts |-> x.attempts, due |-> x.due, holder |-> w, stale |-> FALSE]

mark_sent(x) == Unlocked("sent", x.attempts, x.due)

\* Mutant: the cap is tested on the value before the increment.
MarkFailedLate(x) ==
  Unlocked(IF x.attempts >= MaxAttempts THEN "failed" ELSE "queued", x.attempts + 1, FALSE)
mark_failed(x) ==
  Unlocked(IF x.attempts + 1 >= MaxAttempts THEN "failed" ELSE "queued", x.attempts + 1, FALSE)

Stalled == {m \in Message : row[m].status = "in_progress" /\ row[m].stale}
\* Mutant: the claim looks at the time of the next attempt alone.
DueByTime == {m \in Message : row[m].status # "absent" /\ row[m].due}
Due == {m \in Message : row[m].status = "queued" /\ row[m].due}
Least(a, b) == IF a <= b THEN a ELSE b

-------------------------------------------------------------------------------
(* enqueue, in the transaction that has the reason for the mail.             *)
Enqueue(m) ==
  /\ row[m].status = "absent"
  /\ row' = [row EXCEPT ![m] = Unlocked("queued", 0, TRUE)]
  /\ UNCHANGED <<worker, delivered, stops>>

(* A pass begins by returning the stale claims, whoever made them.           *)
RequeueStalled(w) ==
  /\ worker[w].pc = "requeue"
  /\ row' = [m \in Message |-> IF m \in Stalled THEN requeue_stalled(row[m]) ELSE row[m]]
  /\ worker' = [worker EXCEPT ![w] = At("claim")]
  /\ UNCHANGED <<delivered, stops>>

(* One statement claims as many due rows as the batch allows.  Which ones,   *)
(* when there are more, depends on their times.                              *)
Claim(w) ==
  /\ worker[w].pc = "claim"
  /\ \E S \in SUBSET Due :
       /\ Cardinality(S) = Least(Batch, Cardinality(Due))
       /\ row' = [m \in Message |-> IF m \in S THEN claim(row[m], w) ELSE row[m]]
       /\ worker' = [worker EXCEPT ![w] =
                       [At(IF S = {} THEN "requeue" ELSE "send") EXCEPT !.batch = S]]
  /\ UNCHANGED <<delivered, stops>>

(* mailer.send: the provider takes the mail and says so, takes it and the    *)
(* answer is lost, or does not take it.                                      *)
Send(w, m, taken, answered) ==
  /\ worker[w].pc = "send" /\ m \in worker[w].batch
  /\ answered => taken
  /\ delivered' = IF taken THEN delivered \cup {m} ELSE delivered
  /\ worker' = [worker EXCEPT ![w] = [pc |-> "mark", batch |-> @.batch, msg |-> m, ok |-> answered]]
  /\ UNCHANGED <<row, stops>>

\* Mutant: the outcome of the post is not looked at.
MarkAllSent(w) ==
  /\ worker[w].pc = "mark"
  /\ LET m == worker[w].msg
         rest == worker[w].batch \ {m}
     IN /\ row' = [row EXCEPT ![m] = mark_sent(@)]
        /\ worker' = [worker EXCEPT ![w] =
                        [At(IF rest = {} THEN "requeue" ELSE "send") EXCEPT !.batch = rest]]
  /\ UNCHANGED <<delivered, stops>>

\* Mutant: a message that failed is tried again in the same pass.
MarkAndRetry(w) ==
  /\ worker[w].pc = "mark"
  /\ LET m == worker[w].msg
         rest == IF worker[w].ok THEN worker[w].batch \ {m} ELSE worker[w].batch
     IN /\ row' = [row EXCEPT ![m] = IF worker[w].ok THEN mark_sent(@) ELSE mark_failed(@)]
        /\ worker' = [worker EXCEPT ![w] =
                        [At(IF rest = {} THEN "requeue" ELSE "send") EXCEPT !.batch = rest]]
  /\ UNCHANGED <<delivered, stops>>

(* The outcome is recorded by the row's id alone.                            *)
Mark(w) ==
  /\ worker[w].pc = "mark"
  /\ LET m == worker[w].msg
         rest == worker[w].batch \ {m}
     IN /\ row' = [row EXCEPT ![m] = IF worker[w].ok THEN mark_sent(@) ELSE mark_failed(@)]
        /\ worker' = [worker EXCEPT ![w] =
                        [At(IF rest = {} THEN "requeue" ELSE "send") EXCEPT !.batch = rest]]
  /\ UNCHANGED <<delivered, stops>>

(* The process dies, or a database error ends it: what it had claimed stays  *)
(* claimed.                                                                  *)
Crash(w) ==
  /\ worker[w].pc \notin {"down", "stopped"} /\ stops < MaxStops
  /\ worker' = [worker EXCEPT ![w] = At("down")]
  /\ stops' = stops + 1
  /\ UNCHANGED <<row, delivered>>

(* SIGTERM: select! drops the future of the pass at whatever it awaits.      *)
Sigterm(w) ==
  /\ worker[w].pc \notin {"down", "stopped"} /\ stops < MaxStops
  /\ worker' = [worker EXCEPT ![w] = At("stopped")]
  /\ stops' = stops + 1
  /\ UNCHANGED <<row, delivered>>

Start(w) ==
  /\ worker[w].pc \in {"down", "stopped"}
  /\ worker' = [worker EXCEPT ![w] = At("requeue")]
  /\ UNCHANGED <<row, delivered, stops>>

-------------------------------------------------------------------------------
(* Time.  A claim grows stale whether its worker is at work on it or gone.   *)
ClaimGoesStale(m) ==
  /\ row[m].status = "in_progress" /\ ~row[m].stale
  /\ row' = [row EXCEPT ![m].stale = TRUE]
  /\ UNCHANGED <<worker, delivered, stops>>

BackoffElapses(m) ==
  /\ row[m].status = "queued" /\ ~row[m].due
  /\ row' = [row EXCEPT ![m].due = TRUE]
  /\ UNCHANGED <<worker, delivered, stops>>

(* prune_emails, thirty days after the row was settled: no pass that still   *)
(* holds it is that old.                                                     *)
Prune(m) ==
  /\ row[m].status \in {"sent", "failed"}
  /\ \A w \in Worker : m \notin worker[w].batch
  /\ row' = [row EXCEPT ![m].status = "pruned"]
  /\ UNCHANGED <<worker, delivered, stops>>

WorkerStep(w) ==
  \/ RequeueStalled(w) \/ Claim(w) \/ Mark(w)
  \/ \E m \in Message, taken \in BOOLEAN, answered \in BOOLEAN : Send(w, m, taken, answered)

Next ==
  \/ \E w \in Worker : WorkerStep(w) \/ Crash(w) \/ Sigterm(w) \/ Start(w)
  \/ \E m \in Message : Enqueue(m) \/ ClaimGoesStale(m) \/ BackoffElapses(m) \/ Prune(m)

Spec == Init /\ [][Next]_vars

(* A worker that is up keeps working (every post ends: 30 s timeout), one    *)
(* that is down is started again by systemd or the deploy, and time passes.  *)
FairSpec ==
  /\ Spec
  /\ \A w \in Worker : WF_vars(WorkerStep(w)) /\ WF_vars(Start(w))
  /\ \A m \in Message : WF_vars(ClaimGoesStale(m)) /\ WF_vars(BackoffElapses(m))

-------------------------------------------------------------------------------
(* Properties                                                                *)

(* A row that says sent was taken by the provider, even when the mark came   *)
(* from a worker whose claim had been taken over (mark_sent).                *)
SentWasDelivered ==
  \A m \in Message : row[m].status = "sent" => m \in delivered

(* A row is given up only after MaxAttempts counted failures, and is out of  *)
(* the queue from then on (mark_failed).                                     *)
GivenUpWhenExhausted ==
  \A m \in Message :
    /\ row[m].status = "failed" => row[m].attempts >= MaxAttempts
    /\ row[m].status \in {"queued", "in_progress"} => row[m].attempts < MaxAttempts

(* A claimed row carries its lock and no other row does, so requeue_stalled, *)
(* which compares locked_at, can find every abandoned claim.                 *)
LockedIffClaimed ==
  \A m \in Message : row[m].status = "in_progress" <=> row[m].holder # NoWorker

(* A post in hand is of a message of the batch, and was taken if it was      *)
(* answered (run_once between claim and mark).                               *)
PassCoherent ==
  \A w \in Worker : worker[w].pc = "mark" =>
    /\ worker[w].msg \in worker[w].batch
    /\ worker[w].ok => worker[w].msg \in delivered

(* Workers with m in their batch.  They may be several: whose claim went     *)
(* stale goes on posting.                                                    *)
Holders(m) == {w \in Worker : m \in worker[w].batch}

(* A row counts MaxAttempts failures, and past them at most one for each     *)
(* other worker that was late with it: marks that go by id alone cannot keep *)
(* a row going (mark_failed, claim).                                         *)
AttemptsBounded == \A m \in Message : row[m].attempts < MaxAttempts + Cardinality(Worker)

(* "Rows in terminal states are pruned": a row that is sent or failed, and   *)
(* that no pass is late with, stays so.  Only the mark of a worker that has  *)
(* it in its batch can open it again (mark_sent, mark_failed, claim,         *)
(* requeue_stalled).                                                         *)
SettledStays ==
  [][\A m \in Message :
       row[m].status \in {"sent", "failed"} /\ Holders(m) = {} =>
         row'[m].status \in {row[m].status, "pruned"} /\ Holders(m)' = {}]_vars

(* Every mail that was enqueued is settled for good in the end: sent, or     *)
(* given up (run_once, requeue_stalled).                                     *)
MailSettles ==
  \A m \in Message :
    row[m].status = "queued" ~> [](row[m].status \in {"sent", "failed", "pruned"})

(* main.rs, of the loop of mail_worker: a deploy never "leaves rows claimed". *)
StopLeavesNothingClaimed ==
  [][\A w \in Worker :
       Sigterm(w) => \A m \in Message : row[m].status = "in_progress" => row[m].holder # w]_vars
===============================================================================
