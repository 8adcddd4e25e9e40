# A TLA+ model of cm-backend

cm-backend is the server of a contractor marketplace: a Rust workspace (axum, sqlx) over one
PostgreSQL database at READ COMMITTED. This directory holds TLA+ models of its concurrent parts, the
TLC runs that check them on small instances, and TLAPS proofs for instances of any size.

## 1. The system

| part | state | operations | what is hard |
|---|---|---|---|
| Authentication (`cm-auth/service.rs`, repos `passwords`, `sessions`, `auth_tokens`, `users`) | credential row (hash, failures, lock), sessions, tokens, account status | register, login in three phases, sign-in codes, reset, change, logout | Argon2 runs with no connection held, so every decision rests on a stale read; row locks; tokens issued and spent by racing requests |
| Federated sign-in and email ownership (`service.rs`, `firebase.rs`, repos `oauth`, `users`) | identities, email and its verification | sign in with or link a provider, request and confirm a new address | uniqueness of addresses and identities under races; a second connection taken inside a transaction |
| Rate limiter (`ratelimit.rs`, repo `rate_limit`) | fixed-window counters | hit, sweep | racing hits at the limit |
| Email outbox (`mail_worker.rs`, `mailer.rs`, repo `email_outbox`) | outbox rows, passes in progress | enqueue, requeue stale, claim, post, mark, prune | workers that die, stop or run late; lost answers of the provider |
| Geocode queue and location (`geocode_worker.rs`, `location.rs`, repo `geocode`) | jobs, published pins | enqueue, claim, mark, publish | an address that changes while its job runs |
| Claims and verification (`claims.rs`, `verification.rs`) | claims, owners, badges | open, withdraw, decide, recompute | decisions that race, a badge computed from facts read earlier |
| Messaging (`messaging.rs`) | conversations, messages, read marks, blocks, reports | start, send, poll, mark read, block, report | one conversation per pair, gapless sequence numbers, a block that races a send |
| Jobs and photos (`jobs.rs`, `contractors.rs`, `cm-storage`) | jobs, photo rows, the profile photo, stored objects | post, close, reopen, cancel, attach, remove, replace | two stores that cannot commit together |
| Saved searches and alerts (`job_alerts.rs`, repo `saved_searches`) | searches, matched marks | save, match, digest, unsubscribe | caps and claims under overlap |
| Board, feed and directory (repos `jobs`, `search`) | none of their own | page after page by a cursor | each page is a snapshot of its own while rows move; sort keys that are NULL |
| Licence import (`import.rs`) | runs, licence rows | batches | death between two batches |
| Ranking, suggestions, quality, cookies, CSRF, configuration, storage client, migrations | none of their own, or set-up | read-only queries, encodings | not concurrent |

The parts meet in the database. Authentication and job alerts enqueue mail in the transaction that has
the reason for it; claims and the import change what the badge is computed from; an address change and
the import enqueue geocode jobs. There are no in-process queues: the actors are HTTP requests, the mail
and geocode workers, timers (prune, alerts, verification) and operators.

## 2. Modules

| module | role |
|---|---|
| `SessionAuthority` | abstract specification: one current password, sessions that live on it |
| `AuthService` | the authentication requests of one account, phase by phase |
| `MCAuthService` | symmetry for its runs |
| `AuthServiceProofs` | TLAPS proofs about `AuthService` |
| `MailOutbox` | the outbox table, the workers, the provider and time |
| `MCMailOutbox` | symmetry for its runs |
| `MailOutboxProofs` | TLAPS proofs about `MailOutbox` |
| `Messaging` | conversations, messages, read marks and blocks |
| `MCMessaging` | symmetry for its runs |
| `MessagingProofs` | TLAPS proofs about `Messaging` |
| `VerifiedBadge` | claims, the licence register, the import, the re-check and the badge |
| `MCVerifiedBadge` | its registers, files and symmetry |
| `VerifiedBadgeProofs` | TLAPS proofs about `VerifiedBadge`: ownership, decisions, the badge that a change of the facts leaves behind, the import's file |
| `Accounts`, `MCAccounts` | accounts, identities and proved addresses over a bounded pool; its two people and their inboxes |
| `AccountsProofs` | TLAPS proofs about `Accounts` |
| `Location`, `MCLocation` | the geocode queue, its workers and the published point of a listing; its ZIPs |
| `LocationProofs` | TLAPS proofs about `Location` |
| `Photos`, `MCPhotos` | jobs, photo rows and the bucket; symmetry |
| `Alerts`, `MCAlerts` | saved searches and the alert passes; the searches' filters |
| `AlertsProofs` | TLAPS proofs about `Alerts` |
| `Paging`, `MCPaging` | a reader with a cursor over the board, the feed or the directory; one query of each kind |
| `PhotosPagingProofs` | TLAPS proofs about `Photos` and about `Paging` |

A module holds what meets in the same rows. Claims, the import and the badge do, and are one module; so do
the worker, the owner's edit and the import in `Location`. Between the modules only values pass that one
side writes and the other reads: the owner of a listing (claims to messaging, `ClaimListing` there), a
verified address (accounts to alerts, `mark_email_verified` there), the published point, the quality and
the coverage of a listing (to paging: `Republish`, `Rescore`, `ServiceAreas` there). Authentication, accounts
and alerts enqueue mail in their own transaction and never read the outbox. In each reader such a value
changes at any time, which contains what the writer's module can do.
`Photos` and `Paging` share no variable; `Paging` names its definitions `PagingInit`, `PagingSpec` and so on, so
that one module of proofs can extend both.

### AuthService

A request is a record with a program counter. A handler is cut into actions exactly where the code lets
go of the database or waits for it:

| handler | actions |
|---|---|
| `login` | `LoginPrecheck` (reads, releases) -> `ClearElapsedLock`? -> `LoginFails` or `LoginVerified` (Argon2) -> `LoginRevalidated` or `LoginStale` (row lock) -> `LoginCommit` -> `UpgradeHash`? |
| `verify_login_code` | `VerifyCode` (own connection) -> `CodeSession` (transaction) |
| `resend_login_code` | `ResendCode` -> `ResendIssue` (the UPDATE's snapshot) -> `ResendCommit` |
| `request_password_reset` | `RequestReset` -> `ResetLinkIssue` -> `ResetLinkCommit` |
| `confirm_password_reset` | `PeekLink` (then hashing) -> `ConfirmReset` or `ResetLinkGone` |
| `change_password` | `ChangeRequest` (reads, verifies, hashes) -> `ChangeRevalidated` or `ChangeConflict` -> `ChangeCommit` |
| `logout`, `logout_all` | `Logout`, `LogoutAll` |

`Abandon` ends a request anywhere (30-second timeout, client gone, error, crash): its transaction rolls
back and its lock is released. `pwLock` is the lock of `find_for_update`; every other writer of the
credential row waits for it. `SupportSetsStatus`, `LockElapses`, `TokenExpires` and `SessionExpires` are
the environment. A hash is the password it verifies, a salt that never repeats and whether its
parameters are old. A session and a token are named by the request that made them, which is no loss
because no request makes two. Sessions carry the password or the code that opened them, for the
properties only. Two reads by one statement group with no effect between them are one step; audit rows
and rate limits (which only end a request early, as `Abandon` does) are left out. So are the session's
sliding window (`touch`): a live session may expire at any time.

### MailOutbox

A row is a record as the repository's UPDATEs see it; a pass is a worker's place in `run_once`. Time
appears as what it makes true: `BackoffElapses`, `ClaimGoesStale`. A claim may go stale in the hands of a
worker that is still posting, because the defaults allow it: 25 posts of up to 30 seconds each against 600
seconds. Every property is about that case too. `Send` has three outcomes, the lost answer included. What
the provider does with a second post of one row, which carries the same `Idempotency-Key`, is its own and
not modelled, so nothing is said of how often a mail arrives. `Crash` is the death of a worker or a database error that ends its
command; `Sigterm` is a deploy, which drops the pass at its next await. `Prune` is `prune_emails`, thirty
days after a row was settled, by when no pass holds it.

### Messaging

Starting and sending are transactions of several statements, and each is cut where another transaction can
come between:

| operation | actions |
|---|---|
| `start_with_contractor`, `start_with_job` | the checks (listing, posting, blocks) -> `InsertThread` (the unique index over the pair) -> `StartCommit`; or, when the INSERT did nothing, `FindThread` |
| `send` | the checks (participation, blocks) -> `TakeSeq` (`UPDATE ... RETURNING last_seq`, holds the row) -> `SendCommit` |
| poll, mark read, remove a message | `Poll`, `MarkRead`, `DeleteMessage`: one statement each |
| block, unblock | `Block`, `Unblock` |
| claims, listing edits, closing and reopening a posting | `ClaimListing`, `SetAcceptsDm`, `CloseJob`, `ReopenJob`: as far as messaging reads them |

`Abandon` rolls a transaction back. `InsertThread` and `FindThread` wait while another transaction is
inserting the same pair (`Inserting`), as the index makes them; `TakeSeq` waits while another has the row
(`Writing`). A conversation and a message are named by the request that made them. The poll cursor is the
client's: it sends back the `next_seq` it was given. `MarkRead` takes any number up to `last_seq`, because
calls overtake one another. `before` and `seen` are observers that only properties read: which requests had
passed their checks when a block was made, and what a user's polls have returned. Reports, audit rows,
rate limits and the checks on a body's text are left out.

### VerifiedBadge

Three kinds of transactions of several statements write the same rows. A row is a cell: the committed value
(`now`), what the transaction that has locked it wrote (`new`), and who that is (`by`). A statement reads its
own writes and otherwise what is committed (`See`), and an UPDATE waits until the row is `Free`.

| operation | actions |
|---|---|
| `claims::open` | `Open` (the two checks) -> `InsertClaim` -> `DecideClaim` -> `attach_claimant` -> recompute -> `CommitRequest` |
| `claims::decide` | `Review` -> `DecideClaim` -> `attach_claimant` if approved -> recompute -> `CommitRequest` |
| `claims::withdraw` | `Review` -> `DecideClaim` or `WithdrawNothing` -> `CommitRequest` |
| `verification::recompute` | `ReadFacts` (owner and licence, no lock) -> `set_verification` (waits for the row) |
| `import::run` | `begin_run` -> (`Gather` -> (`upsert` -> `upsert_from_license` -> recompute)* -> `CommitBatch`)* -> `finish_run`; `ImportStops` anywhere |
| `recompute_all` | `StartPass` -> (`NextPage` -> (`NextRow` -> recompute)* -> `CommitPage`)*; `PassFails` anywhere |

The partial unique indexes of `contractor_claims` are the guards of `InsertClaim` and `DecideClaim`: a
committed rival is a conflict (`GiveUp`), an uncommitted one is waited for. `KeyShare` is the lock that a
foreign key takes on the listing, and `MayRefer` when it is granted; `attach_claimant` changes a column of a
unique constraint and so waits for those locks too. `GiveUp` stands for a conflict, an error, the timeout and
the victim of a deadlock: the transaction rolls back. `Waiting` are claims left pending from before claims
approved themselves; they are what `decide` and `withdraw` still work on. A licence's contents are what the
badge tells apart: active, active until a date, anything else.

recompute's two reads are one step because an owner never changes (`DecisionsFinal`) and only the claimant's
own transaction, which sees itself, adds one; the licence is the later read. Left out: audit rows, recorded
checks (but for their lock), roles, licence versions, the reasons' text, trades, names, the place of a
listing, the dry run. One import runs at a time.

### Accounts

One transaction per request, cut at each row or unique key it has to get: `todo` lists them in the order of
the code's statements, `held` are those it has. `Take` waits while another request holds the key
(`Holder`), `Refused` ends the request if a committed row has it, the token is spent or the password is no
longer the account's (`Taken`), and it goes on otherwise; `Commit` makes everything visible at once.

| operation | keys, in order |
|---|---|
| `register` | the address |
| `login` from a browser that is not remembered | the credential row (`revalidate`), then what `issue_challenge` takes |
| `verify_login_code` | the code in a statement of its own (`verify_code`), pause, the account's row |
| `resend_login_code` | (the code and the address are read) pause, then what `issue_challenge` takes |
| `request_password_reset` | (the account is found by its address) pause, then what `auth_tokens::issue` takes |
| `confirm_password_reset` | (the link is peeked at, the password hashed) pause, the link, the credential row, the account's row |
| `sign_in_with_provider` | for a new identity the address, then the identity; for a known one the account's row if the claim is honoured (`Honours`) |
| `link_provider` | the identity, the account's slot for the provider, a share of the account's row (foreign key) |
| `request_email_verification` | a second connection (`enforce`), then what `auth_tokens::issue` takes |
| `confirm_email` | the code, then (`AfterSpending`) the account's row, or, for another address, the row for an update of its key, the old address and the new one |

`auth_tokens::issue` takes the earlier tokens of the account and the purpose, in whatever order they are
scanned, and a share of the account's row (`Issuing`); it spends the tokens it has taken, while one that was
issued meanwhile stays as it is. A paused request holds no connection and goes on with `Resume`.

`Blocks` says which locks keep each other out: a row has three kinds, its update, the share that a foreign key
takes (which an update of other columns does not disturb) and the update of the address, which has a unique
index and keeps both others out.

The pool is a number of free connections. `Timeout` is `acquire_timeout`, `Drop` a client that goes, a death or
an error, `DeadlockVictim` PostgreSQL ending one of a ring of waiting transactions. A code or a link is known to
who reads the inbox it went to; the digest of `email_verify_hash` binds the address. A provider that says
an address is verified tells the truth; one that does not, and the browser, may name any address. Whoever
starts as signed in may do so because an identity of theirs is linked, or because they chose the password
and a browser of theirs has once completed a code (`SignedIn`, `remembered`).

All four writers of `email_verified_at` are there: `confirm_email`, `verify_login_code`,
`sign_in_with_provider` and `confirm_password_reset`. The module shares with `AuthService` the handlers that
prove an address or set a password, as far as the address, the password's owner, the keys and the connections
go; hashes, lockout, attempts, expiry, sessions, `change_password` and what a login does from a remembered
browser are in `AuthService` only.

### Location

| operation | actions |
|---|---|
| `update_profile` (handler and repo), `relocate_after_address_change` | `UpdateProfile`: one transaction under the listing's row lock |
| `flush` of a licence record | `Import`: a new ZIP publishes and enqueues, a new street alone does neither |
| `run_once` | `Claim` -> `Read` (address, then the geocoder with nothing held) -> `SetPrecisePoint` (takes the row) -> `Apply` (republish, mark, commit); or `Skip`; or `Fail` |
| SIGTERM, death | `Die`; time: `ClaimGoesStale`, `BackoffElapses` |

`republish` is the rule, as an operator on the row; `PublishedIsTheRule` states it again for every reachable
state. A mark goes by job id alone, so a late worker may mark a job another has claimed since. `Fail`
contains the unique index refusing to open a second job, which ends that worker's command. Settled jobs are
kept.

### Photos

| operation | actions |
|---|---|
| `jobs::close` as closed, `jobs::reopen`, `jobs::post` | `close`, `reopen`, `post` |
| `jobs::close` as cancelled | `CancelKeys` (row lock, keys read) -> `CancelRows` (rows deleted, commit) or `CancelFails` -> `delete`* |
| `attach_photo`, `add_work_photo` | the count -> `put` or `PutFails` -> `Slot` (the INSERT's snapshot) -> `insert` (the unique constraint) |
| `remove_photo`, `remove_work_photo` | the row -> `delete` or `DeleteFails` |
| `contractors::set_photo` | `BeginSetPhoto` -> `put` -> `Displaced` (the CTE's snapshot) -> `Repoint` -> `delete` |
| `contractors::remove_photo` | `clear_photo` |

An object's key is the id of the request that uploads it. `logged`, `lost` and `removed` are observers: keys
the log names, keys whose request died, photos their owner removed.

### Alerts

A pass is `Start` -> (`claim_unmatched_jobs` -> `matches_for_jobs` -> `run_batch`)*, each batch a transaction
whose `FOR UPDATE SKIP LOCKED` rows are `claimed`; `Die` anywhere. `Save` is the INSERT's count and `create`
its row becoming visible. `owed` is an observer: whom a job interested when it was matched, put together from
the users' searches, while the digests are put together from the pairs the join returned.

### Paging

A reader parses a query string once (`parse`), and then `Lookup` (of who serves the place, for
the directory) and `List` follow each other until a page has no cursor. `order_by` is the ORDER BY and
`jobs_keyset`, `search_keyset` the WHERE of the cursor, with SQL's NULL; the properties compare the two. The
cursor goes through `encode_cursor` and `decode_cursor`. Between any two statements the table changes: `Post`,
`Close`, `Reopen`, `FitFalls`, `ViewerChanges`, `Import`, `Rename`, `Rescore`, `Republish`, `ServiceAreas`. The
leading key of a row is its place among the values of the reader's sort expression; the distance, rank and
fit formulas themselves are left out.

## 3. Runs

| run | result | instance | distinct states |
|---|---|---|---|
| `auth_safety` | pass | 4 requests (one past), 2 passwords, limits 2 and 2, symmetry | 106,704 |
| `auth_liveness` | pass | 3 requests, no symmetry, fair | 29,788 |
| `mail` | pass | 2 messages, 2 workers, batch 2, 2 attempts, 1 stop, fair | 125,040 |
| `messaging` | pass | 2 homeowners, 1 contractor, 1 listing, 1 posting, 3 requests, pages of 2, 1 block at a time, symmetry | 287,990 |
| `badge` | pass | 2 listings (one not imported yet), 1 account, 2 requests, 1 pending claim, 1 import of a file whose licences run to a date, batches and pages of 1, 1 failed pass, fair | 399,296 |
| `paging` | pass | 3 rows, 2 keys and NULL, 2 posting times, pages of 1 and 2, 2 changes, 11 query strings | 682,819 |
| `photos` | pass | 5 requests, 2 photos per job or listing, 1 fault, symmetry | 126,126 |
| `location` | pass | 3 addresses in 2 ZIPs, 2 jobs, 2 workers, 2 attempts, 1 stop, 2 edits, fair | 617,552 |
| `alerts` | pass | 1 user who also posts, 1 other poster, 2 searches, 2 jobs, 2 passes, batch 1, 2 batches, 2 changes, 1 death, fair | 262,788 |
| `accounts` | pass | 3 requests, 2 people, 2 addresses, 1 identity, a pool of 3, fair | 647,339 |
| `paging_budget` | violation | by budget, nothing changes meanwhile | |
| `photos_clear` | violation | as `photos` | |

Why the bounds are enough: every race in the code is between two requests over the work of a third (two
logins and the change or reset between them; two guesses and the login that issued the code), and three
run at once in `auth_safety` beside the account's first session. A limit of 2 gives a value below, at and
past each limit. In `messaging` three requests are a start and two
sends that race in its conversation, or two starts that race from the two sides and a send; the second
homeowner gives a conversation that must stay apart. A client may ask for less than a full page, so two
messages come in one poll or in two. One block at a time covers both directions, one
after the other. In `badge` the races are those of two requests over one claim, one listing or one account,
each beside an import and a pass of the re-check; the two listings give two batches and two pages with a
death between them, and a licence that comes in while others run. There is one account, which may have two
requests: two people who claim one listing, and a file imported again after a run that died, are out of this
run's reach and covered by the theorems `OwnershipCorrect` and `ImportsComplete`. The proofs remove the bounds
for every safety and action property of the passing runs; those of the liveness properties remain.

In `paging` three rows are the least with a page boundary on either side of a tie, and two changes move a row
past the cursor and back. In `photos` five requests are the post, two uploads that race for a slot, a removal
or a cancellation, and one more. In `location` two jobs are one that a late worker still holds and the
one queued after it; the edits reach an address in the same ZIP and one in a ZIP without a centroid. In `alerts` a
batch of one gives a pass two batches and leaves work for the other pass; of the two searches, one shows
both jobs and one only the second. In `accounts` three
requests are the two who race and the one who changes what they read, and the account they race over is there
or not when they begin, with a code or a link on its way; with a pool of 3 all three can hold keys at once, for rings of waiting
transactions, and all three can each hold a connection and wait for a second.

Deadlock is not checked (CHECK_DEADLOCK FALSE) because a bounded number of requests, edits and changes ends,
and a drained queue is quiet; `EveryRequestAnswered` (of `AuthService` and of `Accounts`), `MailSettles`,
`BadgesSettle`, `JobSettles` and `EveryJobConsidered` say what must not stop.

### What the passing runs show

- `PasswordSessionsCurrent`, `ImplementsAuthority`: a login that verified a
  password can only open a session while that password is current, although it verified it on a stale
  read; a change or reset ends every password session there is.
- `ChangeWinsOnce`: of racing changes one wins.
- `LockIffExhausted`: counter and lock never disagree.
- `TokenSpentOnce`, `CodeGuessesBounded`: codes and links are single-use and guesses are capped under
  any race.
- `EveryRequestAnswered` (`AuthService`): nobody waits for ever on the credential row.
- `SentWasDelivered`, `GivenUpWhenExhausted`: hold even when passes outlast their claims and rows are marked
  twice.
- `AttemptsBounded`, `SettledStays`: late marks can push the counter past its cap and open a settled row again,
  but only once for each worker that is late: a row that nobody is late with stays settled.
- `MailSettles`: every mail is settled in the end.
- `OneThreadPerPair`, `AnswerIsUsable`: a pair has one conversation whichever side starts it and however
  the starts race, and whoever got an answer got that conversation, with both parties in it.
- `GaplessSequence`, `NothingSkipped`: numbers run from 1 without gap or repetition although transactions
  roll back, and become visible in order, so a poll by `after_seq` misses nothing.
- `UnreadExact`: the inbox may subtract instead of count.
- `BlockStopsLaterRequests`: while a block stands, all that can still arrive between the two is what had
  passed its checks when the block was made.
- `EvidenceKept`: a message never changes but for its sender removing its text.
- `OwnershipMatchesClaims`, `DecisionsFinal`: owner and approved claim become visible together, one per
  listing and per account, and neither a second decision nor a withdrawal undoes a first.
- `NeverVerifiedUnowned`: a badge written on old facts is never on a listing that nobody owns.
- `ChangersLeaveBadgeRight`: although recompute locks nothing it reads, an approval and an import that race
  on one listing leave the right badge, because each has an unowned listing's row locked before it reads
  the other's half.
- `BadgesSettle`: the re-check puts every badge right in the end.
- `NothingDropped`, `NothingRepeated`, `CursorAdvances`: whoever pages to the end has seen every row that
  matched all along, has a sort key and did not move nearer to the front, none of them twice in one place. A
  row that moved may be shown again where it now stands. In the feed the fit falls with `now()`, so between
  two requests every row moves a little, and a last row shown again at the top of the next page counts as
  moved: there `NothingRepeated` does not exclude it.
- `NoBrokenPhoto`: object before row and row before object, in that order, are enough: nothing that is shown
  ever lacks its object.
- `NothingLostUnlessCancelled`, `WorkOrphansLogged`: an attached photo stays with a job that can be reopened,
  and a work photo's object without a row is named in the log unless its request died.
- `PublishedIsTheRule`: a worker, an edit and an import never combine into a point the rule does not give, so a
  protected listing never shows its exact place; this rests on `set_precise_point` taking the row first.
- `PreciseNeverLost`, `JobSettles`: no writer erases a point, and no job stays open for ever.
- `ToldOnce`, `ToldWhoWasOwed`, `OnlyOpenAnnounced`, `EveryJobConsidered`: passes that overlap and die tell
  each job once, to exactly those it interested, while it was open; every job has its turn.
- `VerifiedWasProved`: no order of codes, reset links, provider claims and changes of address verifies an
  address but by a person who reads it. It does not say that only this person gets into the account: see
  the behaviours below.
- `EveryAccountReachable`: the loser of a race for an identity leaves no account behind.
- `EveryRequestAnswered` (`Accounts`): the pool and the rings of waiting transactions always come free, by
  `acquire_timeout` and PostgreSQL's deadlock detection.

### What the violating runs show

- `paging_budget`: by budget, a job without one sorts last, and a cursor that has a budget admits no row
  without: whoever pages never sees those jobs unless a page happens to end among them
  (`tests/jobs.rs:254` and `:1059`). The directory's keyset has the same shape for listings without a point
  by distance.
- `photos_clear`: `clear_photo` returns the column as its UPDATE left it, NULL, so the object is never deleted
  (`repo/contractors.rs:573`).

### Met on the way, without a run

Statements of the repository that the models contradict. Each is a definition of the module named; listed
under INVARIANTS (or PROPERTIES) of the run's cfg, alone, TLC refutes it.

- `AtMostOneLiveToken` (`AuthService`; `auth_safety`), `OneLiveCode` (`Accounts`; `accounts`): two issues that
  overlap leave two live tokens, since neither's UPDATE sees the row the other inserts (`auth_tokens.rs:33-35`).
- `LockRunsItsTime` (`AuthService`; `auth_safety` with `MaxFailedAttempts = 1`): an unconditional
  `clear_failures` after a stale read ends a running lock (`auth-state-machine.md:53` and `:605`).
- `StopLeavesNothingClaimed` (`MailOutbox`; `mail`): SIGTERM drops a pass at its next await and leaves rows
  claimed (`main.rs:1107`; the geocode worker has the same comment at `main.rs:1043`).
- `ImportMovesBadge` (`VerifiedBadge`; `badge` with `Files <- OneFile`): the re-check reads facts, an import
  commits, and the re-check overwrites the import's badge until the next pass (`tests/claims.rs:102`,
  `architecture.md:294`).
- `NoMutualWait` (`VerifiedBadge`; `badge` with two `Users`): two simultaneous claims hold the listing's row
  through their foreign keys and wait for each other, so the loser gets a deadlock error and not the conflict
  (`claims.rs:71-75`, `auth-state-machine.md:681`).
- `PinFollowsOwner` (`Location`; `location`): an address entered while a job for the old one is in progress is
  not queued (`ON CONFLICT DO NOTHING`), and the worker publishes the old one
  (`relocate_after_address_change`).
- `CapHolds` (`Alerts`; `alerts`): two overlapping saves both count before either is visible
  (`saved_searches.rs:44-45`).

Behaviours the models contain that no statement of the repository rules out, or that are contained:

- Of two logins with an old hash the second may be refused because the first has upgraded it
  (`service.rs:894`). While a worker is late with a row, `sent` and `failed` are not terminal, since marks go
  by id alone.
- A first federated sign-in may bring an address from the browser that somebody else reads. When that person
  follows a reset link, the account gets their password and the address counts as verified
  (`service.rs:1121`-`1125`), while the identity that opened the account still signs in to it.
- A reset link keeps working after the account's address has changed, and sets the password for whoever reads
  the old one; it verifies nothing then, because the new address was verified as it was set.
- A contractor who answers a posting in a conversation the pair already has leaves no trace in `job_id`.
  `withdraw` answers success for a claim decided between its check and its UPDATE (`WithdrawNothing`).
- `confirm_email` for an address somebody else took meanwhile rolls back, so the challenge is not spent as
  the comment there says, and may be tried again.
- A confirmation, a first sign-in and a link can wait for each other in a ring; one of the three gets an
  internal error.
- The count and the insert of a photo are apart, so `MAX_PER_JOB` and `MAX_PER_CONTRACTOR` can be exceeded by
  racing uploads, and two of them can pick one position, the second failing on the unique constraint
  (`job_photos.rs:41-45` says they cannot). A photo can be attached to a cancelled job.
- Photos attached between `keys_for_job` and `delete_all_for_job` lose their rows and keep their objects,
  which nothing logs; so does the first of two profile photos replaced at once.
- A search whose mail is turned off between match and commit is still in that digest.
- A geocode job found to have no match leaves the old point in place.

### Fairness

`AuthService!FairSpec`: weak fairness on the steps of a request that has begun. tokio polls every task,
Argon2 and each statement end, and PostgreSQL grants row locks in turn. Nothing is assumed of new
requests, of abandonment or of time. `MailOutbox!FairSpec`: a worker that is up goes on (every post has a
timeout), one that is down is started again (systemd restarts on failure, a deploy starts the new one),
backoffs and claims run out. Stops are finite in number (`MaxStops`). Enqueueing, pruning and a provider
that answers are not assumed: a mail that never gets through settles as `failed`. `VerifiedBadge!FairSpec`: a
request that has begun ends (statements end, and the request times out otherwise), an import ends one way or
the other, and the timer starts the re-check again and again. A pass dies finitely often (`MaxFailures`).
Nothing is assumed of new claims or imports, or of dates. `Location!FairSpec`: a worker keeps working (the
geocoder has a timeout) and is started again, backoffs and claims run out; edits, imports and deaths are not
assumed. `Alerts!FairSpec`: the timer starts a pass again and again (`Persistent=true`) and a pass that runs
goes on; it dies finitely often. `Accounts!FairSpec`: a request that can take its next key or commit does, and
one that cannot ends by `acquire_timeout` or as the victim of a deadlock; clients that go are not assumed.

## 4. Proofs

The proof modules follow one argument: an inductive invariant `IInv`, `Init => IInv`,
`IInv /\ [Next]_vars => IInv'`, and each property from `IInv`. They assume of the constants what the
named ASSUMEs say: null values are outside their sets, limits are positive, a query string is one of those the
handlers take (`QueriesAssumption`), an inbox and an identity have one owner (`WorldAssumption`).

Besides the properties of the runs they prove, for every instance, the type invariants and the coherence
statements the inductive invariants are made of (`RequestsCoherent`, `RevalidatedStillTrue`, `LockedIffClaimed`,
`ReadMarksAdvance`), which no run lists, and `FileStored` of `VerifiedBadge`.

`AuthServiceProofs` (about 1,700 obligations): `IInv` joins all safety invariants of `AuthService`.
`RequestsCoherent` is what makes it inductive. `PasswordSessionsCurrent` alone is not inductive, because a
commit opens a session with the password the request holds; one needs that this password verified the
hash the request holds (`PasswordVerified`), that this hash is the current one at the commit
(`RevalidatedStillTrue`, by the row lock: lemma `LockedOut`), and that a hash once replaced does not
return (`FreshSalts`). `TokenSpentOnce` needs that a token spent was issued before (`TargetIssued`) and
that a request's own token does not exist before it is made (`NothingMadeYet`). Two lemmas carry most of
the proof: `RequestEffect` (what a step of one request can do to everyone else) and `StepArrival` (how a
request gets where an invariant looks). `Refinement` maps `cred.hash.pw`, the sessions' passwords and the
ended sessions to `SessionAuthority` and shows that each step is an `Open`, `End`, `Replace` or a stutter.

`MailOutboxProofs` (about 575 obligations): `IInv` is read row by row (`RowFine`), so that each UPDATE is
shown to keep one row fine (`UpdatesFine`) and each action to apply it to the right rows. Nothing is assumed of
how long a pass takes, so several workers may hold one row. What bounds its counter is `CountFine`: the
failures counted and the workers that still hold the row together stay below `MaxAttempts` plus the number of
workers, because a claim needs an attempt left (`CountLeft`) and a mark trades a holder for a failure
(`CountMarked`). `AttemptsBounded` follows; `SettledStays` follows step by step, since a mark needs a holder and
a claim a queued row.

`MessagingProofs`: `IInv` joins the invariants of `Messaging` with `Shape` (a request past its
checks is between two users; a conversation's participants are its pair; a message lies in a conversation;
rows belong to requests that are done; no cursor is ahead of its conversation). `RequestsCoherent` is again
the strengthening. `OneThreadPerPair` is not inductive alone: a commit adds a conversation, and one needs that the pair still
has none and no other inserter, which holds because the index makes the others wait. `GaplessSequence`
likewise needs that the number a commit writes is still `last_seq + 1` and nobody else's. Lemma
`RequestOnly` settles every step that moves one request and writes no row; `StartCommitKeeps`,
`SendCommitKeeps` and `PollKeeps` are the steps that write. `NothingSkipped` follows from the order of
numbers: a message that becomes visible lies after every cursor, and a page holds everything up to its last.
`UnreadExact` rests on `GaplessSequence`: messages numbered without a gap or a repetition up to `last_seq` are as many as their numbers, so those above
a mark are `last_seq` less the mark (lemma `CountAbove`, by a bijection with an interval).

`VerifiedBadgeProofs`: `IInv` adds to the types what each transaction has locked at each of its steps (`Fits`),
what the unique indexes guarantee of claims written and committed (`Unique`), and that an uncommitted cell
belongs to a transaction on its way to commit it (`ClaimOK`, `ListingOK`). `OwnershipMatchesClaims` alone is
not inductive: a commit publishes a claim and an owner together, and one needs that the transaction wrote
both, for the same listing and account. `NeverVerifiedUnowned` needs that a badge decided on an owner is
written on a listing that still has one. `DecisionsStand` follows step by step from `IInv`.
`ChangersLeaveBadgeRight` needs more: that there is one import (`OneImport`), that only it
has licences locked (`LicenceOK`), who may have a listing locked and with which badge (`HolderOK`), and that
what a transaction has decided and not yet written still follows from the facts it can see (`Aims`). The last
holds because the import has the row of an unowned listing from `upsert_from_license` on (the owner of an
owned one cannot change), and an approval has it from `attach_claimant` on, so neither can commit its half
between the other's read and write.
`FileStored` needs `StoreInv`: before it ends, an import has stored all of the file it has left behind. What it
has written is in the cells of its open transaction (`Stores`), what it commits becomes what all see, and no
other transaction writes a licence.

`LocationProofs`: `PublishedIsTheRule` alone is not inductive, because `Apply` publishes from the inputs a
worker read one statement earlier. `PassFine` adds that a worker who is about to apply has the row's lock and
that its inputs are the row but for the new point; every other writer of the row waits for that lock.
`PreciseNeverLost` follows step by step, since `Apply` writes the address the worker carries.

`PhotosPagingProofs`, the photos: an object is deleted by a key that was read earlier. `RequestFine` says that
such a key is `Gone`: its upload is over, no row and no profile shows it, and as only its upload could show it,
none will. On the way there it needs that the keys of a cancellation are those of uploads into the job that
ended well, and those a replacement displaces are other profile photos whose uploads have come to their end.
`RowFine` and `ProfileFine` are `NoBrokenPhoto` with the upload that each shown object came from. The other two
properties ask the converse, what became of an object that nobody shows. `PhotoInv` follows it: of a job that
is not cancelled, an upload that ended well has its row or was removed by its owner (`JobFine`); an object
uploaded to the work photos has its row, or is in the hands of a request, in the log, or was lost with its
request (`WorkFine`). Lemma `Carried` says what a request may do to the photos of the others, and each action
is shown to do no more.

`PhotosPagingProofs`, the pages: `ReaderInv` says that as long as the reader goes on, a row shown where it
stands lies behind the cursor and one that is owed and not yet shown ahead of it. A page keeps that because
`order_by` is a strict order in which ties are settled by time and id (`TieOrder`, `Order`, `OrderTransitive`),
because `encode_cursor` and `decode_cursor` lose nothing that the ordering asks (`CursorKept`), and because the
keyset admits exactly the rows that the order puts after the cursor, except those whose key is NULL (`Keyset`).
That exception is why `NothingDropped` speaks of rows with a key, and what `paging_budget` shows. A change
of the table keeps it because a row that moves forward is no longer owed, and one that moves at all no longer
counts as shown where it stands. `CursorForward` follows step by step.

`AlertsProofs`: `ClaimFine` says that claimed jobs are unmarked and in one batch only (SKIP LOCKED),
`MatchFine` that what a batch will commit is exactly what its jobs owe, and that these are open (FOR UPDATE).
`ToldExactly` then makes the three properties inductive: told if and only if marked and owed, so that a commit
adds digests about jobs nobody had been told of and marks them in the same step.

`AccountsProofs` (about 1,800 obligations): neither property is inductive alone, since a commit writes what its
request found out before. `Fits` says, for each operation and step, what a request rests on: which account it
is about, that an address it will mark or set is one its person reads (`MayMark`, `Reads`), and that a new
account from a provider has the identity taken or still to take. `Codes` says that a sign-in code or a reset
link went to the account's address unless the account has proved another one since (`Went`): that is why a
code that was read, a link that was followed and a code that is sent again late all verify only what their
reader reads. `Identities` says that an identity being linked is nobody's yet and in one request's hands only;
`Rows` that a verified address has its reader's proof, that a password goes with an address, and that a request
makes its own account only as it ends; `Pool` that free connections and those in use are always `PoolSize`.
`EveryAccountReachable` needs of these that a new account has its identity in the same commit and that
nothing takes a password or an identity away. The change of accounts is one lemma: `CommitGrows` says that
a commit takes no password and no verification away, leaves every row sound and changes an address only for
one that is verified with it (`Grows`), and from that `GrowsKeeps` keeps what every other request rests on.

Only model-checked: the liveness properties `EveryRequestAnswered` (twice), `MailSettles`, `BadgesSettle`,
`JobSettles` and `EveryJobConsidered`, since temporal reasoning under fairness and `ENABLED` are beyond the
prover; and the counterexamples of the violating runs.

## 5. Not modelled, and the plan

Next, the most important first:

1. The reports on messages, added to `Messaging`: one report per reporter and message, each resolved once.
2. The rest of the import (the mapping of statuses and cells, dry runs, two imports at once), and service
   areas statement by statement.

Not modelled, and why:

- The rate limiter's counter: one upsert per hit, exact by the row lock it takes; only its second connection
  matters to others, and is in `Accounts`.
- The check of a provider's token, cookies, CSRF tokens, digests, configuration and error texts: functions of
  their input without state of their own.
- Ranking, facets, suggestions, reference data, reviews, search events, profiles: read-only SQL, or one
  INSERT or UPDATE by one owner that nothing races with to any effect.
- Image decoding, the HTTP clients of the bucket, the mail provider and the geocoder: their outcomes, failures
  and lost answers are nondeterministic choices in the models.
- The offline enrichment scripts: no part of the running system.
