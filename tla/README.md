# Verification of the auction bot

TLA+ models of the parts of this repository where several processes, people and
an unreliable Telegram meet on the same database rows; TLC configurations that
check them on small instances; and machine-checked proofs of their main safety
properties for every value of the constants.

1. [The system](#1-the-system)
2. [Components](#2-components)
3. [Modules and how they correspond to the code](#3-modules-and-how-they-correspond-to-the-code)
4. [Runs](#4-runs)
5. [Fairness](#5-fairness)
6. [Proofs](#6-proofs)
7. [Where the code and its documents disagree](#7-where-the-code-and-its-documents-disagree)
8. [What is not modelled, and known gaps](#8-what-is-not-modelled-and-known-gaps)
9. [Plan](#9-plan)

## 1. The system

Users submit lots through a Telegram dialogue. Moderators approve them and give
them a slot; a *publisher loop* posts due lots to a channel; Telegram forwards the
post into a discussion chat, where a *userbot* (a user account, a process of its
own) sees it, binds the thread to the lot and reads bids from the replies. When the
bidding minute is over a *finalization loop* announces the winner. Notifications of
all kinds go through a *transactional outbox*. Beside the auction, users offer cards in an
*exchange*, prove that a game UID is theirs (*UID verification*), and may ask for the
*erasure* of their data. In both processes a *task manager* supervises the loops.

Everything shared lives in PostgreSQL. The bot and the userbot are asyncio
programs: a coroutine runs alone between two `await`s, and each SQL statement or
transaction is atomic; between two statements of one coroutine anything else may
happen: other coroutines, other processes, other bot instances, operators, or the
end of the process. That is the granularity of every module here: **one action per
statement or transaction, or per lock taken where waiting for locks is the point.**

    submission ──> auctions (row) <── moderation, /force_publish, repair tool
                     │   ▲  ▲
       publisher loop│   │  └── userbot: forwarded post binds ids
                     ▼   │
                 channel post ──> discussion thread ──> bids ──> finalizer ──> result
                                                          ▲
                               place / revise / remove ───┘ (bot and userbot)

    UID requests ──> approval ──> user_uids <── erasure ──> exchange_batches ──> channel

    lot events, daily lists ──> telegram_outbox ──> outbox loops ──> Telegram

## 2. Components

For each: the state it keeps, its operations, whom it meets, what is hard, and what
makes it correct. `PROJECT.json` holds the same list with source paths and the
hazards at their lines.

| Component | State and operations | Meets | Hard behaviours | Correct when | Modelled |
|---|---|---|---|---|---|
| **Auction lifecycle repository** (`bot/repositories/auction_workflows.py`) | row of `auctions`: status, `message_id`, `discussion_message_id`, attempts, times; create, moderate, schedule, claim, mark, requeue, reschedule, restart, finish | everything | an outcome written after its claim was lost; statements guarded by status only | published ⇔ a post is bound; bounded retries; ids belong to the lot | partly (draft edits are left out; slots below) |
| **Publication use case and loop** (`bot/use_cases/auction_publication.py`, `bot/handlers/auction/publication.py`) | coroutine: batch, current lot, target; sweep, claim, send, record | lifecycle, Telegram, `/force_publish` | crash between post and record, expired lease, lost reply, two senders | nothing is sent twice, no lot is lost | yes |
| **Finalization service** (`bot/services/auction_finalization.py`, `bot/repositories/auctions.py`) | coroutine: claimed lots; sweep, claim, announce, record | lifecycle, bidding | two loops, expired lease, reopened round | each round is announced at most once and closed in the end | yes |
| **Legacy auction persistence** (`db/repositories/auctions.py`) | statements run by menus: fail overdue lots, finish ended lots, cancel | publisher, finalizer | they ignore claims | they take nothing away from a worker | partly: those that change the status |
| **Channel post confirmation** (`userbot/services.py`, `userbot/publication_recovery.py`) | three ways to bind a forwarded post | publisher | late, repeated, foreign post | only the lot's own post is bound, and it stays | partly: the bindings |
| **Publication repair tool** (`bot/repositories/auction_publication_repair.py`) | manifest actions: requeue, confirm, normalize, replace | lifecycle | runs beside the loops | keeps the row's shape | partly: state changes, not the manifest's hashes |
| **Owner withdrawal** (`bot/handlers/auction/submission_recovery.py`) | release overdue lots, then cancel | publisher | the lot is being sent | no post of a withdrawn lot | yes |
| **Transactional outbox** (`bot/repositories/outbox.py`, `bot/telegram/outbox.py`) | `telegram_outbox` rows, workers; enqueue, claim, deliver, record, sweep, review | Telegram, administrators | crash around the call, lost reply, delivery that outlives its lease or its batch, flood control at the last attempt | accepted at most once; the verdict is true; every command settles | yes |
| **Auction notifications** (`bot/services/auction_notifications.py`) | `notified_*` flags | outbox, lifecycle | lot runs again | a flag means a queued message | partly |
| **Bidding** (`bot/services/auction_bids.py`, `bot/domain/auctions/`) | `bids`; place, revise, cancel, remove, moderators' deletions | finalizer, userbot | stale clock, row locks in different orders, rules stated twice (domain and table) | one leader; frozen ledger after the claim; no deadlock | yes |
| **Winners** (`bot/repositories/winner.py`, `bot/features/winner/`) | choice of the winner, messages, settlement | finalizer | partial announcement | nobody's bid beats the announced one | partly: the choice |
| **Slot scheduling** (`auction_workflows.py`: `schedule`, `reschedule`) | slot of a lot; advisory locks of days, row locks | moderators, every statement that moves a status | `schedule` locks day→row, `reschedule` row→day; requeue, repair, confirmation and restart do not check the overlap again | rivals meet in a slot only through a statement that does not ask; no circle of waits | partly: not the views of the schedule |
| **UID verification** (`bot/repositories/uid_verification.py`, `bot/use_cases/uid_moderation.py`, `bot/handlers/uid_verification.py`) | requests, confirmations, `user_uids`; create, ask, answer, revise, approve, expire | counterparties, administrators, erasure | confirmations counted before the lock, two approvals of one UID, revision under an approval | a UID has one owner; one decision; on evidence | partly: not reminders, photographs and direct corrections |
| **Autobids** (`userbot/autobid_engine.py`) | ceilings per user and lot | bidding through the chat | two autobids, an edit in between | never above the ceiling, ends | no |
| **Exchanges** (`bot/repositories/exchanges.py`, `exchange_editor.py`, `bot/handlers/auction/exchange/`) | `exchange_batches`: status, content, post ids; submit, moderate, edit, claim, post, record, delete | Telegram, erasure | post made of a row read before the claim, lost reply, claim nobody holds | posted once; the post offers what the row does | partly: not the hand-over to a winner |
| **Preorder submissions** | request life cycle | users, moderators | decisions race with withdrawals | one decision | no |
| **Schedule publication (userbot)** | review, edit, publication of the weekly post | admins | publication repeated or interrupted, edits meanwhile | one post per week, showing the reviewed text | no |
| **Background task manager** (`bot/core/tasks.py`, `bot/application.py`, `userbot/application.py`) | per worker: coroutine, supervisor, state, failures; restart, heartbeat, stop | all loops, the container | a cancellation that reaches one of two tasks, a cleanup that raises, failures that are never forgotten | one run per worker; a stopped worker is gone; a critical one runs again or the process ends | yes |
| **Schema migrator** (`db/migrator.py`) | advisory lock, checksums | deployments | crash between migrations, two deployments | each migration once, in order | no |
| **Privacy requests** (`bot/repositories/privacy_requests.py`) | request, approved plan, approver; approve, execute | UID verification, exchange | the account changes between review, snapshot and commit; lock order | what was reviewed is erased; nothing undecided is left | partly: the life cycle and what it does to the two neighbours |
| **Warnings and bans** | counters | admins | little concurrency | counters agree | no |
| **Submission dialogue** | in-memory form per chat | lifecycle | lost at restart | its result is `CreatePending` | no: only its result |
| **Market, cards, subscriptions; admin panels, profile, guides; web application** | single statements, views | | no protocol | | no |
| **Telegram boundary, rate limiting; database pool** | parsing, error translation, delay; connections | | | | no: environment of the models |
| **Server supervisor, incident monitor; deployment and backup scripts** | operations tooling | | | | no: pure I/O |

## 3. Modules and how they correspond to the code

| Module | Kind | Content |
|---|---|---|
| `AuctionLifecycle` | specification | publishers, `/force_publish`, userbot, finalizers and operators around the rows of `auctions` |
| `TelegramOutbox` | specification | outbox rows, flags, delivery workers, review |
| `AtMostOnceDelivery` | abstract specification | what the outbox promises of a command and the publishers of a lot; `TelegramOutbox` and `AuctionLifecycle` without people implement it |
| `AuctionBidding` | specification | the transactions on the bids of one lot, with their row locks |
| `SequentialAuction` | abstract specification | an auctioneer who answers one message at a time; `AuctionBidding` implements it |
| `SlotScheduling` | specification | approvals and moves of lots between slots, with their locks, beside every other change of a status |
| `SlotCalendar` | abstract specification | approvals and moves in one step each; `SlotScheduling` implements it |
| `LotStatuses` | vocabulary | the statuses as the schedule sees them, and the relation `After`: what the lifecycle and the schedule agree on |
| `UidVerification` | specification | requests, confirmations and approvals, one action per lock |
| `PrivacyErasure` | composition | erasure of accounts, EXTENDS `UidVerification`: their transactions interleave |
| `ExchangePublication` | specification | batches of the exchange and the presses that publish and delete them |
| `WorkerSupervision` | specification | supervisors, coroutines, shutdown and restart of a process |
| `MC…` | model-checking modules | symmetry sets, and the values of constants that are functions or relations |
| `…Proofs` | proofs | inductive invariants and theorems; `AuctionAutonomyProofs` has those about the lifecycle without people |

### AuctionLifecycle

| State | Code |
|---|---|
| `status`, `message`, `discussion`, `attempts` | columns of `auctions`; `"absent"` is a row not inserted yet |
| `phase` | `NOW()` against `start_time`, `start_time` + 10 minutes, `end_time` and the end of its minute: exactly the comparisons the statements make |
| `retryDue`, `leaseOld` | `publication_next_attempt_at`, age of the claim |
| `posts`, `unreviewed`, `round`, `announced` | what happened outside the database; the code does not see them, the properties do |
| `spc`, `slot`, `smsg`, `target`, `batch` | program counter and locals of a coroutine that publishes |
| `fpc`, `fclaim`, `held` | the same for finalization; a claim is a lot *in one of its rounds* |

A loop iteration is the sequence `RecoverStale`, `ClaimDue`, then per lot
`StartSending`, one `Send…`, one `Mark…` or `RecordLost`. `SKIP LOCKED` makes a claim
take any part of the due lots. A send ends in one of four ways: accepted with an id,
accepted with id 0 (the "deferred" path), refused, or accepted with the reply lost
(only if `LossyReplies`); a raised call goes on to the next channel target.
`SenderCrash` and `FinalizerCrash` are possible at every await. The `Mark…` actions
ask only for the status, as the SQL does, and do nothing when it is another one.
`ForceUnclaimed` is the branch of `publish_auction_lot` that takes a row read as
`publishing` for its own claim. Operators and users are `Person`, `ReleaseStale` and
`AutoFinish`; the userbot may see a post late, several times or never.

Abstracted: owners (so `ReleaseStale(S)` and `AutoFinish(S)` work on any set of
lots), texts, media, slot numbers, exact times.

`PublicationKeepsPromise` maps a lot to a command of `AtMostOnceDelivery`. `Verdict`
reads off the row what it says of the publication: "sent" once an id is stored, "none"
before the first claim, "open" while the lot is in the queue or claimed, and otherwise
"unknown". It is never "not sent": the row does not keep apart a refusal by Telegram, an
expired lease and an id that never came, so after any of them a post may still appear
and be recorded. What the promise then says is that nothing sends such a lot again.

### TelegramOutbox and AtMostOnceDelivery

A row is its dedupe key: an (auction, event) pair or another scope, and a chat.
`batch[i]` is what `gather()` waits for, `job[i][r]` the delivery of one row, so the
deliveries of a batch interleave, and deliveries of an abandoned batch
(`RecordRaised`: recording one outcome raises, `gather()` gives up, the other workers
go on) run beside the next batch. The reply decides between `MarkSent`, `RetryAfter`
(flood control), `MarkRejected` and `MarkUnknown`; each records only while the row is
`processing`. `RecordRaised` lets either all rows not begun be dropped or none;
with fewer workers left than before, the code is somewhere in between. The rate
limiter is only a delay; payload errors are a `ReplyRejected`.

`AtMostOnceDelivery` has two variables per command, the verdict and how often
Telegram accepted it. Accepting is possible while the verdict is open or unknown, and
once only; "sent" and "not sent" must be true when they are pronounced; only "not
sent" can be replayed. The refinement mapping computes the verdict from status and
delivery state.

`ConfirmDelivered` is guarded by `accepted[r] > 0`: the administrator who confirms a
delivery is assumed to have seen the message. Without that assumption `HonestVerdict`
cannot hold, the database having nothing to compare with.

### AuctionBidding

One lot, of any kind in `Lots`. A bid is named by the chat message it was read from.
A transaction is a `task` that takes the locks of `LocksOf` one at a time (the lock
order is bid, lot, bidder), checks, and commits: the inserted row is invisible until
`Commit`, and every lock is held until the end. `place` reads the clock after it got
the lot's row, `revise` and `remove` before (`early`, `young`), as in
`auction_bids.py`. The rules exist twice, as in the code: `ServiceAccepts` (the
domain) and `DatabaseAccepts` (the CHECK `is_valid_bid` of migration 006).
`CheckLotOfEdited` and `DeleteRow` are the userbot's check and deletion in separate
statements. `Claim`, `ReadResult` and `MarkFinished` are the finalizer's, with the
winner of `get_winner`. `FinishNow` is an administrator's stop (`finish_now`).

A unique index keeps one bid per message; it is created by `database/bootstrap.sql` and
the legacy migrations `003_auction_bid_integrity.sql`, so the model assumes a database built by one of them. Bans,
eligibility and authorship are folded into `Abort`. Locks on other lots' rows are
left out: a placed bid locks its lot, then the bidder, so two bids of one bidder on
two lots wait in line and not in a circle. Treasures are left out.

`SequentialAuction` has the ledger, whether the lot is open, and the result. A bid enters
only if it improves on every other one at that moment, and the result is a bid that
leads the ledger when it is announced. `BidsAreSerial` maps the order `Beats` of the lot to
`better`, which the abstract specification fixes before the first bid.

### SlotScheduling

| State | Code |
|---|---|
| `status`, `start` | columns of `auctions`; a slot is its start, and `DaysOf` the days its start and its end (second 59 of its last minute) fall on |
| `at`, `kind`, `lot`, `slot` | program counter and arguments of a transaction of `schedule` or `reschedule` |
| `days` | the `pg_advisory_xact_lock`s it holds |
| `unasked` | history: lots whose slot was taken again by a statement that does not look at it |

`CallSchedule`, `LockDay` (ascending), `CheckSlot`, `WriteScheduled` are the
statements of `schedule`; `CallReschedule`, `LockRow`, `LockDay`, `CheckSlot`,
`WriteRescheduled` those of `reschedule`; `Abort` is the twelve-second `wait_for` of the
use case or a lost connection. `NeedsRow` says when a step waits for a row: the UPDATE
of `schedule` waits only for a row that its WHERE accepts in the committed version.
`Move` is any statement of `AuctionLifecycle` that changes a status and leaves the
slot, after the relation `After`; whether a lot has a post is read off its status. Both are
taken from `LotStatuses`, and `KnownToSchedule` of `AuctionLifecycle` says that they are
right. `Rival` is the relation the overlap
query computes: same card and a common owner. `'approved'`, which several WHEREs name,
is written by nothing in the repository and is left out.

`SlotCalendar` has no locks and no steps between them: a lot is approved or moved at
once, into a slot where every rival came back unasked. `BookingsAreSerial` says that
this is all an onlooker sees of the calls.

### UidVerification and PrivacyErasure

| State | Code |
|---|---|
| `status`, `owner`, `uid`, `deals`, `conf` | `uid_verification_requests` and their confirmations; `"declined"` stands for rejected and unreachable |
| `binding` | `user_uids` |
| `stage`, `target` | an approval: confirmations counted, then row, lock of the user, lock of the UID, row of its owner, in the order of `approve_request` |
| `preq`, `approvedPlan`, `approver` | `privacy_requests`; the plan's hash is the plan |
| `erasing`, `pinned` | the serializable transaction of `execute_request`: its snapshot, and the row of `user_uids` it has locked |
| `vouched`, `due` | history; age of a request |

`CreateRequest` inserts the request and `AskCounterparty` asks one person after the
other, so a bot that stops in between leaves some never asked. `Answer` does not look at
the request's status, as the button does not. `FixUsername` deletes a confirmation
whatever it says. `CountConfirmations` is the use case's count before any lock, and
`LockRequest` reads the status again under it. `ExpireDue` is one pass over what is due;
`ExpiredAllowed` says whether the schema accepts the status it writes (section 7).
Rejection is not modelled: the call raises before it reaches the database.

An erasure waits for rows as PostgreSQL makes it wait, fails when a row of its snapshot
changed (`Abandon`), moves requests and UID to a surrogate, and deletes what came
later through the cascade of the account. One erasure runs at a time here (a bound).

### ExchangePublication

A *press* is a handler run: `ReadToPublish`, `Claim` or `ClaimFails`, the call
(`PostAccepted`, `PostRefused`, `ReplyLost`), `MarkPosted`, `ReleaseClaim` or
`StatementFails`; `ReadToDelete`, `SoftDelete`, `CleanUp`. What a batch offers is one
value. `Submit`, `Moderate`, `Edit`, `EraseOwner` and `DeleteFromCatalog` are single
statements. `AfterLease` is the first statement of `claim_for_post`, which takes back
expired claims; when the second one finds nothing, the exception rolls the first back,
and `ClaimFails` therefore changes nothing. `overtaken` is history: batches that changed
under a press that had read them.

### WorkerSupervision

One process with its main coroutine (`main`), its manager (`fatal`, `stopping`,
`managed`, `awaited`) and its workers, each two asyncio tasks: the coroutine (`alive`,
`outcome`, `asked`) and the supervisor (`sup`, `supAsked`, `state`, `failures`). One
action is what a task does between two awaits. `CancelReaches` is asyncio's rule that
`task.cancel()` of a task that awaits another is passed on to that one. A coroutine may
answer a cancellation late or with another exception (`Stubborn`), and a library may
cancel it from within (`Leaky`). `PollingEnds`, `FatalSeen`, `CancelTasks`,
`CancelWorkers`, `AwaitEnded`, `AwaitTimesOut`, `StopReturns`, `CloseResources`, `Exit` are the main
coroutine's way out in `run_bot` and `asyncio.run`; `Killed` and `Boot` are the container's.
Durations are left out: a backoff or a timeout passes or does not.

### How they compose

`AuctionLifecycle` and `AuctionBidding` share the lot's status and meet at the claim:
`ClaimFinalization` there is `Claim` here. The lifecycle has no bids and the bidding
one round; what the finalizer does with the status is proved in the first, what it
reads in the second. `TelegramOutbox` meets the lifecycle at the flags: `Restart` and
`ReschedulePublished` are its `ResetFlag`. `SlotScheduling` has the locks inside
`Schedule`, `RescheduleUnpublished` and `ReschedulePublished`, which are one action
each in the lifecycle, and the lifecycle's other statements as `Move`. That these are all
the ways a status changes is not assumed: `KnownToSchedule` compares each step of the
lifecycle with `After` and with what the two calls do here, and is proved.
`PrivacyErasure` and `UidVerification` are one state space; `EraseOwner` is the same
erasure seen from the exchange. `WorkerSupervision` is what the other modules'
fairness rests on. Nothing else is shared, so checking them apart loses no
interaction, with two exceptions named in section 8.

## 4. Runs

Passing runs:

| Run | Instance | States | Question and answer |
|---|---|---|---|
| `LifecycleAutonomous` | 2 lots, 2 publisher loops, batches of 2, 2 attempts, no operator, no lost reply | 1.0 M | Bots alone, with crashes and expired leases: `NoBlindRetry`, `OneSenderPerLot` and `BoundToOwnPost` hold, and `PublicationKeepsPromise`: the publishers implement `AtMostOnceDelivery`. |
| `LifecycleOperators` | 1 lot, loop, `/force_publish`, finalizer, 2 channel targets, lost replies, 2 posts, 1 decision | 1.0 M | The row keeps its shape (`PublishedIffBound`), its budget (`AttemptBudget`) and its id (`MessageStable`) among people, bots and the userbot, and the schedule knows every way its status changes (`KnownToSchedule`). |
| `LifecycleFinalization` | 1 lot, 1 loop, 2 finalizers, 1 reopened round, fairness | 53 k | `OneAnnouncementPerRound`; under fairness `PublicationSettles` and `FinalizationSettles`. |
| `OutboxDelivery` | 1 event, 1 scope, 1 chat (2 rows), 2 processes, batches of 2, 1 worker, 2 attempts, 1 reset, 1 review, fairness | 245 k | `AcceptedOnce`, `HonestVerdict`, `NoneStranded`, `OneDelivery`; `ImplementsPromise`; `EveryCommandSettles`. |
| `SlotBooking` | 2 rivals, slots before, at and after a midnight, 2 calls | 1.1 M | `NoDoubleBooking`, `NoLockCycle`; `BookingsAreSerial`, the refinement of `SlotCalendar`; no state without a next step. |
| `UidErasure` | 2 users and their surrogates, 2 UIDs, 2 requests (one of the old data), 1 counterparty, 1 confirmation required, 2 administrators, 2 operators | 0.7 M | `CheckedOwnerStands`, `BoundByApproval`, `ApprovedOnEvidence`, `DecidedOnce` of verification; `ErasedAsReviewed`, `ErasedIsSettled`, `NoCircularWait` of the two together. |
| `ExchangePosting` | 1 batch, 3 presses, 2 contents, erasure, 3 posts | 152 k | `RepostOnlyByLostReply`, `StaleOnlyIfOvertaken`, `HungClaimStays`; no state without a next step. |
| `WorkerRestarts` | 3 workers: critical; critical with heartbeat; recoverable, restarted always, stubborn and leaky; 2 failures each; fairness | 191 k | `OneRunPerWorker`, `GoneWhenStopped`, `ReadyIsSupervised`; under fairness `CriticalFailureStops`, `CriticalKeepsRunning`; no state without a next step. |
| `BiddingLedger` | 3 lots (standard; standard opened to both currencies; reverse in both), 3 offers, 2 messages of one bidder, 2 sessions | 944 k | `OneLeader`, `WinnerStands`, `LedgerFrozen`, `NoDeadlock`; `BidsAreSerial`, the refinement of `SequentialAuction`; no state without a next step. |

Why these bounds are enough to be interesting:

- *Lifecycle.* Two loops and one lease allow the case that matters: a claim taken
  away and given to another while the first coroutine still works. Two lots with
  batches of two let a stale batch meet a new claim and let an id land on the wrong
  lot. Two attempts make the first failure retriable and the second final. One
  operator decision is one requeue, reopening or repair, after every order of
  events before it; two posts are needed for a second one to be wrong.
- *Outbox.* Two rows in one batch with one worker leave one row waiting while the
  other is delivered; two processes let a lease expire under a live delivery; two
  attempts reach flood control at the last one.
- *Bidding.* Two messages by one bidder make every pair of transactions meet at
  the lot, at a bid and at the bidder's row. The offers 30 and 40 diamonds and 12
  cups reach equal, higher and converted comparisons on each kind of lot. A circle
  of three transactions needs three sessions; that no circle of any length exists is
  proved (section 6).
- *Slots.* A slot at midnight takes two days, its neighbours one each, so two calls can
  lock one day in common, two, or none, in both orders; two rivals and two calls give
  every pair of approval and move. More lots or calls are the theorem's. The `VIEW` leaves
  out the arguments of a call that is over: no action reads them, since every call sets
  its own.
- *UID and erasure.* One counterparty is enough for a confirmed answer to be replaced
  and for a request to lose its evidence between count and lock. Two requests for
  one UID by two users, or two of one user, are the cases of the two advisory locks.
  Both users may be erased, one at a time. `ExpiredAllowed = TRUE` is the schema of
  `database/bootstrap.sql`, in which a request can expire once none of its confirmations
  is pending; in the migrated schema nothing ever expires (section 7).
- *Exchange.* Three presses: one whose reply is lost, one that starts after it, one
  between. `MaxPosts` leaves room for two lost replies and a post.
- *Workers.* Each kind of policy occurs once; two failures make the first restartable
  and the second final. `MaxIgnored = 1` lets a stubborn coroutine survive one
  cancellation, and so live through `stop()`.

Bounds that are no part of the code: `MaxPosts`, `MaxDecisions`, `MaxResets`,
`MaxReviews`, `MaxIgnored`, `Erasable`, and that an erased user does not ask for another erasure. `BatchLimit` (larger in the code), `MaxAttempts` (3 in the code for
lots), `Targets` and `Concurrency` are parameters of the code made small. Deadlock
checking is off in the lifecycle, the outbox and UID verification, where everything may be done and
bounded people have no more moves; it is on for the others.

Violation runs, each with a trace of a disagreement described in section 7:
`LifecycleMyLots`, `BiddingMixed`, `ErasureRedaction`. They use the same modules with
the smallest instance that shows the case.

The type invariants are in no run: all of them are proved (section 6).

Each property of each passing run also has a mutant in `PROJECT.json`: a plausible
bug in one definition (a dropped guard, an early lock order, a requeue where the code
fails a row) under which the same run finds the property violated. The mutants are
written out beside the definition they change, marked "Mutant of".

## 5. Fairness

- *The clock* (`TimePasses`, `RetryElapses`, `LeaseExpires`): weak fairness.
- *Loops* (`LoopStep ∨ Deliver`, `Finalize`, `Loop`, `Deliver` of the outbox): weak
  fairness. Each loop catches exceptions per iteration, sleeps and goes on; a worker
  that still raises is restarted by `_supervise` in `bot/core/tasks.py`. Its failure
  count is never reset: after 8 failures a recoverable worker stays failed, after 4
  a critical one ends the process through `wait_for_failure`, and the container is
  started again (`restart: unless-stopped` in `compose.yaml`). So
  the fairness assumes a process that is restarted when its workers have given up; for a recoverable worker nothing in the code does that.
- *Claims* (`ClaimDue`, `ClaimFinalization`, `ClaimBatch`): strong fairness, since a
  crash can come before each claim. It says that crashes do not hit the gap between
  the first two statements of every iteration for ever, and for `SKIP LOCKED` that
  other sessions do not hold the locks at each attempt.
- *People, crashes, the userbot and the forwarded post* have no fairness. A lot whose
  post is never seen stays `publication_deferred`, and the properties say so: they
  promise that a lot leaves the queue, not that it is published.

- *Processes* (`FairSpec` of `WorkerSupervision`): weak fairness of the main coroutine,
  of each supervisor and of a coroutine that has been cancelled, because the event
  loop runs every ready task and the container restarts a process that ended; strong
  fairness of the start of a worker, which says that the process is not killed before
  each start for ever. No fairness makes a worker fail, beat or return.

`CriticalKeepsRunning` is what the loops' fairness rests on: a critical worker runs
again and again unless the process hangs in `asyncio.run` on a coroutine that outlived
its cancellation. It does not hold for recoverable workers, which stay failed, nor for
one that a library cancels from within (`Leaky`): both are in section 7.

Bidding, slots, UID verification and the exchange have no liveness property: their
transactions end by a commit, a refusal or a lost connection, `NoDeadlock`,
`NoLockCycle` and `NoCircularWait` say that none waits for ever on another, and
whether a person acts at all nobody promises.

## 6. Proofs

The eight `…Proofs` modules prove, for every value of the constants that satisfies the
named assumptions (`LimitsAssumption`, `NoLotAssumption`, `WorkersAssumption`;
`LotsAssumption`, `AuthorAssumption`; `PeopleAssumption`, `BoundsAssumption`,
`SurrogateAssumption`; `WorkersAssumption` of the workers; `ExchangeAssumption`;
`SlotsAssumption`; the sets of lots, messages, processes, sessions, people, presses
and calls are arbitrary):

| Theorem | Statement |
|---|---|
| `AuctionLifecycleProofs!TypesHold` | `Spec => []TypeOK` |
| `PublishedHasPost` | `Spec => []PublishedIffBound` |
| `RetriesAreBounded` | `Spec => []AttemptBudget` |
| `IdsAreOwn` | `Spec => []BoundToOwnPost` |
| `IdsStay` | `Spec => MessageStable` |
| `ScheduleKnowsAll` | `Spec => KnownToSchedule` |
| `AnnouncedAtMostOnce` | `Spec => []OneAnnouncementPerRound` |
| `TelegramOutboxProofs!TypesHold`, `NothingSentTwice`, `VerdictsAreTrue`, `QueueIsClaimable`, `DeliveredByOne` | types and the four invariants of the outbox |
| `OutboxImplementsPromise` | `Spec => ImplementsPromise`, the refinement |
| `AuctionBiddingProofs!TypesHold`, `NoTies`, `NobodyOutbidsTheWinner`, `NobodyDeadlocks` | types, `OneLeader`, `WinnerStands`, `NoDeadlock` |
| `LedgerIsFrozen` | `Spec => LedgerFrozen` |
| `BiddingIsSerial` | `Spec => BidsAreSerial`, the refinement |
| `OneCurrencyIsStored` | `Spec => []PlainLotStores`: on a lot of one currency the table stores what the service accepts |
| `AuctionAutonomyProofs!OneSenderAlone` | without `/force_publish` and decisions, `Spec => []OneSenderPerLot` |
| `NoRetryAlone`, `OnePostAlone` | without lost replies as well, `Spec => []NoBlindRetry`, `Spec => []OnePostPerLot` |
| `PublicationIsADelivery` | under the same assumptions `Spec => PublicationKeepsPromise`, the refinement |
| `SlotSchedulingProofs!SlotTypes`, `SlotsAreKept`, `CallsNeverDeadlock` | types, `NoDoubleBooking`, `NoLockCycle` |
| `CallsAreSerial` | `Spec => BookingsAreSerial`, the refinement |
| `PrivacyErasureProofs!PrivacyTypes`, `LocksHold` | types; the inductive invariant |
| `NoUidTakenTwice`, `EvidenceHolds`, `BindingsAreApproved`, `OneDecision` | `CheckedOwnerStands`, `ApprovedOnEvidence`, `BoundByApproval`, `DecidedOnce` |
| `NothingLeftUndecided`, `NothingElseErased`, `NobodyWaitsForever` | `ErasedIsSettled`, `ErasedAsReviewed`, `NoCircularWait` |
| `WorkerSupervisionProofs!SupervisionTypes`, `NoWorkerTwice`, `StoppedWorkersAreGone`, `ReadinessIsTrue` | types, `OneRunPerWorker`, `GoneWhenStopped`, `ReadyIsSupervised` |
| `FailureReachesMain` | `Spec => []FailurePublished`: until the main coroutine leaves, the failure of a critical worker is where it waits for one |
| `ExchangePublicationProofs!ExchangeTypes`, `ClaimsHold` | types; the inductive invariant |
| `PostedOnce`, `PostsAreCurrent`, `HungClaimsStay` | `RepostOnlyByLostReply`, `StaleOnlyIfOvertaken`, `HungClaimStays` |

**Lifecycle.** None of the invariants is inductive alone. `RowInv` joins the row's
shape, budget and ids with two facts: *Fresh*, a lot that is not scheduled yet has no
id and has used no attempt, which `Schedule` needs; and *Answered*, a coroutine at work
has a lot, and the id it holds after a send is the id of one of that lot's posts.
Without *Answered*, `MarkPublished` of a coroutine that lost its claim could write
anything. `RoundInv` joins `OneAnnouncementPerRound` with
*RoundsOver*: a claim that is held names the current round or an earlier one, and no
round of a lot still open for bidding has been announced or is held. That is why
reopening has to start a new round and why the sweep must fail a lot and not reopen
it. `MessageStable` then follows step by step.
`KnownToSchedule` is about steps, but needs two invariants as well: `RowInv`, since a move
of a lot with a post asks for its id and the schedule for its status, and *NeverWritten*,
since three statuses that some statements accept are written by none. `Walks` lists what
remains.

**Outbox.** `OutboxInv` has one conjunct per row (`RowOK`: what status, delivery
state, attempts and the count of acceptances say of each other) and one per delivery
(`JobOK`: what a delivery in each of its steps knows of its row). The key case is a
delivery that outlived its lease: its row is then `failed`/`unknown`, or `sent` if an
administrator saw the message and confirmed it; no requeue applies to either, so a late
acceptance is the first and no late recording touches the row. The refinement maps each step to one of the promise or to a stutter, under this
invariant.

**Bidding.** `BiddingInv` says: who holds the lot's row after which step (`LotHeld`);
a bid that is accepted and not yet committed still improves on every other row,
because nobody else can commit one while the lot is held (`AcceptedStands`); once the
lot is out of bidding no accepted bid is under way, so the result is read late enough
(`ReadLate`). Hence a commit is the moment at which a bid enters, and the refinement maps
it, a deletion, the claim and the reading of the result to one step each and everything
else to a stutter. `OneCurrencyIsStored` adds `InCurrency` (stored and accepted bids are in a
currency of the lot) and arithmetic: without a second currency the two statements of the
rules compare the same amounts. `NoDeadlock` is proved from the order bid < lot < bidder: every
transaction wants a row above those it holds, so in any set of
sessions one has nobody in the set to wait for: a session that waits for a bidder's row waits for
a holder that has all its locks, and the lower kinds follow.

**Lifecycle without people.** `HolderInv`: among workers that run by themselves a claim
has one holder, the coroutine whose batch has the lot; a lot that waits has none; a lot
a coroutine has dealt with is not in its batch any more. The sweep fails a claim and
does not give it back, so a coroutine that lost its claim cannot meet a new holder.
`PostInv` adds that a lot which may still be claimed has no post, which needs replies
that arrive. `OneSenderPerLot` does not need them. The refinement needs besides that a lot with a post
or a sender has an attempt counted (`Tried`), so its verdict is not "none". Each action is
one of four kinds: it gives lots up or leaves them (`Fades`), claims some (`Takes`), makes
a post (`Sends`) or stores its id (`Records`).

**Slots.** `DayInv`: a day has one holder, a call locks its days in order and writes with
all of them. `Checked`: what a call found out about its slot stays true until it writes,
for another call that writes holds other days and hence goes to another slot
(`PlacedElsewhere`), and any other statement that makes a lot count in a slot is
recorded in `unasked`. The refinement follows: a call takes effect when it writes, and what
it checked is then still what the calendar shows. For `NoLockCycle` the days are ordered, but rows and days are
not: `RowInv` says that a lot which is being moved has been in the schedule and is never
`pending` again, so the UPDATE of an approval does not wait for a row that a move
holds. The calls of a circle therefore wait for days, and whoever waits for the
largest of those days waits for a call that holds it and waits for a larger one.

**UID and erasure.** `LockInv`: who holds which lock at which stage, one holder each.
`CheckInv`: while an approval holds the lock of a UID and has found no other owner, none
appears; the erasure moves a UID only to a surrogate that nobody else uses.
`Reviewed`: what the snapshot of an erasure contains is decided and stays so, since
only pending requests change. The seven properties follow step by step from these.

**Workers.** `RunOK` ties the two tasks of a worker together (a supervisor that waits has
one coroutine or its outcome); `BudgetOK` counts its failures and ignored
cancellations; `Doomed` and `StopOK` say that while `stop()` waits for a worker, its
supervisor or its coroutine has been asked to end or the loop's condition is false;
`WatchOK` ties the probe's state to the supervisor. `FailurePublished` is the part of
`CriticalFailureStops` that needs no fairness: the main coroutine cannot miss the failure.

**Exchange.** `PostingInv`: a claimed batch has one holder, and one that may be claimed
has neither a holder nor a post whose reply came; a claim without a holder has no way
back to `approved`, because `claim_for_post` rolls back what it expired. `OfferInv`: a
press between read and record has the offer of the row or was overtaken.

*Model-checked only:* the liveness properties `PublicationSettles`,
`FinalizationSettles`, `EveryCommandSettles`, `CriticalFailureStops` and
`CriticalKeepsRunning`, which rest on fairness and are outside what these proofs do.

To check: `tlc -config <Run>.cfg <Module>.tla` for a run, `tlapm <Module>.tla` for the
proofs.

## 7. Where the code and its documents disagree

| Run | What it shows |
|---|---|
| `LifecycleMyLots` | `/my_lots` finishes a lot whose bidding just ended, so its result is never announced (`db/repositories/auctions.py:738`); the caller's comment says "older than two months", and the worklog calls the finalization loop the only production path. |
| `BiddingMixed` | On a reverse lot in two currencies the service accepts 90 diamonds after 10 cups and the table's CHECK, which compares bare amounts, refuses it (`migrations/006…sql:63`); `test_reverse_auction_no_ceiling.py:57` asserts that bid is valid. Without a second currency it cannot happen (`OneCurrencyIsStored`). |
| `ErasureRedaction` | An erasure renames every confirmation of a request to `redacted`, and (request, name) is unique, so the erasure of an account whose request has two confirmations fails every time (`privacy_requests.py:723`); `docs/privacy/request_lifecycle.md` says apply refuses changed or blocked requests only. |

Seen while modelling, without a run. In the modelled parts:

- `/force_publish` of a lot the loop is sending sends it a second time: the row's
  snapshot says `publishing`, so `publish_auction_lot` skips the claim
  (`handlers/auction/publication.py:193`). `REFACTORING_PHASE_4.md:69` says several
  instances do not publish one lot at the same time. `OneSenderAlone` therefore
  assumes that nobody forces.
- A network error after which the post may be visible is recorded as a failure and
  retried (`use_cases/auction_publication.py:76`); line 95 rejects a retry for the same
  doubt one step later. `NoRetryAlone` therefore assumes that replies arrive.
- `/cancel_pending` fails and then cancels a lot that a publisher has just posted; the
  post stays (`submission_recovery.py:32`). The message at line 49 says a published lot
  is removed by an administrator only.
- A lot that runs again is announced again: flag set, message swallowed by the dedupe
  key of the first round (`repositories/outbox.py:111`). `REFACTORING_PHASE_5.md:11`
  calls a flag without its message a fixed defect.
- `HOTFIX_SUBMISSION_RECOVERY.md:27` says that lots more than ten minutes late are
  failed. Only menus run that statement; the loop publishes a lot however late it is.
- `REFACTORING_PHASE_5.md:42` says that the outbox claims commands one by one and that
  a stop leaves those not begun `pending`. `claim_batch` takes up to 50, and a stop
  leaves them `processing`; the lease turns them into `failed`/`unknown`.
- The CHECK also blocks a revision by `/oops` that lowers a bid on a standard lot,
  because the row's own amount is among those compared
  (`REFACTORING_PHASE_3.md:36`, item 7: "cancels or revises").
- *Slots.* A move that takes twelve seconds is reported as undone by its transaction
  (`admin_panel_schedule.py:906`), but `wait_for` can cancel after the commit. What
  keeps an approval and a move from a deadlock is only that the UPDATE of `schedule`
  names statuses that a lot of the schedule never has.
- *UID.* `expire_due_requests` writes `expired`, which the migrated CHECKs of requests and
  confirmations refuse (`002_initial_schema.sql:861`, `:925`; the bootstrap schema knows
  it for requests only), so one due row with a pending confirmation fails the whole
  pass, against `handlers/uid_verification.py:938`. `revision` never expires. The
  rejection by an administrator raises a `TypeError` (`uid_moderation.py:84` passes
  `admin_comment`). Confirmations are counted before the request is locked, so an
  approved request had them once and not necessarily at the end: that is what
  `ApprovedOnEvidence` says.
- *Erasure.* A `conflict` is never left and blocks the erasure of its account. An
  approved request whose plan has changed can neither be executed, cancelled nor
  approved again (`privacy_requests.py:413`). An erased user who has the same UID
  verified again meets his surrogate as its owner.
- *Exchange.* `exchange_broadcast` makes the post from the row it read before the claim
  (`moderation.py:1054`): an edit or an erasure in between is lost on it, the one case
  `StaleOnlyIfOvertaken` excepts, although
  `test_approved_exchange_editor_regressions.py:49` names the intention that no edit
  follows the start of a publication. A lost reply leads to a second post. `claim_for_post` rolls back the expiry it has just written when it
  raises. A post under way while its batch is deleted stays in the channel, as does
  the post of a batch deleted from the catalog or of an erased owner, whose ids are gone.
  The handler of `pex|<batch>|<action>` is shadowed by another, so its lock on
  `manual_sent_at` never runs.
- *Workers.* A supervisor that outlives `stop()` finds `_stopping` reset
  (`tasks.py:318`) and starts its worker again while `asyncio.run` waits for it, against
  `REFACTORING_PHASE_7.md:71`. A `CancelledError` from a library ends a worker, critical or
  not, without a restart or a fatal failure. A recoverable worker stays failed after 8
  failures in the life of the process. `stop()` waits for its workers in turn, 15 to 20
  seconds each, under a grace period of 45.

In parts without a model: `db/migrations` alone create no
`exchange_batches.publication_*` columns; reminders record a row before they are sent;
`apply_scheduled_time_change` (`scheduled_edits.py:358`) is called by nothing; in
`deploy/server` an `apply` that fails after its commit and before its output is parsed
counts as one that may be rolled back, a kill after `git reset` makes the next run say
"already at", and `restore_userbot_session` and `probe_status` lose the exit status they test.

## 8. What is not modelled, and known gaps

The components marked "no" in section 2. Within the modelled ones:

- *Two finalizers and `mark_finished`.* It checks the status and not the claim, so a
  finalizer that lost its lease can finish the next round in the place of its
  holder. The model contains the behaviour; no property excludes it.
- *The userbot's check-then-delete* (`bid_changes.py:59`) can delete the announced
  bid. `LedgerFrozen` permits deletions, since moderators delete bids of closed lots
  on purpose.
- *Refresh of a published post.* Moving a lot to another time and back reuses the
  dedupe key of an earlier refresh, as a lot that runs again does with its flag (section 7).
- *A standard lot opened to both currencies* compares bare amounts. `OneLeader` holds
  in the order the code uses; nothing in the repository states another one.
- *The announcer's own messages* are one step; a failure in the middle of them is not
  split.
- *Slots:* owners and card of a lot are fixed while it is in the schedule; all lots
  exist from the start.
- *UID verification:* photographs, reminders, and the administrators' direct corrections
  of `user_uids`, which take no advisory lock.
- *Erasure:* the other tables it rewrites are single statements of its transaction and
  have no writers here. `NoCircularWait` excepts an approval of a request made after
  the snapshot, which PostgreSQL would end as a deadlock.
- *Exchange:* the columns `manual_*` by which a batch is handed over, and deck and
  cards. That a post made while its batch is deleted stays in the channel is
  contained in the model and excluded by no property.
- *Database pool, Telegram boundary, web application, menus, market, submission
  dialogue:* views, or single statements without a protocol; they are the environment
  of the models. *Deployment, backup, server supervisor:* shell and operations tooling
  whose state is files and containers.
- *Two exceptions to composing by parts:* the finalizer's round (lifecycle) and what it
  read (bidding) are not in one state space, so a bid read in one round and announced
  in the next is not checked; and a flag is not tied to the round of its lot.
- *Database built by migrations alone:* without the unique index on the message, two
  deliveries of one update are serialised by the lot's lock but not by the index.

## 9. Plan

In this order; each module is to come with its properties, run and proof.

1. The finalizer's claim and the bidding ledger joined in one module: what is read in
   one round and announced in another.
2. `SchemaMigrator`: advisory lock, checksums, crash between migrations. Property:
   each migration is recorded exactly when applied, in order.
3. `Preorders`: submission and decision; one decision per request.
4. `Autobids` on top of the bidding rules: never above the ceiling, and the duel of
   two autobids ends.
5. `SchedulePublication`: review, edit and publication of the weekly post.
6. `Winners`, `Warnings`: partial failure of a sequence of messages, and counters.
