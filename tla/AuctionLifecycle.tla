--------------------------- MODULE AuctionLifecycle ---------------------------
(***************************************************************************)
(* The life of an auction lot: one row of public.auctions, the processes   *)
(* that move it (publisher loops, /force_publish handlers, finalization    *)
(* loops, the userbot that sees the forwarded channel post) and the people *)
(* who decide about it (moderators, owners, the repair tool).              *)
(*                                                                         *)
(* Every SQL statement or transaction is one action: PostgreSQL makes it   *)
(* atomic.  What lies between two statements of a coroutine (a Telegram    *)
(* call, another await) is a point where everything else may run.          *)
(***************************************************************************)
EXTENDS Naturals, FiniteSets

CONSTANTS
    Lots,           \* the rows of public.auctions
    NoLot,          \* no row
    Loops,          \* publisher loops, one per running bot process
    Forcers,        \* /force_publish handlers running in those processes
    Finalizers,     \* finalization loops, one per running bot process
    BatchLimit,     \* LIMIT of both claim_due statements
    MaxAttempts,    \* max_attempts of mark_publication_failed
    Targets,        \* number of channel targets the sender tries in turn
    LossyReplies,   \* TRUE: Telegram may accept a message and the call still raise
    MaxPosts,       \* bound: channel posts created in a behaviour
    MaxDecisions    \* bound: operator decisions that send a lot back

ASSUME LimitsAssumption ==
    /\ BatchLimit \in Nat \ {0}
    /\ MaxAttempts \in Nat \ {0}
    /\ Targets \in Nat \ {0}
    /\ MaxPosts \in Nat
    /\ MaxDecisions \in Nat
    /\ LossyReplies \in BOOLEAN

ASSUME NoLotAssumption == NoLot \notin Lots

ASSUME WorkersAssumption == Loops \cap Forcers = {}

Senders == Loops \cup Forcers

NoMsg == 0
Msgs == 1..MaxPosts
NoClaim == <<NoLot, 0>>

VARIABLES
    \* the row
    status,      \* auctions.status ("absent": not inserted yet)
    message,     \* auctions.message_id, NoMsg for NULL
    discussion,  \* auctions.discussion_message_id: the post whose thread it is
    attempts,    \* auctions.publication_attempts
    \* the clock, as far as the row's timestamps can tell it
    phase,       \* now against start_time and end_time
    retryDue,    \* publication_next_attempt_at IS NULL OR <= NOW()
    leaseOld,    \* the claim of the current status is more than 15 minutes old
    \* what really happened outside the database
    posts,       \* channel posts of the lot that Telegram accepted
    unreviewed,  \* one was accepted after the last operator decision
    round,       \* how many times the lot was opened for bidding
    announced,   \* rounds whose result the announcer was run for
    nextMsg, decisions,
    \* a coroutine that publishes
    spc, slot, smsg, target, batch,
    \* a coroutine that finalizes
    fpc, fclaim, held

rowVars == <<status, message, discussion, attempts>>
timeVars == <<phase, retryDue, leaseOld>>
worldVars == <<posts, unreviewed, round, announced, nextMsg, decisions>>
senderVars == <<spc, slot, smsg, target, batch>>
finalizerVars == <<fpc, fclaim, held>>
vars == <<rowVars, timeVars, worldVars, senderVars, finalizerVars>>

-------------------------------------------------------------------------------
(* Vocabulary *)

\* enums.AuctionStatus with the status check of migration 019
Moderatable == {"pending", "approved", "moderation"}
Unsent == {"scheduled", "publishing", "publication_deferred", "publication_failed"}
Settled == {"finalizing", "finalization_failed", "finished"}
Published == Settled \cup {"active"}
Statuses == {"absent", "draft", "rejected", "cancelled"}
            \cup Moderatable \cup Unsent \cup Published

\* Before start_time; after it; more than ten minutes after it; past end_time;
\* past the minute that contains end_time (when bidding is closed).
Early == 0
Due == 1
Overdue == 2
Ended == 3
Closed == 4
Phases == Early..Closed

Put(f, S, v) == [x \in DOMAIN f |-> IF x \in S THEN v ELSE f[x]]

Spend ==
    /\ decisions < MaxDecisions
    /\ decisions' = decisions + 1

-------------------------------------------------------------------------------
(* The application and its moderation *)

\* create_pending: INSERT of the row together with its owner
CreatePending(l) ==
    /\ status[l] = "absent"
    /\ status' = [status EXCEPT ![l] = "pending"]
    /\ UNCHANGED <<message, discussion, attempts, timeVars, worldVars,
                   senderVars, finalizerVars>>

Schedule(l) ==
    /\ status[l] \in Moderatable
    /\ status' = [status EXCEPT ![l] = "scheduled"]
    /\ phase' = [phase EXCEPT ![l] = Early]
    /\ retryDue' = [retryDue EXCEPT ![l] = TRUE]
    /\ UNCHANGED <<message, discussion, attempts, leaseOld, worldVars,
                   senderVars, finalizerVars>>

Reject(l) ==
    /\ status[l] \in Moderatable
    /\ status' = [status EXCEPT ![l] = "rejected"]
    /\ UNCHANGED <<message, discussion, attempts, timeVars, worldVars,
                   senderVars, finalizerVars>>

CancelByModerator(l) ==
    /\ status[l] \in Moderatable \cup
         {"draft", "scheduled", "publication_failed", "active", "finalization_failed"}
    /\ status' = [status EXCEPT ![l] = "cancelled"]
    /\ UNCHANGED <<message, discussion, attempts, timeVars, worldVars,
                   senderVars, finalizerVars>>

\* cancel_by_owner, and cancel_owner_unpublished_lots behind /cancel_pending
CancelByOwner(l) ==
    /\ status[l] \in Moderatable \cup {"draft", "publication_failed"}
    /\ message[l] = NoMsg
    /\ status' = [status EXCEPT ![l] = "cancelled"]
    /\ UNCHANGED <<message, discussion, attempts, timeVars, worldVars,
                   senderVars, finalizerVars>>

\* /activate_lot
RequeuePublication(l) ==
    /\ status[l] \in {"scheduled", "publication_failed"}
    /\ message[l] = NoMsg
    /\ Spend
    /\ status' = [status EXCEPT ![l] = "scheduled"]
    /\ attempts' = [attempts EXCEPT ![l] = 0]
    /\ retryDue' = [retryDue EXCEPT ![l] = TRUE]
    /\ unreviewed' = [unreviewed EXCEPT ![l] = FALSE]
    /\ UNCHANGED <<message, discussion, phase, leaseOld, posts, round, announced,
                   nextMsg, senderVars, finalizerVars>>

\* reschedule of a lot that has no channel message
RescheduleUnpublished(l) ==
    /\ message[l] = NoMsg
    /\ status[l] \in {"approved", "scheduled", "publication_failed", "publication_deferred"}
    /\ Spend
    /\ status' = [status EXCEPT ![l] = "scheduled"]
    /\ discussion' = [discussion EXCEPT ![l] = NoMsg]
    /\ attempts' = [attempts EXCEPT ![l] = 0]
    /\ phase' = [phase EXCEPT ![l] = Early]
    /\ retryDue' = [retryDue EXCEPT ![l] = TRUE]
    /\ unreviewed' = [unreviewed EXCEPT ![l] = FALSE]
    /\ UNCHANGED <<message, leaseOld, posts, round, announced, nextMsg,
                   senderVars, finalizerVars>>

\* A lot is opened for bidding again (reschedule of a published lot, restart).
Reopen(l, p) ==
    /\ Spend
    /\ status' = [status EXCEPT ![l] = "active"]
    /\ phase' = [phase EXCEPT ![l] = p]
    /\ round' = [round EXCEPT ![l] = @ + 1]
    /\ UNCHANGED <<message, discussion, attempts, retryDue, leaseOld, posts,
                   unreviewed, announced, nextMsg, senderVars, finalizerVars>>

ReschedulePublished(l) ==
    /\ message[l] # NoMsg
    /\ status[l] \in {"scheduled", "active", "finished", "finalization_failed"}
    /\ Reopen(l, Early)

\* restart keeps start_time: the ten-minute mark matters to unsent lots only
Restart(l) ==
    /\ status[l] \in {"active", "finished", "finalization_failed"}
    /\ message[l] # NoMsg
    /\ Reopen(l, Due)

\* Mutant of FinishNow: a status the check of migration 019 does not know
FinishNowLegacy(l) ==
    /\ status[l] = "active"
    /\ status' = [status EXCEPT ![l] = "completed"]
    /\ phase' = [phase EXCEPT ![l] = Ended]
    /\ UNCHANGED <<message, discussion, attempts, retryDue, leaseOld, worldVars,
                   senderVars, finalizerVars>>

FinishNow(l) ==
    /\ status[l] = "active"
    /\ status' = [status EXCEPT ![l] = "finished"]
    /\ phase' = [phase EXCEPT ![l] = Ended]
    /\ UNCHANGED <<message, discussion, attempts, retryDue, leaseOld, worldVars,
                   senderVars, finalizerVars>>

-------------------------------------------------------------------------------
(* Statements of the older persistence layer, run when a user opens a menu *)

\* has_pending_lot and release_stale_unpublished_lots: every overdue unsent lot
\* of one owner (the lots S), whether or not a publisher is working on it
ReleaseStale(S) ==
    /\ S # {}
    /\ \A l \in S : /\ message[l] = NoMsg
                    /\ status[l] \in {"scheduled", "publishing"}
                    /\ phase[l] >= Overdue
    /\ status' = Put(status, S, "publication_failed")
    /\ UNCHANGED <<message, discussion, attempts, timeVars, worldVars,
                   senderVars, finalizerVars>>

\* auto_finish_old_lots_for_owner, run by /my_lots
AutoFinish(S) ==
    /\ S # {}
    /\ \A l \in S : status[l] = "active" /\ phase[l] >= Ended
    /\ status' = Put(status, S, "finished")
    /\ UNCHANGED <<message, discussion, attempts, timeVars, worldVars,
                   senderVars, finalizerVars>>

-------------------------------------------------------------------------------
(* A publisher: auction_publisher_loop and /force_publish *)

\* Mutant of DueLots: a lot another worker has claimed is due as well
DueOrClaimed == {l \in Lots : /\ status[l] \in {"scheduled", "publishing"}
                              /\ message[l] = NoMsg
                              /\ phase[l] >= Due
                              /\ retryDue[l]}

DueLots == {l \in Lots : /\ status[l] = "scheduled"
                         /\ message[l] = NoMsg
                         /\ phase[l] >= Due
                         /\ retryDue[l]}

\* Mutant of StalePublications and StaleFinalizations: no lease is ever given up
NeverStale == {}

StalePublications == {l \in Lots : /\ status[l] = "publishing"
                                   /\ message[l] = NoMsg
                                   /\ leaseOld[l]}

\* SET of both claim statements
Claim(S) ==
    /\ status' = Put(status, S, "publishing")
    /\ attempts' = [l \in Lots |-> IF l \in S THEN attempts[l] + 1 ELSE attempts[l]]
    /\ leaseOld' = Put(leaseOld, S, FALSE)

\* Mutant of RecoverStale: an abandoned claim goes back to the queue
RecoverStaleByRetry(w) ==
    /\ spc[w] = "idle"
    /\ status' = Put(status, StalePublications, "scheduled")
    /\ spc' = [spc EXCEPT ![w] = "claim"]
    /\ UNCHANGED <<message, discussion, attempts, timeVars, worldVars,
                   slot, smsg, target, batch, finalizerVars>>

\* An iteration begins with fail_stale_publications
RecoverStale(w) ==
    /\ spc[w] = "idle"
    /\ status' = Put(status, StalePublications, "publication_failed")
    /\ spc' = [spc EXCEPT ![w] = "claim"]
    /\ UNCHANGED <<message, discussion, attempts, timeVars, worldVars,
                   slot, smsg, target, batch, finalizerVars>>

\* claim_due: SKIP LOCKED may leave out any due lot another session has locked
ClaimDue(w) ==
    /\ spc[w] = "claim"
    /\ \E S \in SUBSET DueLots :
          /\ S # {}
          /\ Cardinality(S) <= BatchLimit
          /\ Claim(S)
          /\ batch' = [batch EXCEPT ![w] = S]
    /\ spc' = [spc EXCEPT ![w] = "batch"]
    /\ UNCHANGED <<message, discussion, phase, retryDue, worldVars,
                   slot, smsg, target, finalizerVars>>

\* Nothing claimed, or the whole batch handled: the loop sleeps.
FinishIteration(w) ==
    /\ \/ spc[w] = "claim" /\ DueLots = {}
       \/ spc[w] = "batch" /\ batch[w] = {}
    /\ spc' = [spc EXCEPT ![w] = "idle"]
    /\ UNCHANGED <<rowVars, timeVars, worldVars, slot, smsg, target, batch,
                   finalizerVars>>

\* The next row of the batch, whose snapshot says "publishing": no second claim
StartSending(w, l) ==
    /\ spc[w] = "batch"
    /\ l \in batch[w]
    /\ batch' = [batch EXCEPT ![w] = @ \ {l}]
    /\ slot' = [slot EXCEPT ![w] = l]
    /\ target' = [target EXCEPT ![w] = 1]
    /\ spc' = [spc EXCEPT ![w] = "send"]
    /\ UNCHANGED <<rowVars, timeVars, worldVars, smsg, finalizerVars>>

\* /force_publish of a lot that is not "publishing" goes through claim_one
ForceClaim(w, l) ==
    /\ w \in Forcers
    /\ spc[w] = "idle"
    /\ status[l] = "scheduled"
    /\ message[l] = NoMsg
    /\ Claim({l})
    /\ slot' = [slot EXCEPT ![w] = l]
    /\ target' = [target EXCEPT ![w] = 1]
    /\ spc' = [spc EXCEPT ![w] = "send"]
    /\ UNCHANGED <<message, discussion, phase, retryDue, worldVars,
                   smsg, batch, finalizerVars>>

\* /force_publish of a lot it reads as "publishing" takes it for its own claim
ForceUnclaimed(w, l) ==
    /\ w \in Forcers
    /\ spc[w] = "idle"
    /\ status[l] = "publishing"
    /\ message[l] = NoMsg
    /\ slot' = [slot EXCEPT ![w] = l]
    /\ target' = [target EXCEPT ![w] = 1]
    /\ spc' = [spc EXCEPT ![w] = "send"]
    /\ UNCHANGED <<rowVars, timeVars, worldVars, smsg, batch, finalizerVars>>

\* Telegram accepts a message for the channel.
Post(w) ==
    /\ nextMsg \in Msgs
    /\ posts' = [posts EXCEPT ![slot[w]] = @ \cup {nextMsg}]
    /\ unreviewed' = [unreviewed EXCEPT ![slot[w]] = TRUE]
    /\ nextMsg' = nextMsg + 1

\* A call that raised: a delivery error goes on to the next target, any other
\* exception, and the last target's, leaves the sender.
CallRaised(w) ==
    \/ /\ target[w] < Targets
       /\ target' = [target EXCEPT ![w] = @ + 1]
       /\ UNCHANGED spc
    \/ /\ spc' = [spc EXCEPT ![w] = "failed"]
       /\ UNCHANGED target

SendDelivered(w) ==
    /\ spc[w] = "send"
    /\ Post(w)
    /\ smsg' = [smsg EXCEPT ![w] = nextMsg]
    /\ spc' = [spc EXCEPT ![w] = "sent"]
    /\ UNCHANGED <<rowVars, timeVars, round, announced, decisions,
                   slot, target, batch, finalizerVars>>

\* Mutant of SendDeferred: message id 0 is taken for an id
SendZeroId(w) ==
    /\ spc[w] = "send"
    /\ Post(w)
    /\ spc' = [spc EXCEPT ![w] = "sent"]
    /\ UNCHANGED <<rowVars, timeVars, round, announced, decisions,
                   slot, smsg, target, batch, finalizerVars>>

\* Telegram accepted the post but answered with message id 0: the id becomes
\* known only when the userbot sees the forwarded post.
SendDeferred(w) ==
    /\ spc[w] = "send"
    /\ Post(w)
    /\ spc' = [spc EXCEPT ![w] = "deferred"]
    /\ UNCHANGED <<rowVars, timeVars, round, announced, decisions,
                   slot, smsg, target, batch, finalizerVars>>

SendRefused(w) ==
    /\ spc[w] = "send"
    /\ CallRaised(w)
    /\ UNCHANGED <<rowVars, timeVars, worldVars, slot, smsg, batch, finalizerVars>>

\* The request reached Telegram, the reply did not reach the bot.
SendReplyLost(w) ==
    /\ LossyReplies
    /\ spc[w] = "send"
    /\ Post(w)
    /\ CallRaised(w)
    /\ UNCHANGED <<rowVars, timeVars, round, announced, decisions,
                   slot, smsg, batch, finalizerVars>>

\* A loop goes on with its batch, a handler is done.
SenderDone(w) ==
    /\ spc' = [spc EXCEPT ![w] = IF w \in Loops THEN "batch" ELSE "idle"]
    /\ slot' = [slot EXCEPT ![w] = NoLot]
    /\ smsg' = [smsg EXCEPT ![w] = NoMsg]
    /\ target' = [target EXCEPT ![w] = 1]

\* mark_published; FALSE (nothing updated) and an exception are only logged
MarkPublished(w) ==
    LET l == slot[w] IN
    /\ spc[w] = "sent"
    /\ IF status[l] = "publishing" /\ message[l] = NoMsg
       THEN /\ status' = [status EXCEPT ![l] = "active"]
            /\ message' = [message EXCEPT ![l] = smsg[w]]
            /\ retryDue' = [retryDue EXCEPT ![l] = TRUE]
            /\ round' = [round EXCEPT ![l] = @ + 1]
       ELSE UNCHANGED <<status, message, retryDue, round>>
    /\ SenderDone(w)
    /\ UNCHANGED <<discussion, attempts, phase, leaseOld, posts, unreviewed, announced,
                   nextMsg, decisions, batch, finalizerVars>>

\* Mutant of MarkDeferred: the lot waits for its id in the publishers' queue
MarkDeferredForRetry(w) ==
    LET l == slot[w] IN
    /\ spc[w] = "deferred"
    /\ IF status[l] = "publishing" /\ message[l] = NoMsg
       THEN /\ status' = [status EXCEPT ![l] = "scheduled"]
            /\ retryDue' = [retryDue EXCEPT ![l] = TRUE]
       ELSE UNCHANGED <<status, retryDue>>
    /\ SenderDone(w)
    /\ UNCHANGED <<message, discussion, attempts, phase, leaseOld, worldVars,
                   batch, finalizerVars>>

MarkDeferred(w) ==
    LET l == slot[w] IN
    /\ spc[w] = "deferred"
    /\ IF status[l] = "publishing" /\ message[l] = NoMsg
       THEN /\ status' = [status EXCEPT ![l] = "publication_deferred"]
            /\ retryDue' = [retryDue EXCEPT ![l] = TRUE]
       ELSE UNCHANGED <<status, retryDue>>
    /\ SenderDone(w)
    /\ UNCHANGED <<message, discussion, attempts, phase, leaseOld, worldVars,
                   batch, finalizerVars>>

\* Mutant of MarkPublicationFailed: the last attempt is not counted
MarkFailedLate(w) ==
    LET l == slot[w] IN
    /\ spc[w] = "failed"
    /\ IF status[l] = "publishing" /\ message[l] = NoMsg
       THEN LET terminal == attempts[l] > MaxAttempts IN
            /\ status' = [status EXCEPT
                 ![l] = IF terminal THEN "publication_failed" ELSE "scheduled"]
            /\ retryDue' = [retryDue EXCEPT ![l] = terminal]
       ELSE UNCHANGED <<status, retryDue>>
    /\ SenderDone(w)
    /\ UNCHANGED <<message, discussion, attempts, phase, leaseOld, worldVars,
                   batch, finalizerVars>>

\* mark_publication_failed: three attempts, then a human
MarkPublicationFailed(w) ==
    LET l == slot[w] IN
    /\ spc[w] = "failed"
    /\ IF status[l] = "publishing" /\ message[l] = NoMsg
       THEN LET terminal == attempts[l] >= MaxAttempts IN
            /\ status' = [status EXCEPT
                 ![l] = IF terminal THEN "publication_failed" ELSE "scheduled"]
            /\ retryDue' = [retryDue EXCEPT ![l] = terminal]
       ELSE UNCHANGED <<status, retryDue>>
    /\ SenderDone(w)
    /\ UNCHANGED <<message, discussion, attempts, phase, leaseOld, worldVars,
                   batch, finalizerVars>>

\* The UPDATE that records an outcome raises before it commits: execute() and
\* publish_auction_lot swallow it and the row stays as it is.
RecordLost(w) ==
    /\ spc[w] \in {"sent", "deferred", "failed"}
    /\ SenderDone(w)
    /\ UNCHANGED <<rowVars, timeVars, worldVars, batch,
                   finalizerVars>>

\* Cancellation or death of the process, at any await; also an exception of
\* get_lot_number_for_day, which drops the rest of the batch.
SenderCrash(w) ==
    /\ spc[w] # "idle"
    /\ spc' = [spc EXCEPT ![w] = "idle"]
    /\ slot' = [slot EXCEPT ![w] = NoLot]
    /\ smsg' = [smsg EXCEPT ![w] = NoMsg]
    /\ target' = [target EXCEPT ![w] = 1]
    /\ batch' = [batch EXCEPT ![w] = {}]
    /\ UNCHANGED <<rowVars, timeVars, worldVars, finalizerVars>>

-------------------------------------------------------------------------------
(* The userbot sees a channel post forwarded into the discussion chat: late, *)
(* more than once, or never                                                  *)

\* UPDATE of confirm_deferred_publication and of the repair tool
BindRow(l, m, d) ==
    /\ message' = [message EXCEPT ![l] = m]
    /\ discussion' = [discussion EXCEPT ![l] = IF d = NoMsg THEN @ ELSE d]
    /\ IF status[l] \in Settled
       THEN UNCHANGED status
       ELSE status' = [status EXCEPT ![l] = "active"]
    /\ round' = [round EXCEPT ![l] = IF status[l] \in Unsent THEN @ + 1 ELSE @]
    /\ retryDue' = [retryDue EXCEPT ![l] = TRUE]
    /\ UNCHANGED <<attempts, phase, leaseOld, posts, unreviewed, announced,
                   nextMsg, senderVars, finalizerVars>>

\* Mutant of ConfirmPublication: a recorded id gives way to a later post
ConfirmLatest(l, m) ==
    /\ m \in posts[l]
    /\ status[l] \in Unsent \cup Published
    /\ discussion[l] \in {NoMsg, m}
    /\ BindRow(l, m, m)
    /\ UNCHANGED decisions

\* The root message names the lot and its channel post.
ConfirmPublication(l, m) ==
    /\ m \in posts[l]
    /\ status[l] \in Unsent \cup Published
    /\ message[l] \in {NoMsg, m}
    /\ discussion[l] \in {NoMsg, m}
    /\ BindRow(l, m, m)
    /\ UNCHANGED decisions

\* Mutant of BindByMessage: the row is not looked up by the post's id
BindUnchecked(l, m) ==
    /\ m \in UNION {posts[k] : k \in Lots}
    /\ message[l] # NoMsg
    /\ discussion[l] = NoMsg
    /\ discussion' = [discussion EXCEPT ![l] = m]
    /\ UNCHANGED <<status, message, attempts, timeVars, worldVars,
                   senderVars, finalizerVars>>

\* Only the id of some channel post could be read: bind_discussion_by_message
BindByMessage(l, m) ==
    /\ m \in UNION {posts[k] : k \in Lots}
    /\ message[l] = m
    /\ discussion[l] = NoMsg
    /\ discussion' = [discussion EXCEPT ![l] = m]
    /\ UNCHANGED <<status, message, attempts, timeVars, worldVars,
                   senderVars, finalizerVars>>

\* Only the lot's number could be read: bind_discussion_by_auction
BindByAuction(l, m) ==
    /\ m \in posts[l]
    /\ discussion[l] = NoMsg
    /\ discussion' = [discussion EXCEPT ![l] = m]
    /\ UNCHANGED <<status, message, attempts, timeVars, worldVars,
                   senderVars, finalizerVars>>

-------------------------------------------------------------------------------
(* The operator's repair tool: actions of one verified manifest *)

RepairRequeue(l) ==
    /\ message[l] = NoMsg
    /\ status[l] \in Unsent
    /\ Spend
    /\ status' = [status EXCEPT ![l] = "scheduled"]
    /\ discussion' = [discussion EXCEPT ![l] = NoMsg]
    /\ attempts' = [attempts EXCEPT ![l] = 0]
    /\ retryDue' = [retryDue EXCEPT ![l] = TRUE]
    /\ unreviewed' = [unreviewed EXCEPT ![l] = FALSE]
    /\ UNCHANGED <<message, phase, leaseOld, posts, round, announced, nextMsg,
                   senderVars, finalizerVars>>

\* "confirm" and "normalize_published" keep a message id, "replace_published"
\* puts another of the lot's posts in the place of one the operator named.
RepairPublished(l, m, d) ==
    /\ status[l] \in Unsent \cup Published
    /\ m \in posts[l]
    /\ d \in {NoMsg, m}
    /\ d # NoMsg => discussion[l] \in {NoMsg, d}
    /\ Spend
    /\ BindRow(l, m, d)

-------------------------------------------------------------------------------
(* A finalizer: process_due of auction_finalization_loop *)

EndedLots == {l \in Lots : status[l] = "active" /\ phase[l] = Closed}

StaleFinalizations == {l \in Lots : status[l] = "finalizing" /\ leaseOld[l]}

\* Mutant of FailStaleClaims: an abandoned claim is opened for another one
ReopenStaleClaims(f) ==
    /\ fpc[f] = "idle"
    /\ status' = Put(status, StaleFinalizations, "active")
    /\ fpc' = [fpc EXCEPT ![f] = "claim"]
    /\ UNCHANGED <<message, discussion, attempts, timeVars, worldVars, senderVars,
                   fclaim, held>>

FailStaleClaims(f) ==
    /\ fpc[f] = "idle"
    /\ status' = Put(status, StaleFinalizations, "finalization_failed")
    /\ fpc' = [fpc EXCEPT ![f] = "claim"]
    /\ UNCHANGED <<message, discussion, attempts, timeVars, worldVars, senderVars,
                   fclaim, held>>

\* A claim is a lot in one of its rounds.
ClaimFinalization(f) ==
    /\ fpc[f] = "claim"
    /\ \E S \in SUBSET EndedLots :
          /\ S # {}
          /\ Cardinality(S) <= BatchLimit
          /\ status' = Put(status, S, "finalizing")
          /\ leaseOld' = Put(leaseOld, S, FALSE)
          /\ held' = [held EXCEPT ![f] = {<<l, round[l]>> : l \in S}]
    /\ fpc' = [fpc EXCEPT ![f] = "batch"]
    /\ UNCHANGED <<message, discussion, attempts, phase, retryDue, worldVars,
                   senderVars, fclaim>>

FinishSweep(f) ==
    /\ \/ fpc[f] = "claim" /\ EndedLots = {}
       \/ fpc[f] = "batch" /\ held[f] = {}
    /\ fpc' = [fpc EXCEPT ![f] = "idle"]
    /\ UNCHANGED <<rowVars, timeVars, worldVars, senderVars, fclaim, held>>

\* The announcer ran for the claim; whether it raised or not, the result may
\* already stand in the discussion.
Announce(f, c) ==
    /\ fpc[f] = "batch"
    /\ c \in held[f]
    /\ held' = [held EXCEPT ![f] = @ \ {c}]
    /\ fclaim' = [fclaim EXCEPT ![f] = c]
    /\ announced' = [announced EXCEPT ![c[1]] = @ \cup {c[2]}]
    /\ \E outcome \in {"finish", "fail"} : fpc' = [fpc EXCEPT ![f] = outcome]
    /\ UNCHANGED <<rowVars, timeVars, posts, unreviewed, round, nextMsg, decisions,
                   senderVars>>

\* get_bids raised before the announcer was called
ReadBidsFailed(f, c) ==
    /\ fpc[f] = "batch"
    /\ c \in held[f]
    /\ held' = [held EXCEPT ![f] = @ \ {c}]
    /\ fclaim' = [fclaim EXCEPT ![f] = c]
    /\ fpc' = [fpc EXCEPT ![f] = "fail"]
    /\ UNCHANGED <<rowVars, timeVars, worldVars, senderVars>>

\* mark_finished asks only whether the row is "finalizing", not whose claim it is
MarkFinished(f) ==
    LET l == fclaim[f][1] IN
    /\ fpc[f] = "finish"
    /\ IF status[l] = "finalizing"
       THEN /\ status' = [status EXCEPT ![l] = "finished"]
            /\ fpc' = [fpc EXCEPT ![f] = "batch"]
            /\ fclaim' = [fclaim EXCEPT ![f] = NoClaim]
       ELSE /\ fpc' = [fpc EXCEPT ![f] = "fail"]
            /\ UNCHANGED <<status, fclaim>>
    /\ UNCHANGED <<message, discussion, attempts, timeVars, worldVars, senderVars, held>>

\* mark_finished raised before it committed
MarkFinishedLost(f) ==
    /\ fpc[f] = "finish"
    /\ fpc' = [fpc EXCEPT ![f] = "fail"]
    /\ UNCHANGED <<rowVars, timeVars, worldVars, senderVars, fclaim, held>>

MarkFinalizationFailed(f) ==
    LET l == fclaim[f][1] IN
    /\ fpc[f] = "fail"
    /\ IF status[l] = "finalizing"
       THEN status' = [status EXCEPT ![l] = "finalization_failed"]
       ELSE UNCHANGED status
    /\ fpc' = [fpc EXCEPT ![f] = "batch"]
    /\ fclaim' = [fclaim EXCEPT ![f] = NoClaim]
    /\ UNCHANGED <<message, discussion, attempts, timeVars, worldVars, senderVars, held>>

\* The process dies, or mark_failed itself raises: the claims that are left are
\* forgotten by everyone but the row.
FinalizerCrash(f) ==
    /\ fpc[f] # "idle"
    /\ fpc' = [fpc EXCEPT ![f] = "idle"]
    /\ held' = [held EXCEPT ![f] = {}]
    /\ fclaim' = [fclaim EXCEPT ![f] = NoClaim]
    /\ UNCHANGED <<rowVars, timeVars, worldVars, senderVars>>

-------------------------------------------------------------------------------
(* The clock, where the code compares with it *)

TimePasses(l) ==
    /\ status[l] \in {"scheduled", "publishing", "active"}
    /\ phase[l] < Closed
    /\ phase' = [phase EXCEPT ![l] = @ + 1]
    /\ UNCHANGED <<rowVars, retryDue, leaseOld, worldVars, senderVars, finalizerVars>>

\* sixty seconds after a failed attempt
RetryElapses(l) ==
    /\ status[l] = "scheduled"
    /\ ~retryDue[l]
    /\ retryDue' = [retryDue EXCEPT ![l] = TRUE]
    /\ UNCHANGED <<rowVars, phase, leaseOld, worldVars, senderVars, finalizerVars>>

\* fifteen minutes after a claim
LeaseExpires(l) ==
    /\ status[l] \in {"publishing", "finalizing"}
    /\ ~leaseOld[l]
    /\ leaseOld' = [leaseOld EXCEPT ![l] = TRUE]
    /\ UNCHANGED <<rowVars, phase, retryDue, worldVars, senderVars, finalizerVars>>

-------------------------------------------------------------------------------
Init ==
    /\ status = [l \in Lots |-> "absent"]
    /\ message = [l \in Lots |-> NoMsg]
    /\ discussion = [l \in Lots |-> NoMsg]
    /\ attempts = [l \in Lots |-> 0]
    /\ phase = [l \in Lots |-> Early]
    /\ retryDue = [l \in Lots |-> TRUE]
    /\ leaseOld = [l \in Lots |-> FALSE]
    /\ posts = [l \in Lots |-> {}]
    /\ unreviewed = [l \in Lots |-> FALSE]
    /\ round = [l \in Lots |-> 0]
    /\ announced = [l \in Lots |-> {}]
    /\ nextMsg = 1
    /\ decisions = 0
    /\ spc = [w \in Senders |-> "idle"]
    /\ slot = [w \in Senders |-> NoLot]
    /\ smsg = [w \in Senders |-> NoMsg]
    /\ target = [w \in Senders |-> 1]
    /\ batch = [w \in Senders |-> {}]
    /\ fpc = [f \in Finalizers |-> "idle"]
    /\ fclaim = [f \in Finalizers |-> NoClaim]
    /\ held = [f \in Finalizers |-> {}]

Person(l) ==
    \/ CreatePending(l) \/ Schedule(l) \/ Reject(l)
    \/ CancelByOwner(l) \/ CancelByModerator(l)
    \/ RequeuePublication(l) \/ RescheduleUnpublished(l)
    \/ ReschedulePublished(l) \/ Restart(l) \/ FinishNow(l)
    \/ RepairRequeue(l)
    \/ \E m \in Msgs, d \in Msgs \cup {NoMsg} : RepairPublished(l, m, d)

Userbot(l) == \E m \in Msgs :
    ConfirmPublication(l, m) \/ BindByMessage(l, m) \/ BindByAuction(l, m)

LoopStep(w) ==
    \/ RecoverStale(w) \/ ClaimDue(w) \/ FinishIteration(w)
    \/ \E l \in Lots : StartSending(w, l)

Deliver(w) ==
    \/ SendDelivered(w) \/ SendDeferred(w) \/ SendRefused(w) \/ SendReplyLost(w)
    \/ MarkPublished(w) \/ MarkDeferred(w) \/ MarkPublicationFailed(w)
    \/ RecordLost(w)

Finalize(f) ==
    \/ FailStaleClaims(f) \/ ClaimFinalization(f) \/ FinishSweep(f)
    \/ \E c \in held[f] : Announce(f, c) \/ ReadBidsFailed(f, c)
    \/ MarkFinished(f) \/ MarkFinishedLost(f) \/ MarkFinalizationFailed(f)

Clock(l) == TimePasses(l) \/ RetryElapses(l) \/ LeaseExpires(l)

Next ==
    \/ \E l \in Lots : Person(l) \/ Userbot(l) \/ Clock(l)
    \/ \E S \in SUBSET Lots : ReleaseStale(S) \/ AutoFinish(S)
    \/ \E w \in Loops : LoopStep(w)
    \/ \E w \in Forcers, l \in Lots : ForceClaim(w, l) \/ ForceUnclaimed(w, l)
    \/ \E w \in Senders : Deliver(w) \/ SenderCrash(w)
    \/ \E f \in Finalizers : Finalize(f) \/ FinalizerCrash(f)

Spec == Init /\ [][Next]_vars

\* The supervisor restarts the loops and real time passes; people, crashes and
\* the forwarded post owe nothing.  A crash may come at any await, but not each
\* time between the two statements an iteration begins with, for ever.
Fairness ==
    /\ \A l \in Lots : WF_vars(TimePasses(l)) /\ WF_vars(RetryElapses(l))
                       /\ WF_vars(LeaseExpires(l))
    /\ \A w \in Loops : WF_vars(LoopStep(w) \/ Deliver(w)) /\ SF_vars(ClaimDue(w))
    /\ \A f \in Finalizers : WF_vars(Finalize(f)) /\ SF_vars(ClaimFinalization(f))

FairSpec == Spec /\ Fairness

-------------------------------------------------------------------------------
(* Properties *)

Claims == Lots \X Nat

RowTypes ==
    /\ status \in [Lots -> Statuses]
    /\ message \in [Lots -> Msgs \cup {NoMsg}]
    /\ discussion \in [Lots -> Msgs \cup {NoMsg}]
    /\ attempts \in [Lots -> Nat]

TimeTypes ==
    /\ phase \in [Lots -> Phases]
    /\ retryDue \in [Lots -> BOOLEAN]
    /\ leaseOld \in [Lots -> BOOLEAN]

WorldTypes ==
    /\ posts \in [Lots -> SUBSET Msgs]
    /\ unreviewed \in [Lots -> BOOLEAN]
    /\ round \in [Lots -> Nat]
    /\ announced \in [Lots -> SUBSET Nat]
    /\ nextMsg \in 1..(MaxPosts + 1)
    /\ decisions \in 0..MaxDecisions

SenderTypes ==
    /\ spc \in [Senders -> {"idle", "claim", "batch", "send", "sent", "deferred", "failed"}]
    /\ slot \in [Senders -> Lots \cup {NoLot}]
    /\ smsg \in [Senders -> Msgs \cup {NoMsg}]
    /\ target \in [Senders -> 1..Targets]
    /\ batch \in [Senders -> SUBSET Lots]

FinalizerTypes ==
    /\ fpc \in [Finalizers -> {"idle", "claim", "batch", "finish", "fail"}]
    /\ fclaim \in [Finalizers -> Claims \cup {NoClaim}]
    /\ held \in [Finalizers -> SUBSET Claims]

\* Types of all variables.
TypeOK == RowTypes /\ TimeTypes /\ WorldTypes /\ SenderTypes /\ FinalizerTypes

\* A lot that is open, being finalized or finished points at a channel post, and
\* one that can still be sent points at none: whatever order publishers, the
\* userbot and operators work in, no path opens a lot without its post or sends a
\* lot that has one (migration 019 checks the second half for three statuses).
PublishedIffBound ==
    \A l \in Lots : /\ status[l] \in Published => message[l] # NoMsg
                    /\ status[l] \in Unsent => message[l] = NoMsg

\* The ids a row holds are ids of posts made for that very lot, although they
\* travel through a coroutine that may finish long after its claim was taken
\* away and given to another.
BoundToOwnPost ==
    \A l \in Lots : {message[l], discussion[l]} \subseteq posts[l] \cup {NoMsg}

\* A lot in the queue has an attempt left and no lot gets more than the limit,
\* with late failures of lost claims counted against whoever holds the lot now.
AttemptBudget ==
    \A l \in Lots : /\ attempts[l] <= MaxAttempts
                    /\ status[l] = "scheduled" => attempts[l] < MaxAttempts

\* The result of a round is announced by at most one run of the announcer, with
\* any number of bot instances, crashes and expired leases: a claim that is still
\* to be announced is held by one loop only and its round was never announced
\* (auctions.py:20-21, 50-52).
OneAnnouncementPerRound ==
    \A f \in Finalizers : \A c \in held[f] :
        /\ c[2] \notin announced[c[1]]
        /\ \A g \in Finalizers \ {f} : c \notin held[g]

\* A message id, once recorded, is replaced only by an operator's decision.
MessageStable ==
    [][\A l \in Lots : message[l] \notin {NoMsg, message'[l]} => decisions' > decisions]_vars

\* No lot waits in the queue of the publishers while a post of it exists that no
\* operator has decided about: nothing is sent twice by the bots themselves.
NoBlindRetry ==
    \A l \in Lots : status[l] = "scheduled" => ~unreviewed[l]

Sending(w, l) == spc[w] \in {"send", "sent", "deferred", "failed"} /\ slot[w] = l

\* Two bot instances never work on the publication of one lot at the same time
\* (REFACTORING_PHASE_4.md:69).
OneSenderPerLot ==
    \A l \in Lots : \A v, w \in Senders : Sending(v, l) /\ Sending(w, l) => v = w

\* The bots alone, without an operator, never leave two posts of a lot in the channel.
OnePostPerLot ==
    \A l \in Lots : Cardinality(posts[l]) <= 1

\* What the row says of the publication.  A failed one is unknown: the row does not keep
\* apart a refusal by Telegram, a lease that ran out, and an id that never came.
Verdict(l) ==
    CASE message[l] # NoMsg -> "sent"
      [] message[l] = NoMsg /\ attempts[l] = 0 -> "none"
      [] OTHER -> IF status[l] \in {"scheduled", "publishing"} THEN "open" ELSE "unknown"

\* The bots alone keep the promise of the outbox: a lot is claimed, posted and recorded at
\* most once, in this order, a post is made only while the row does not say it exists, and
\* a lot that was given up is never sent again, although its post may still be recorded.
verdicts == [l \in Lots |-> Verdict(l)]
accepted == [l \in Lots |-> Cardinality(posts[l])]
Promise == INSTANCE AtMostOnceDelivery WITH Commands <- Lots, verdict <- verdicts
PublicationKeepsPromise == Promise!Spec

\* The lot as SlotScheduling sees it: an application is pending until it is approved
\* or gone.
Slots == INSTANCE LotStatuses

CalendarStatus(l) ==
    CASE status[l] \in Moderatable \cup {"absent", "draft"} -> "pending"
      [] status[l] = "rejected" -> "cancelled"
      [] OTHER -> status[l]

Moves(l, from, to) == CalendarStatus(l) \in from /\ CalendarStatus(l)' = to

\* The schedule knows all that happens to its lots: publishers, finalizers, the userbot,
\* menus and the repair tool change a status only along After, and an approval or a move
\* does what SlotScheduling reads off the status alone, the post or its absence included.
KnownToSchedule ==
    [][\A l \in Lots :
          /\ \/ Schedule(l)
             \/ CalendarStatus(l)' \in {CalendarStatus(l)} \cup Slots!After[CalendarStatus(l)]
          /\ Schedule(l) => Moves(l, {"pending"}, "scheduled")
          /\ RescheduleUnpublished(l) => Moves(l, Slots!Unpublished, "scheduled")
          /\ ReschedulePublished(l) => Moves(l, Slots!Published, "active")]_vars

\* An open lot whose time has run out goes through the claim of the finalizer,
\* the only production path (2026-07-30-server-readiness.md:414-417): nothing but
\* an administrator's stop finishes it directly.
SingleFinalizationPath ==
    [][\A l \in Lots : status[l] = "active" /\ status'[l] = "finished" => FinishNow(l)]_vars

\* A lot in the queue is sent, handed to a human or withdrawn in the end, crashes
\* of the publisher notwithstanding.
PublicationSettles ==
    \A l \in Lots : status[l] \in {"scheduled", "publishing"}
                    ~> status[l] \notin {"scheduled", "publishing"}

\* A lot that is open, or whose result is being announced, is closed in the end.
FinalizationSettles ==
    \A l \in Lots : status[l] \in {"active", "finalizing"}
                    ~> status[l] \notin {"active", "finalizing"}

===============================================================================
