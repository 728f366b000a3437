---------------------------- MODULE TelegramOutbox ----------------------------
(***************************************************************************)
(* The transactional outbox: the rows of public.telegram_outbox, the       *)
(* notified_* flags that are claimed together with them, the outbox loops  *)
(* of the running bot processes and the administrators who review what     *)
(* failed.                                                                 *)
(*                                                                         *)
(* Every statement or transaction is one action.  A claimed row is         *)
(* delivered by a coroutine of its own (a worker of deliver_outbox_batch), *)
(* so the deliveries of a batch interleave with each other, with the other *)
(* process and with the review.                                            *)
(***************************************************************************)
EXTENDS Naturals, FiniteSets

CONSTANTS
    Events,       \* (auction, event) pairs: each has a notified_* flag
    Scopes,       \* dedupe scopes without a flag: the daily list, a broadcast, a refresh
    Chats,
    Instances,    \* running bot processes
    BatchLimit,   \* LIMIT of claim_batch
    Concurrency,  \* workers of one batch
    MaxAttempts,  \* max_attempts of a row
    MaxResets,    \* bound: how often lots are reopened and their flags reset
    MaxReviews    \* bound: rows an administrator puts back into the queue

ASSUME LimitsAssumption ==
    /\ BatchLimit \in Nat \ {0}
    /\ Concurrency \in Nat \ {0}
    /\ MaxAttempts \in Nat \ {0}
    /\ MaxResets \in Nat
    /\ MaxReviews \in Nat

\* A row is identified by its dedupe key "topic:scope:chat".
Rows == (Events \cup Scopes) \X Chats

VARIABLES
    notified,                             \* the flags
    status, delivery, attempts, due, leaseOld,   \* the rows
    accepted,                             \* times Telegram accepted the command
    lpc, batch, job,        \* an outbox loop, what gather() waits for, the deliveries
    resets, reviews

rowVars == <<status, delivery, attempts, due, leaseOld>>
loopVars == <<lpc, batch, job>>
boundVars == <<resets, reviews>>
vars == <<notified, rowVars, accepted, loopVars, boundVars>>

Statuses == {"absent", "pending", "processing", "sent", "failed"}
DeliveryStates == {"not_attempted", "confirmed_sent", "confirmed_not_sent", "unknown"}

\* "waiting": claimed, not begun; "sending": the request may be on its way; then
\* what the reply was: "sent", "retry" (flood control), "rejected", "doubt".
Jobs == {"none", "waiting", "sending", "sent", "retry", "rejected", "doubt"}

Put(f, S, v) == [x \in DOMAIN f |-> IF x \in S THEN v ELSE f[x]]

Active(i) == {r \in Rows : job[i][r] \notin {"none", "waiting"}}

-------------------------------------------------------------------------------
(* Putting commands into the outbox *)

\* INSERT ... ON CONFLICT (dedupe_key) DO NOTHING
Insert(S) ==
    LET new == {r \in S : status[r] = "absent"} IN
    /\ status' = Put(status, new, "pending")
    /\ UNCHANGED <<delivery, attempts, due, leaseOld>>

\* The flag, or the marker of a card's day, and the rows in one transaction
EnqueueNotification(e, R) ==
    /\ ~notified[e]
    /\ notified' = [notified EXCEPT ![e] = TRUE]
    /\ Insert({e} \X R)
    /\ UNCHANGED <<accepted, loopVars, boundVars>>

EnqueueMessages(s, R) ==
    /\ Insert({s} \X R)
    /\ UNCHANGED <<notified, accepted, loopVars, boundVars>>

\* reschedule, restart and the repair tool clear flags of a lot that runs again.
ResetFlag(e) ==
    /\ notified[e]
    /\ resets < MaxResets
    /\ resets' = resets + 1
    /\ notified' = [notified EXCEPT ![e] = FALSE]
    /\ UNCHANGED <<rowVars, accepted, loopVars, reviews>>

-------------------------------------------------------------------------------
(* An outbox loop: telegram_outbox_loop and deliver_outbox_batch *)

Claimable == {r \in Rows : status[r] = "pending" /\ due[r] /\ attempts[r] < MaxAttempts}

\* Mutant of StaleClaims: leases never run out
NoStaleClaims == {}

StaleClaims == {r \in Rows : status[r] = "processing" /\ leaseOld[r]}

\* Mutant of FailStale: an expired lease is given to the next worker
RequeueStale(i) ==
    /\ lpc[i] = "idle"
    /\ status' = Put(status, StaleClaims, "pending")
    /\ lpc' = [lpc EXCEPT ![i] = "claim"]
    /\ UNCHANGED <<notified, delivery, attempts, due, leaseOld, accepted, batch, job, boundVars>>

FailStale(i) ==
    /\ lpc[i] = "idle"
    /\ status' = Put(status, StaleClaims, "failed")
    /\ delivery' = Put(delivery, StaleClaims, "unknown")
    /\ lpc' = [lpc EXCEPT ![i] = "claim"]
    /\ UNCHANGED <<notified, attempts, due, leaseOld, accepted, batch, job, boundVars>>

\* claim_batch: SKIP LOCKED may leave out any row another session has locked
ClaimBatch(i) ==
    /\ lpc[i] = "claim"
    /\ \E S \in SUBSET Claimable :
          /\ S # {}
          /\ Cardinality(S) <= BatchLimit
          /\ status' = Put(status, S, "processing")
          /\ attempts' = [r \in Rows |-> IF r \in S THEN attempts[r] + 1 ELSE attempts[r]]
          /\ leaseOld' = Put(leaseOld, S, FALSE)
          /\ batch' = [batch EXCEPT ![i] = S]
          /\ job' = [job EXCEPT ![i] = Put(@, S, "waiting")]
    /\ lpc' = [lpc EXCEPT ![i] = "gather"]
    /\ UNCHANGED <<notified, delivery, due, accepted, boundVars>>

\* Nothing was claimed (no row is due, or other sessions hold the locks), or every
\* delivery of the batch returned.
EndIteration(i) ==
    /\ \/ lpc[i] = "claim"
       \/ lpc[i] = "gather" /\ batch[i] = {}
    /\ lpc' = [lpc EXCEPT ![i] = "idle"]
    /\ UNCHANGED <<notified, rowVars, accepted, batch, job, boundVars>>

Progress(i, r, from, to) ==
    /\ job[i][r] = from
    /\ job' = [job EXCEPT ![i][r] = to]
    /\ UNCHANGED <<notified, rowVars, lpc, batch, boundVars>>

\* A free worker takes the next item.  A batch has workers of its own: those of an
\* abandoned batch do not count.
StartDelivery(i, r) ==
    /\ Cardinality({q \in Active(i) : q \in batch[i] <=> r \in batch[i]}) < Concurrency
    /\ Progress(i, r, "waiting", "sending")
    /\ UNCHANGED accepted

Accepted(r) == accepted' = [accepted EXCEPT ![r] = @ + 1]

ReplyOk(i, r) == Progress(i, r, "sending", "sent") /\ Accepted(r)

\* TelegramRetryAfter
ReplyRetryAfter(i, r) == Progress(i, r, "sending", "retry") /\ UNCHANGED accepted

\* TelegramForbiddenError, TelegramBadRequest, and commands that cannot be decoded
ReplyRejected(i, r) == Progress(i, r, "sending", "rejected") /\ UNCHANGED accepted

\* Any other exception: the request was accepted, or not.
ReplyLost(i, r) ==
    /\ Progress(i, r, "sending", "doubt")
    /\ Accepted(r) \/ UNCHANGED accepted

-------------------------------------------------------------------------------
(* Recording the outcome: each UPDATE asks whether the row is "processing" *)

Record(i, r, from, s, d) ==
    /\ job[i][r] = from
    /\ IF status[r] = "processing"
       THEN /\ status' = [status EXCEPT ![r] = s]
            /\ delivery' = [delivery EXCEPT ![r] = d]
            /\ leaseOld' = [leaseOld EXCEPT ![r] = FALSE]
       ELSE UNCHANGED <<status, delivery, leaseOld>>
    /\ job' = [job EXCEPT ![i][r] = "none"]
    /\ batch' = [batch EXCEPT ![i] = @ \ {r}]
    /\ UNCHANGED <<notified, attempts, accepted, lpc, boundVars>>

MarkSent(i, r) == Record(i, r, "sent", "sent", "confirmed_sent") /\ UNCHANGED due

\* Mutant of RetryAfter: the queue takes the row back whatever its attempts
RetryForever(i, r) ==
    /\ Record(i, r, "retry", "pending", "not_attempted")
    /\ due' = [due EXCEPT ![r] = IF status[r] = "processing" THEN FALSE ELSE @]

RetryAfter(i, r) ==
    /\ IF attempts[r] < MaxAttempts
       THEN Record(i, r, "retry", "pending", "not_attempted")
       ELSE Record(i, r, "retry", "failed", "confirmed_not_sent")
    /\ due' = [due EXCEPT ![r] = IF status[r] = "processing" THEN FALSE ELSE @]

MarkRejected(i, r) ==
    Record(i, r, "rejected", "failed", "confirmed_not_sent") /\ UNCHANGED due

\* Mutant of MarkUnknown: a lost reply counts as a refusal
MarkDoubtRejected(i, r) ==
    Record(i, r, "doubt", "failed", "confirmed_not_sent") /\ UNCHANGED due

MarkUnknown(i, r) == Record(i, r, "doubt", "failed", "unknown") /\ UNCHANGED due

\* The UPDATE raises: the worker ends and gather() gives up on the batch; the other
\* workers go on by themselves, unless there is none left.
RecordRaised(i, r) ==
    /\ job[i][r] \in {"sent", "retry", "rejected", "doubt"}
    /\ \E dropped \in {{}, {q \in Rows : job[i][q] = "waiting"}} :
          job' = [job EXCEPT ![i] = Put(@, dropped \cup {r}, "none")]
    /\ lpc' = [lpc EXCEPT ![i] = "idle"]
    /\ batch' = [batch EXCEPT ![i] = {}]
    /\ UNCHANGED <<notified, rowVars, accepted, boundVars>>

\* The process is stopped or dies.
Crash(i) ==
    /\ lpc[i] # "idle" \/ \E r \in Rows : job[i][r] # "none"
    /\ lpc' = [lpc EXCEPT ![i] = "idle"]
    /\ batch' = [batch EXCEPT ![i] = {}]
    /\ job' = [job EXCEPT ![i] = [r \in Rows |-> "none"]]
    /\ UNCHANGED <<notified, rowVars, accepted, boundVars>>

-------------------------------------------------------------------------------
(* Review of failed rows by an administrator *)

\* Mutant of RequeueConfirmedNotSent: whatever failed may be sent again
RequeueFailed(r) ==
    /\ status[r] = "failed"
    /\ reviews < MaxReviews
    /\ reviews' = reviews + 1
    /\ status' = [status EXCEPT ![r] = "pending"]
    /\ delivery' = [delivery EXCEPT ![r] = "not_attempted"]
    /\ attempts' = [attempts EXCEPT ![r] = 0]
    /\ due' = [due EXCEPT ![r] = TRUE]
    /\ UNCHANGED <<notified, leaseOld, accepted, loopVars, resets>>

RequeueConfirmedNotSent(r) ==
    /\ status[r] = "failed"
    /\ delivery[r] = "confirmed_not_sent"
    /\ reviews < MaxReviews
    /\ reviews' = reviews + 1
    /\ status' = [status EXCEPT ![r] = "pending"]
    /\ delivery' = [delivery EXCEPT ![r] = "not_attempted"]
    /\ attempts' = [attempts EXCEPT ![r] = 0]
    /\ due' = [due EXCEPT ![r] = TRUE]
    /\ UNCHANGED <<notified, leaseOld, accepted, loopVars, resets>>

\* An administrator confirms a message that can be seen in the chat.
ConfirmDelivered(r) ==
    /\ status[r] = "failed"
    /\ delivery[r] = "unknown"
    /\ accepted[r] > 0
    /\ status' = [status EXCEPT ![r] = "sent"]
    /\ delivery' = [delivery EXCEPT ![r] = "confirmed_sent"]
    /\ UNCHANGED <<notified, attempts, due, leaseOld, accepted, loopVars, boundVars>>

-------------------------------------------------------------------------------
(* The clock *)

\* available_at has come
RetryElapses(r) ==
    /\ status[r] = "pending"
    /\ ~due[r]
    /\ due' = [due EXCEPT ![r] = TRUE]
    /\ UNCHANGED <<notified, status, delivery, attempts, leaseOld, accepted, loopVars, boundVars>>

\* locked_at is fifteen minutes ago
LeaseExpires(r) ==
    /\ status[r] = "processing"
    /\ ~leaseOld[r]
    /\ leaseOld' = [leaseOld EXCEPT ![r] = TRUE]
    /\ UNCHANGED <<notified, status, delivery, attempts, due, accepted, loopVars, boundVars>>

-------------------------------------------------------------------------------
Init ==
    /\ notified = [e \in Events |-> FALSE]
    /\ status = [r \in Rows |-> "absent"]
    /\ delivery = [r \in Rows |-> "not_attempted"]
    /\ attempts = [r \in Rows |-> 0]
    /\ due = [r \in Rows |-> TRUE]
    /\ leaseOld = [r \in Rows |-> FALSE]
    /\ accepted = [r \in Rows |-> 0]
    /\ lpc = [i \in Instances |-> "idle"]
    /\ batch = [i \in Instances |-> {}]
    /\ job = [i \in Instances |-> [r \in Rows |-> "none"]]
    /\ resets = 0
    /\ reviews = 0

Producer ==
    \/ \E e \in Events, R \in SUBSET Chats : EnqueueNotification(e, R)
    \/ \E s \in Scopes, R \in SUBSET Chats : EnqueueMessages(s, R)
    \/ \E e \in Events : ResetFlag(e)

Loop(i) == FailStale(i) \/ ClaimBatch(i) \/ EndIteration(i)

Deliver(i, r) ==
    \/ StartDelivery(i, r)
    \/ ReplyOk(i, r) \/ ReplyRetryAfter(i, r) \/ ReplyRejected(i, r) \/ ReplyLost(i, r)
    \/ MarkSent(i, r) \/ RetryAfter(i, r) \/ MarkRejected(i, r) \/ MarkUnknown(i, r)

Review(r) == RequeueConfirmedNotSent(r) \/ ConfirmDelivered(r)

Clock(r) == RetryElapses(r) \/ LeaseExpires(r)

Next ==
    \/ Producer
    \/ \E i \in Instances : Loop(i) \/ Crash(i)
    \/ \E i \in Instances, r \in Rows : Deliver(i, r) \/ RecordRaised(i, r)
    \/ \E r \in Rows : Review(r) \/ Clock(r)

Spec == Init /\ [][Next]_vars

\* The supervisor restarts a loop that ended, Telegram answers or the call times
\* out, time passes.  A process may crash again and again, but not for ever before
\* its first claim.
Fairness ==
    /\ \A r \in Rows : WF_vars(RetryElapses(r)) /\ WF_vars(LeaseExpires(r))
    /\ \A i \in Instances : WF_vars(Loop(i)) /\ SF_vars(ClaimBatch(i))
    /\ \A i \in Instances, r \in Rows : WF_vars(Deliver(i, r))

FairSpec == Spec /\ Fairness

-------------------------------------------------------------------------------
(* Properties *)

TypeOK ==
    /\ notified \in [Events -> BOOLEAN]
    /\ status \in [Rows -> Statuses]
    /\ delivery \in [Rows -> DeliveryStates]
    /\ attempts \in [Rows -> Nat]
    /\ due \in [Rows -> BOOLEAN]
    /\ leaseOld \in [Rows -> BOOLEAN]
    /\ accepted \in [Rows -> Nat]
    /\ lpc \in [Instances -> {"idle", "claim", "gather"}]
    /\ batch \in [Instances -> SUBSET Rows]
    /\ job \in [Instances -> [Rows -> Jobs]]
    /\ resets \in 0..MaxResets
    /\ reviews \in 0..MaxReviews

\* Telegram accepts no command twice, with lost replies, expired leases, deliveries
\* that outlive their lease or their batch, and reviews (outbox.py of the
\* repositories: "Replay only when Telegram definitely rejected the original").
AcceptedOnce == \A r \in Rows : accepted[r] <= 1

\* What the row says of its delivery is what happened, and a row that can be
\* claimed was never accepted.
HonestVerdict ==
    \A r \in Rows :
        /\ status[r] = "sent" => delivery[r] = "confirmed_sent" /\ accepted[r] > 0
        /\ delivery[r] = "confirmed_not_sent" => status[r] = "failed" /\ accepted[r] = 0
        /\ delivery[r] = "unknown" => status[r] = "failed"
        /\ status[r] = "pending" => accepted[r] = 0

\* No row waits in the queue with its attempts used up: claim_batch would pass it
\* by for ever and no lease or review would ever show it.
NoneStranded == \A r \in Rows : status[r] = "pending" => attempts[r] < MaxAttempts

\* At most one delivery of a row is under way, its lease notwithstanding.
OneDelivery ==
    \A r \in Rows : \A i, j \in Instances :
        job[i][r] # "none" /\ job[j][r] # "none" => i = j

\* The outbox is an at-most-once delivery of its rows.
verdict == [r \in Rows |->
    CASE status[r] = "absent" -> "none"
      [] status[r] \in {"pending", "processing"} -> "open"
      [] status[r] = "sent" -> "sent"
      [] OTHER -> IF delivery[r] = "unknown" THEN "unknown" ELSE "notsent"]

Promise == INSTANCE AtMostOnceDelivery
           WITH Commands <- Rows, verdict <- verdict, accepted <- accepted
ImplementsPromise == Promise!Spec

\* Every command is sent or handed to an administrator in the end, unless it is
\* put back into the queue by one.
EveryCommandSettles ==
    \A r \in Rows : status[r] \in {"pending", "processing"} ~> status[r] \in {"sent", "failed"}

===============================================================================
