------------------------- MODULE TelegramOutboxProofs -------------------------
(* Theorems about TelegramOutbox, for every number of events, chats, bot      *)
(* processes, attempts, batches and reviews.                                  *)
EXTENDS TelegramOutbox, TLAPS

-------------------------------------------------------------------------------
(* Types *)

LEMMA InitTypes == Init => TypeOK
  <1>1. Init => status \in [Rows -> Statuses] /\ delivery \in [Rows -> DeliveryStates]
    BY DEF Init, Statuses, DeliveryStates
  <1>2. Init => job \in [Instances -> [Rows -> Jobs]]
    BY DEF Init, Jobs
  <1>3. Init => resets \in 0..MaxResets /\ reviews \in 0..MaxReviews
    BY LimitsAssumption DEF LimitsAssumption, Init
  <1> QED
    BY <1>1, <1>2, <1>3 DEF Init, TypeOK

\* The producers, the reviews and the clock write rows and flags; no loop moves.
LEMMA RowStepTypes ==
  ASSUME TypeOK, Producer \/ \E r \in Rows : Review(r) \/ Clock(r)
  PROVE  TypeOK'
  <1> USE LimitsAssumption
          DEF LimitsAssumption, TypeOK, rowVars, loopVars, boundVars, Statuses, DeliveryStates
  <1>1. ASSUME NEW e \in Events, NEW R \in SUBSET Chats, EnqueueNotification(e, R)
        PROVE  TypeOK'
    BY <1>1 DEF EnqueueNotification, Insert, Put
  <1>2. ASSUME NEW s \in Scopes, NEW R \in SUBSET Chats, EnqueueMessages(s, R)
        PROVE  TypeOK'
    BY <1>2 DEF EnqueueMessages, Insert, Put
  <1>3. ASSUME NEW e \in Events, ResetFlag(e)
        PROVE  TypeOK'
    BY <1>3 DEF ResetFlag
  <1>4. ASSUME NEW r \in Rows, RequeueConfirmedNotSent(r)
        PROVE  TypeOK'
    BY <1>4 DEF RequeueConfirmedNotSent
  <1>5. ASSUME NEW r \in Rows, ConfirmDelivered(r)
        PROVE  TypeOK'
    BY <1>5 DEF ConfirmDelivered
  <1>6. ASSUME NEW r \in Rows, RetryElapses(r)
        PROVE  TypeOK'
    BY <1>6 DEF RetryElapses
  <1>7. ASSUME NEW r \in Rows, LeaseExpires(r)
        PROVE  TypeOK'
    BY <1>7 DEF LeaseExpires
  <1> QED
    BY <1>1, <1>2, <1>3, <1>4, <1>5, <1>6, <1>7 DEF Producer, Review, Clock

LEMMA LoopTypes ==
  ASSUME TypeOK, NEW i \in Instances, Loop(i) \/ Crash(i)
  PROVE  TypeOK'
  <1> USE DEF TypeOK, rowVars, boundVars
  <1>1. CASE FailStale(i)
    BY <1>1 DEF FailStale, Put, Statuses, DeliveryStates
  <1>2. ASSUME NEW S \in SUBSET Claimable,
               status' = Put(status, S, "processing"),
               attempts' = [r \in Rows |-> IF r \in S THEN attempts[r] + 1 ELSE attempts[r]],
               leaseOld' = Put(leaseOld, S, FALSE),
               batch' = [batch EXCEPT ![i] = S],
               job' = [job EXCEPT ![i] = Put(@, S, "waiting")],
               lpc' = [lpc EXCEPT ![i] = "gather"],
               UNCHANGED <<notified, delivery, due, accepted, boundVars>>
        PROVE  TypeOK'
    <2>1. status' \in [Rows -> Statuses]
      BY <1>2 DEF Put, Statuses
    <2>5. attempts' \in [Rows -> Nat]
      BY <1>2
    <2>6. leaseOld' \in [Rows -> BOOLEAN]
      BY <1>2 DEF Put
    <2>2. batch' \in [Instances -> SUBSET Rows]
      BY <1>2 DEF Claimable
    <2>3. Put(job[i], S, "waiting") \in [Rows -> Jobs]
      BY DEF Put, Jobs
    <2>4. job' \in [Instances -> [Rows -> Jobs]]
      BY <1>2, <2>3
    <2> QED
      BY <1>2, <2>1, <2>2, <2>4, <2>5, <2>6
  <1>3. CASE EndIteration(i)
    BY <1>3 DEF EndIteration
  <1>4. CASE Crash(i)
    BY <1>4 DEF Crash, Jobs
  <1> QED
    BY <1>1, <1>2, <1>3, <1>4 DEF Loop, ClaimBatch

LEMMA DeliveryTypes ==
  ASSUME TypeOK, NEW i \in Instances, NEW r \in Rows, Deliver(i, r) \/ RecordRaised(i, r)
  PROVE  TypeOK'
  <1> USE DEF TypeOK, rowVars, boundVars
  <1>1. ASSUME NEW from, NEW to \in Jobs, Progress(i, r, from, to),
               Accepted(r) \/ UNCHANGED accepted
        PROVE  TypeOK'
    BY <1>1 DEF Progress, Accepted
  <1>2. ASSUME NEW from, NEW s \in Statuses, NEW d \in DeliveryStates, Record(i, r, from, s, d),
               due' \in [Rows -> BOOLEAN]
        PROVE  TypeOK'
    <2>1. status' \in [Rows -> Statuses] /\ delivery' \in [Rows -> DeliveryStates]
      <3>1. status' = status \/ status' = [status EXCEPT ![r] = s]
        BY <1>2 DEF Record
      <3>2. delivery' = delivery \/ delivery' = [delivery EXCEPT ![r] = d]
        BY <1>2 DEF Record
      <3> QED
        BY <1>2, <3>1, <3>2
    <2>2. leaseOld' \in [Rows -> BOOLEAN]
      <3>1. leaseOld' = leaseOld \/ leaseOld' = [leaseOld EXCEPT ![r] = FALSE]
        BY <1>2 DEF Record
      <3> QED
        BY <3>1
    <2>3. job' \in [Instances -> [Rows -> Jobs]] /\ batch' \in [Instances -> SUBSET Rows]
      BY <1>2 DEF Record, Jobs
    <2> QED
      BY <1>2, <2>1, <2>2, <2>3 DEF Record
  <1>3. CASE RecordRaised(i, r)
    <2>1. PICK D : job' = [job EXCEPT ![i] = Put(@, D, "none")]
      BY <1>3 DEF RecordRaised
    <2>2. Put(job[i], D, "none") \in [Rows -> Jobs]
      BY DEF Put, Jobs
    <2>3. job' \in [Instances -> [Rows -> Jobs]]
      BY <2>1, <2>2
    <2> QED
      BY <1>3, <2>3 DEF RecordRaised
  <1>4. CASE StartDelivery(i, r) \/ ReplyOk(i, r) \/ ReplyRetryAfter(i, r)
             \/ ReplyRejected(i, r) \/ ReplyLost(i, r)
    BY <1>1, <1>4
       DEF StartDelivery, ReplyOk, ReplyRetryAfter, ReplyRejected, ReplyLost, Jobs
  <1>5. CASE RetryAfter(i, r)
    <2>1. due' \in [Rows -> BOOLEAN]
      BY <1>5 DEF RetryAfter
    <2> QED
      BY <1>2, <1>5, <2>1 DEF RetryAfter, Statuses, DeliveryStates
  <1>6. CASE MarkSent(i, r) \/ MarkRejected(i, r) \/ MarkUnknown(i, r)
    <2>1. due' \in [Rows -> BOOLEAN]
      BY <1>6 DEF MarkSent, MarkRejected, MarkUnknown
    <2> QED
      BY <1>2, <1>6, <2>1 DEF MarkSent, MarkRejected, MarkUnknown, Statuses, DeliveryStates
  <1> QED
    BY <1>3, <1>4, <1>5, <1>6 DEF Deliver

LEMMA StutterTypes == TypeOK /\ UNCHANGED vars => TypeOK'
  BY DEF TypeOK, vars, rowVars, loopVars, boundVars

LEMMA NextTypes == TypeOK /\ [Next]_vars => TypeOK'
  BY RowStepTypes, LoopTypes, DeliveryTypes, StutterTypes DEF Next

\* Every reachable state is well typed: the rows satisfy the CHECKs of
\* public.telegram_outbox.
THEOREM TypesHold == Spec => []TypeOK
  BY InitTypes, NextTypes, PTL DEF Spec

-------------------------------------------------------------------------------
(* The inductive invariant *)

\* A row by itself: what it says of its delivery.
RowOK(r) ==
    /\ accepted[r] <= 1
    /\ status[r] \in {"absent", "pending"} => accepted[r] = 0
    /\ status[r] \in {"absent", "pending", "processing"} => delivery[r] = "not_attempted"
    /\ status[r] = "absent" => attempts[r] = 0
    /\ status[r] = "pending" => attempts[r] < MaxAttempts
    /\ status[r] = "sent" => delivery[r] = "confirmed_sent" /\ accepted[r] = 1
    /\ status[r] = "failed" =>
          delivery[r] = "unknown" \/ (delivery[r] = "confirmed_not_sent" /\ accepted[r] = 0)

\* A delivery under way: its row can neither be claimed nor be requeued, and the
\* command was accepted exactly when the delivery knows or doubts it.
JobOK(i, r) ==
    job[i][r] # "none" =>
        /\ status[r] \in {"processing", "sent", "failed"}
        /\ status[r] = "failed" => delivery[r] = "unknown"
        /\ job[i][r] \in {"waiting", "sending", "retry", "rejected"} => accepted[r] = 0
        /\ job[i][r] = "sent" => accepted[r] = 1

OutboxInv ==
    /\ TypeOK
    /\ \A r \in Rows : RowOK(r)
    /\ \A i \in Instances, r \in Rows : JobOK(i, r)
    /\ OneDelivery

LEMMA InitInv == Init => OutboxInv
  <1> SUFFICES ASSUME Init PROVE OutboxInv
    OBVIOUS
  <1>1. \A r \in Rows : RowOK(r)
    BY LimitsAssumption DEF LimitsAssumption, Init, RowOK
  <1>2. (\A i \in Instances, r \in Rows : JobOK(i, r)) /\ OneDelivery
    BY DEF Init, JobOK, OneDelivery
  <1> QED
    BY <1>1, <1>2, InitTypes DEF OutboxInv

LEMMA RowStepInv ==
  ASSUME OutboxInv, Producer \/ \E r \in Rows : Review(r) \/ Clock(r)
  PROVE  OutboxInv'
  <1> USE DEF OutboxInv
  <1>t. TypeOK'
    BY RowStepTypes
  <1>o. UNCHANGED job
    BY DEF Producer, EnqueueNotification, EnqueueMessages, ResetFlag, Review,
           RequeueConfirmedNotSent, ConfirmDelivered, Clock, RetryElapses, LeaseExpires, loopVars
  <1>u. OneDelivery'
    BY <1>o DEF OneDelivery
  <1> SUFFICES ASSUME NEW q \in Rows
               PROVE  RowOK(q)' /\ \A k \in Instances : JobOK(k, q)'
    BY <1>t, <1>u
  <1>q. RowOK(q) /\ \A k \in Instances : JobOK(k, q)
    OBVIOUS
  <1> USE <1>q, LimitsAssumption
          DEF LimitsAssumption, RowOK, JobOK, TypeOK, rowVars, loopVars, boundVars
  <1>1. ASSUME NEW S, Insert(S), UNCHANGED <<accepted, job>>
        PROVE  RowOK(q)' /\ \A k \in Instances : JobOK(k, q)'
    BY <1>1 DEF Insert, Put
  <1>2. ASSUME NEW e \in Events, ResetFlag(e)
        PROVE  RowOK(q)' /\ \A k \in Instances : JobOK(k, q)'
    BY <1>2 DEF ResetFlag
  <1>3. ASSUME NEW r \in Rows, RequeueConfirmedNotSent(r)
        PROVE  RowOK(q)' /\ \A k \in Instances : JobOK(k, q)'
    BY <1>3, RowOK(r), \A k \in Instances : JobOK(k, r) DEF RequeueConfirmedNotSent
  <1>4. ASSUME NEW r \in Rows, ConfirmDelivered(r)
        PROVE  RowOK(q)' /\ \A k \in Instances : JobOK(k, q)'
    BY <1>4, RowOK(r), \A k \in Instances : JobOK(k, r) DEF ConfirmDelivered
  <1>5. ASSUME NEW r \in Rows, Clock(r)
        PROVE  RowOK(q)' /\ \A k \in Instances : JobOK(k, q)'
    BY <1>5 DEF Clock, RetryElapses, LeaseExpires
  <1> QED
    BY <1>1, <1>2, <1>3, <1>4, <1>5
       DEF Producer, EnqueueNotification, EnqueueMessages, Review

LEMMA LoopInv ==
  ASSUME OutboxInv, NEW i \in Instances, Loop(i) \/ Crash(i)
  PROVE  OutboxInv'
  <1> USE DEF OutboxInv
  <1>t. TypeOK'
    BY LoopTypes
  <1> SUFFICES ASSUME NEW q \in Rows, NEW k \in Instances, NEW k2 \in Instances
               PROVE  /\ RowOK(q)' /\ JobOK(k, q)'
                      /\ job'[k][q] # "none" /\ job'[k2][q] # "none" => k = k2
    BY <1>t DEF OneDelivery
  <1>q. /\ RowOK(q) /\ JobOK(k, q) /\ JobOK(k2, q)
        /\ job[k][q] # "none" /\ job[k2][q] # "none" => k = k2
    BY DEF OneDelivery
  <1> USE <1>q DEF RowOK, JobOK, TypeOK, rowVars, boundVars
  <1>1. CASE FailStale(i)
    BY <1>1 DEF FailStale, StaleClaims, Put
  <1>2. CASE ClaimBatch(i)
    <2>1. PICK S \in SUBSET Claimable :
             /\ status' = Put(status, S, "processing")
             /\ attempts' = [r \in Rows |-> IF r \in S THEN attempts[r] + 1 ELSE attempts[r]]
             /\ job' = [job EXCEPT ![i] = Put(@, S, "waiting")]
      BY <1>2 DEF ClaimBatch
    <2>2. UNCHANGED <<delivery, accepted>>
      BY <1>2 DEF ClaimBatch
    <2>3. q \in S => status[q] = "pending" /\ status'[q] = "processing"
      BY <2>1 DEF Claimable, Put
    <2>4. q \notin S => status'[q] = status[q] /\ attempts'[q] = attempts[q]
      BY <2>1 DEF Put
    <2>5. \A n \in Instances :
             job'[n][q] = IF n = i /\ q \in S THEN "waiting" ELSE job[n][q]
      BY <2>1 DEF Put
    <2> QED
      BY <2>2, <2>3, <2>4, <2>5
  <1>3. CASE EndIteration(i)
    BY <1>3 DEF EndIteration
  <1>4. CASE Crash(i)
    BY <1>4 DEF Crash
  <1> QED
    BY <1>1, <1>2, <1>3, <1>4 DEF Loop

LEMMA DeliveryInv ==
  ASSUME OutboxInv, NEW i \in Instances, NEW r \in Rows, Deliver(i, r) \/ RecordRaised(i, r)
  PROVE  OutboxInv'
  <1> USE DEF OutboxInv
  <1>t. TypeOK'
    BY DeliveryTypes
  <1> SUFFICES ASSUME NEW q \in Rows, NEW k \in Instances, NEW k2 \in Instances
               PROVE  /\ RowOK(q)' /\ JobOK(k, q)'
                      /\ job'[k][q] # "none" /\ job'[k2][q] # "none" => k = k2
    BY <1>t DEF OneDelivery
  <1>q. /\ RowOK(q) /\ JobOK(k, q) /\ JobOK(k2, q) /\ JobOK(i, q) /\ RowOK(r) /\ JobOK(i, r)
        /\ job[k][q] # "none" /\ job[k2][q] # "none" => k = k2
        /\ job[k][q] # "none" /\ job[i][q] # "none" => k = i
    BY DEF OneDelivery
  <1> DEFINE Goal == /\ RowOK(q)' /\ JobOK(k, q)'
                     /\ job'[k][q] # "none" /\ job'[k2][q] # "none" => k = k2
  <1> USE <1>q DEF RowOK, JobOK, TypeOK, rowVars, boundVars
  <1>1. CASE StartDelivery(i, r)
    BY <1>1 DEF StartDelivery, Progress
  <1>2. CASE ReplyOk(i, r)
    BY <1>2 DEF ReplyOk, Progress, Accepted
  <1>3. CASE ReplyRetryAfter(i, r)
    BY <1>3 DEF ReplyRetryAfter, Progress
  <1>4. CASE ReplyRejected(i, r)
    BY <1>4 DEF ReplyRejected, Progress
  <1>5. CASE ReplyLost(i, r)
    BY <1>5 DEF ReplyLost, Progress, Accepted
  <1>6. CASE MarkSent(i, r)
    BY <1>6 DEF MarkSent, Record
  <1>7. CASE RetryAfter(i, r)
    BY <1>7 DEF RetryAfter, Record
  <1>8. CASE MarkRejected(i, r)
    BY <1>8 DEF MarkRejected, Record
  <1>9. CASE MarkUnknown(i, r)
    BY <1>9 DEF MarkUnknown, Record
  <1>10. CASE RecordRaised(i, r)
    <2>1. UNCHANGED <<status, delivery, attempts, accepted>>
      BY <1>10 DEF RecordRaised
    <2>2. \A n \in Instances : job'[n][q] \in {"none", job[n][q]}
      BY <1>10 DEF RecordRaised, Put
    <2> QED
      BY <2>1, <2>2
  <1> QED
    BY <1>1, <1>2, <1>3, <1>4, <1>5, <1>6, <1>7, <1>8, <1>9, <1>10 DEF Deliver

LEMMA NextInv == OutboxInv /\ [Next]_vars => OutboxInv'
  <1>1. OutboxInv /\ UNCHANGED vars => OutboxInv'
    BY StutterTypes
       DEF OutboxInv, RowOK, JobOK, OneDelivery, vars, rowVars, loopVars, boundVars
  <1> QED
    BY <1>1, RowStepInv, LoopInv, DeliveryInv DEF Next

THEOREM OutboxInvariant == Spec => []OutboxInv
  BY InitInv, NextInv, PTL DEF Spec

-------------------------------------------------------------------------------
(* What the outbox guarantees *)

\* Telegram accepts no command twice, however leases, crashes, lost replies,
\* abandoned batches and reviews interleave (fail_stale and
\* requeue_confirmed_not_sent never put a row in doubt back into the queue).
THEOREM NothingSentTwice == Spec => []AcceptedOnce
  <1>1. OutboxInv => AcceptedOnce
    BY DEF OutboxInv, RowOK, AcceptedOnce
  <1> QED
    BY <1>1, OutboxInvariant, PTL

\* The delivery state of a row never contradicts what Telegram did.
THEOREM VerdictsAreTrue == Spec => []HonestVerdict
  <1>1. OutboxInv => HonestVerdict
    BY DEF OutboxInv, TypeOK, Statuses, RowOK, HonestVerdict
  <1> QED
    BY <1>1, OutboxInvariant, PTL

\* retry_after leaves no row in the queue that claim_batch would not take.
THEOREM QueueIsClaimable == Spec => []NoneStranded
  <1>1. OutboxInv => NoneStranded
    BY DEF OutboxInv, RowOK, NoneStranded
  <1> QED
    BY <1>1, OutboxInvariant, PTL

\* A row that is being delivered is not claimed again, even after its lease.
THEOREM DeliveredByOne == Spec => []OneDelivery
  BY OutboxInvariant, PTL DEF OutboxInv

-------------------------------------------------------------------------------
(* The outbox implements AtMostOnceDelivery *)

LEMMA InitRefines == Init => Promise!Init
  BY DEF Init, Promise!Init, verdict

\* The verdict is a function of the row.
LEMMA SameVerdict ==
  ASSUME UNCHANGED <<status, delivery>>
  PROVE  verdict' = verdict
  BY DEF verdict

LEMMA ProducerRefines ==
  ASSUME OutboxInv, NEW S \in SUBSET Rows, Insert(S), UNCHANGED accepted
  PROVE  \E T \in SUBSET Rows : Promise!Submit(T)
  <1> DEFINE T == {r \in S : status[r] = "absent"}
  <1>1. \A r \in Rows : status'[r] = IF r \in T THEN "pending" ELSE status[r]
    BY DEF Insert, Put, OutboxInv, TypeOK
  <1>2. UNCHANGED <<delivery, accepted>>
    BY DEF Insert
  <1>3. \A r \in T : verdict[r] = "none"
    BY DEF verdict
  <1>4. verdict' = [r \in Rows |-> IF r \in T THEN "open" ELSE verdict[r]]
    BY <1>1, <1>2 DEF verdict
  <1>5. Promise!Submit(T)
    BY <1>2, <1>3, <1>4 DEF Promise!Submit, Promise!Pronounce
  <1> QED
    BY <1>5

\* A row of which the verdict alone changes.
LEMMA PronounceOne ==
  ASSUME TypeOK, NEW r \in Rows, NEW s \in Statuses, NEW d \in DeliveryStates,
         status' = [status EXCEPT ![r] = s],
         delivery' = [delivery EXCEPT ![r] = d],
         UNCHANGED accepted
  PROVE  Promise!Pronounce({r},
            CASE s = "absent" -> "none"
              [] s \in {"pending", "processing"} -> "open"
              [] s = "sent" -> "sent"
              [] OTHER -> IF d = "unknown" THEN "unknown" ELSE "notsent")
  BY DEF TypeOK, verdict, Promise!Pronounce

LEMMA ReviewRefines ==
  ASSUME OutboxInv, NEW r \in Rows, Review(r)
  PROVE  Promise!Next
  <1>1. CASE RequeueConfirmedNotSent(r)
    <2>1. verdict[r] = "notsent"
      BY <1>1 DEF RequeueConfirmedNotSent, verdict
    <2>2. Promise!Pronounce({r}, "open")
      BY <1>1, PronounceOne
         DEF RequeueConfirmedNotSent, OutboxInv, Statuses, DeliveryStates
    <2> QED
      BY <2>1, <2>2 DEF Promise!Replay, Promise!Next
  <1>2. CASE ConfirmDelivered(r)
    <2>1. verdict[r] = "unknown"
      BY <1>2 DEF ConfirmDelivered, verdict
    <2>2. Promise!Pronounce({r}, "sent")
      BY <1>2, PronounceOne DEF ConfirmDelivered, OutboxInv, Statuses, DeliveryStates
    <2>3. accepted[r] = 1
      BY <1>2, RowOK(r) DEF ConfirmDelivered, OutboxInv, TypeOK, RowOK
    <2> QED
      BY <2>1, <2>2, <2>3 DEF Promise!ReportSent, Promise!Next
  <1> QED
    BY <1>1, <1>2 DEF Review

LEMMA LoopRefines ==
  ASSUME OutboxInv, NEW i \in Instances, Loop(i) \/ Crash(i)
  PROVE  Promise!Next \/ UNCHANGED <<verdict, accepted>>
  <1>1. CASE FailStale(i)
    <2>1. StaleClaims \in SUBSET Rows
      BY DEF StaleClaims
    <2>2. \A r \in StaleClaims : verdict[r] = "open"
      BY DEF StaleClaims, verdict
    <2>3. verdict' = [r \in Rows |-> IF r \in StaleClaims THEN "unknown" ELSE verdict[r]]
      BY <1>1, <2>1 DEF FailStale, Put, OutboxInv, TypeOK, verdict
    <2>4. Promise!GiveUp(StaleClaims)
      BY <1>1, <2>2, <2>3 DEF FailStale, Promise!GiveUp, Promise!Pronounce
    <2> QED
      BY <2>1, <2>4 DEF Promise!Next
  <1>2. CASE ClaimBatch(i)
    <2>1. PICK S \in SUBSET Claimable : status' = Put(status, S, "processing")
      BY <1>2 DEF ClaimBatch
    <2>2. \A r \in Rows : status'[r] = IF r \in S THEN "processing" ELSE status[r]
      BY <2>1 DEF Put, OutboxInv, TypeOK
    <2>3. \A r \in S : status[r] = "pending"
      BY <2>1 DEF Claimable
    <2>4. UNCHANGED <<delivery, accepted>>
      BY <1>2 DEF ClaimBatch
    <2>5. verdict' = verdict
      BY <2>2, <2>3, <2>4 DEF verdict
    <2> QED
      BY <2>4, <2>5
  <1>3. CASE EndIteration(i) \/ Crash(i)
    BY <1>3, SameVerdict DEF EndIteration, Crash, rowVars
  <1> QED
    BY <1>1, <1>2, <1>3 DEF Loop

LEMMA ReplyRefines ==
  ASSUME OutboxInv, NEW i \in Instances, NEW r \in Rows,
         job[i][r] = "sending", Accepted(r), UNCHANGED <<status, delivery>>
  PROVE  Promise!Next
  <1>1. RowOK(r) /\ JobOK(i, r)
    BY DEF OutboxInv
  <1>2. accepted[r] = 0 /\ verdict[r] \in {"open", "unknown"}
    BY <1>1 DEF RowOK, JobOK, verdict
  <1>3. accepted' = [accepted EXCEPT ![r] = 1]
    BY <1>2 DEF Accepted, OutboxInv, TypeOK
  <1> QED
    BY <1>2, <1>3, SameVerdict DEF Promise!Accept, Promise!Next

LEMMA RecordRefines ==
  ASSUME OutboxInv, NEW i \in Instances, NEW r \in Rows, NEW from \in Jobs \ {"none"},
         NEW s \in Statuses, NEW d \in DeliveryStates,
         Record(i, r, from, s, d),
         \/ from = "sent" /\ s = "sent"
         \/ from = "retry" /\ s = "pending"
         \/ from \in {"retry", "rejected"} /\ s = "failed" /\ d = "confirmed_not_sent"
         \/ s = "failed" /\ d = "unknown"
  PROVE  Promise!Next \/ UNCHANGED <<verdict, accepted>>
  <1>1. CASE status[r] # "processing"
    BY <1>1, SameVerdict DEF Record
  <1>2. CASE status[r] = "processing"
    <2>1. /\ status' = [status EXCEPT ![r] = s]
          /\ delivery' = [delivery EXCEPT ![r] = d]
          /\ UNCHANGED accepted
      BY <1>2 DEF Record
    <2>2. verdict[r] = "open"
      BY <1>2 DEF verdict
    <2>3. JobOK(i, r) /\ job[i][r] = from
      BY DEF OutboxInv, Record
    <2>4. CASE from = "sent" /\ s = "sent"
      <3>1. Promise!Pronounce({r}, "sent")
        BY <2>1, <2>4, PronounceOne DEF OutboxInv
      <3> QED
        BY <2>2, <2>3, <2>4, <3>1 DEF JobOK, Promise!ReportSent, Promise!Next
    <2>5. CASE from = "retry" /\ s = "pending"
      <3>1. verdict' = verdict
        BY <1>2, <2>1, <2>5 DEF OutboxInv, TypeOK, verdict
      <3> QED
        BY <2>1, <3>1
    <2>6. CASE from \in {"retry", "rejected"} /\ s = "failed" /\ d = "confirmed_not_sent"
      <3>1. Promise!Pronounce({r}, "notsent")
        BY <2>1, <2>6, PronounceOne DEF OutboxInv
      <3> QED
        BY <2>2, <2>3, <2>6, <3>1 DEF JobOK, Promise!ReportNotSent, Promise!Next
    <2>7. CASE s = "failed" /\ d = "unknown"
      <3>1. Promise!Pronounce({r}, "unknown")
        BY <2>1, <2>7, PronounceOne DEF OutboxInv
      <3>2. Promise!GiveUp({r})
        BY <2>2, <3>1 DEF Promise!GiveUp
      <3>3. {r} \in SUBSET Rows
        OBVIOUS
      <3> QED
        BY <3>2, <3>3 DEF Promise!Next
    <2> QED
      BY <2>4, <2>5, <2>6, <2>7
  <1> QED
    BY <1>1, <1>2

LEMMA DeliveryRefines ==
  ASSUME OutboxInv, NEW i \in Instances, NEW r \in Rows, Deliver(i, r) \/ RecordRaised(i, r)
  PROVE  Promise!Next \/ UNCHANGED <<verdict, accepted>>
  <1>1. CASE ReplyOk(i, r) \/ ReplyLost(i, r)
    BY <1>1, ReplyRefines, SameVerdict DEF ReplyOk, ReplyLost, Progress, rowVars
  <1>2. CASE StartDelivery(i, r) \/ ReplyRetryAfter(i, r) \/ ReplyRejected(i, r)
             \/ RecordRaised(i, r)
    BY <1>2, SameVerdict
       DEF StartDelivery, ReplyRetryAfter, ReplyRejected, RecordRaised, Progress, rowVars
  <1>3. CASE MarkSent(i, r) \/ RetryAfter(i, r) \/ MarkRejected(i, r) \/ MarkUnknown(i, r)
    BY <1>3, RecordRefines
       DEF MarkSent, RetryAfter, MarkRejected, MarkUnknown, Jobs, Statuses, DeliveryStates
  <1> QED
    BY <1>1, <1>2, <1>3 DEF Deliver

LEMMA NextRefines ==
  OutboxInv /\ [Next]_vars => [Promise!Next]_<<verdict, accepted>>
  <1> SUFFICES ASSUME OutboxInv, [Next]_vars
               PROVE  Promise!Next \/ UNCHANGED <<verdict, accepted>>
    OBVIOUS
  <1>1. ASSUME NEW S \in SUBSET Rows, Insert(S), UNCHANGED accepted
        PROVE  Promise!Next
    BY <1>1, ProducerRefines DEF Promise!Next
  <1>2. CASE Producer
    <2>1. ASSUME NEW e \in Events, NEW R \in SUBSET Chats, EnqueueNotification(e, R)
          PROVE  Promise!Next
      BY <1>1, <2>1, {e} \X R \in SUBSET Rows DEF EnqueueNotification, Rows
    <2>2. ASSUME NEW s \in Scopes, NEW R \in SUBSET Chats, EnqueueMessages(s, R)
          PROVE  Promise!Next
      BY <1>1, <2>2, {s} \X R \in SUBSET Rows DEF EnqueueMessages, Rows
    <2>3. ASSUME NEW e \in Events, ResetFlag(e)
          PROVE  UNCHANGED <<verdict, accepted>>
      BY <2>3, SameVerdict DEF ResetFlag, rowVars
    <2> QED
      BY <1>2, <2>1, <2>2, <2>3 DEF Producer
  <1>3. ASSUME NEW r \in Rows, Clock(r)
        PROVE  UNCHANGED <<verdict, accepted>>
    BY <1>3, SameVerdict DEF Clock, RetryElapses, LeaseExpires
  <1>4. CASE UNCHANGED vars
    BY <1>4, SameVerdict DEF vars, rowVars
  <1> QED
    BY <1>2, <1>3, <1>4, ReviewRefines, LoopRefines, DeliveryRefines DEF Next

\* The outbox implements its promise: every statement of the repository and every
\* reply of Telegram is a step of AtMostOnceDelivery or leaves it alone.
THEOREM OutboxImplementsPromise == Spec => ImplementsPromise
  BY InitRefines, NextRefines, OutboxInvariant, PTL DEF Spec, ImplementsPromise, Promise!Spec

===============================================================================
