------------------------ MODULE AuctionLifecycleProofs ------------------------
(* Theorems about AuctionLifecycle, for every number of lots, bot instances, *)
(* channel targets, attempts, posts and operator decisions.                  *)
EXTENDS AuctionLifecycle, TLAPS

-------------------------------------------------------------------------------
(* Types *)

LEMMA InitTypes == Init => TypeOK
  <1> SUFFICES ASSUME Init PROVE TypeOK
    OBVIOUS
  <1> USE DEF Init
  <1>1. /\ status \in [Lots -> Statuses]
        /\ phase \in [Lots -> Phases]
    BY DEF Statuses, Phases, Early, Closed
  <1>2. /\ nextMsg \in 1..(MaxPosts + 1)
        /\ decisions \in 0..MaxDecisions
        /\ target \in [Senders -> 1..Targets]
    BY LimitsAssumption DEF LimitsAssumption
  <1>3. /\ spc \in [Senders -> {"idle", "claim", "batch", "send", "sent", "deferred", "failed"}]
        /\ fpc \in [Finalizers -> {"idle", "claim", "batch", "finish", "fail"}]
    OBVIOUS
  <1> QED
    BY <1>1, <1>2, <1>3 DEF TypeOK, RowTypes, TimeTypes, WorldTypes, SenderTypes, FinalizerTypes

LEMMA PersonTypes ==
  ASSUME TypeOK, NEW l \in Lots, Person(l)
  PROVE  TypeOK'
  <1> USE LimitsAssumption
          DEF TypeOK, RowTypes, TimeTypes, WorldTypes, SenderTypes, FinalizerTypes,
              timeVars, worldVars, senderVars, finalizerVars,
              Statuses, Moderatable, Published, Settled, Unsent,
              Phases, Early, Due, Overdue, Ended, Closed, NoMsg
  <1>1. CASE CreatePending(l)
    BY <1>1 DEF CreatePending
  <1>2. CASE Schedule(l)
    BY <1>2 DEF Schedule
  <1>3. CASE Reject(l)
    BY <1>3 DEF Reject
  <1>4. CASE CancelByModerator(l)
    BY <1>4 DEF CancelByModerator
  <1>5. CASE CancelByOwner(l)
    BY <1>5 DEF CancelByOwner
  <1>6. CASE RequeuePublication(l)
    BY <1>6 DEF RequeuePublication, Spend
  <1>7. CASE RescheduleUnpublished(l)
    BY <1>7 DEF RescheduleUnpublished, Spend
  <1>8. CASE ReschedulePublished(l)
    BY <1>8 DEF ReschedulePublished, Reopen, Spend
  <1>9. CASE Restart(l)
    BY <1>9 DEF Restart, Reopen, Spend
  <1>10. CASE FinishNow(l)
    BY <1>10 DEF FinishNow
  <1>11. CASE RepairRequeue(l)
    BY <1>11 DEF RepairRequeue, Spend
  <1>12. ASSUME NEW m \in Msgs, NEW d \in Msgs \cup {NoMsg}, RepairPublished(l, m, d)
         PROVE  TypeOK'
    BY <1>12 DEF RepairPublished, BindRow, Spend
  <1> QED
    BY <1>1, <1>2, <1>3, <1>4, <1>5, <1>6, <1>7, <1>8, <1>9, <1>10, <1>11, <1>12
       DEF Person

LEMMA EnvironmentTypes ==
  ASSUME TypeOK,
         \/ \E l \in Lots : Userbot(l) \/ Clock(l)
         \/ \E S \in SUBSET Lots : ReleaseStale(S) \/ AutoFinish(S)
  PROVE  TypeOK'
  <1> USE LimitsAssumption
          DEF TypeOK, RowTypes, TimeTypes, WorldTypes, SenderTypes, FinalizerTypes,
              rowVars, timeVars, worldVars, senderVars, finalizerVars,
              Statuses, Moderatable, Published, Settled, Unsent,
              Phases, Early, Due, Overdue, Ended, Closed, NoMsg
  <1>1. ASSUME NEW l \in Lots, NEW m \in Msgs, ConfirmPublication(l, m)
        PROVE  TypeOK'
    BY <1>1 DEF ConfirmPublication, BindRow
  <1>2. ASSUME NEW l \in Lots, NEW m \in Msgs, BindByMessage(l, m)
        PROVE  TypeOK'
    BY <1>2 DEF BindByMessage
  <1>3. ASSUME NEW l \in Lots, NEW m \in Msgs, BindByAuction(l, m)
        PROVE  TypeOK'
    BY <1>3 DEF BindByAuction
  <1>4. ASSUME NEW l \in Lots, TimePasses(l)
        PROVE  TypeOK'
    BY <1>4 DEF TimePasses
  <1>5. ASSUME NEW l \in Lots, RetryElapses(l)
        PROVE  TypeOK'
    BY <1>5 DEF RetryElapses
  <1>6. ASSUME NEW l \in Lots, LeaseExpires(l)
        PROVE  TypeOK'
    BY <1>6 DEF LeaseExpires
  <1>7. ASSUME NEW S \in SUBSET Lots, ReleaseStale(S)
        PROVE  TypeOK'
    BY <1>7 DEF ReleaseStale, Put
  <1>8. ASSUME NEW S \in SUBSET Lots, AutoFinish(S)
        PROVE  TypeOK'
    BY <1>8 DEF AutoFinish, Put
  <1> QED
    BY <1>1, <1>2, <1>3, <1>4, <1>5, <1>6, <1>7, <1>8 DEF Userbot, Clock

LEMMA ClaimTypes ==
  ASSUME TypeOK, NEW w \in Senders,
         \/ LoopStep(w)
         \/ \E l \in Lots : ForceClaim(w, l) \/ ForceUnclaimed(w, l)
  PROVE  TypeOK'
  <1> USE DEF TypeOK, rowVars, timeVars, worldVars, senderVars, finalizerVars
  <1>t. 1 \in 1..Targets
    BY LimitsAssumption DEF LimitsAssumption
  <1>1. CASE RecoverStale(w)
    <2> USE <1>1 DEF RecoverStale, Put
    <2>1. RowTypes'
      BY DEF RowTypes, Statuses, Unsent, Published, Settled, NoMsg
    <2>2. SenderTypes'
      BY DEF SenderTypes, NoMsg
    <2>3. TimeTypes' /\ WorldTypes' /\ FinalizerTypes'
      BY DEF TimeTypes, WorldTypes, FinalizerTypes
    <2> QED
      BY <2>1, <2>2, <2>3
  <1>2. CASE ClaimDue(w)
    <2> USE <1>2 DEF ClaimDue, Claim, Put, DueLots
    <2>1. RowTypes'
      BY DEF RowTypes, Statuses, Unsent, Published, Settled, NoMsg
    <2>2. TimeTypes'
      BY DEF TimeTypes
    <2>3. SenderTypes'
      BY DEF SenderTypes, NoMsg
    <2>4. WorldTypes' /\ FinalizerTypes'
      BY DEF WorldTypes, FinalizerTypes
    <2> QED
      BY <2>1, <2>2, <2>3, <2>4
  <1>3. CASE FinishIteration(w)
    <2> USE <1>3 DEF FinishIteration
    <2>1. SenderTypes'
      BY DEF SenderTypes, NoMsg
    <2>2. RowTypes' /\ TimeTypes' /\ WorldTypes' /\ FinalizerTypes'
      BY DEF RowTypes, TimeTypes, WorldTypes, FinalizerTypes
    <2> QED
      BY <2>1, <2>2
  <1>4. ASSUME NEW l \in Lots, StartSending(w, l)
        PROVE  TypeOK'
    <2> USE <1>4 DEF StartSending
    <2>1. SenderTypes'
      BY <1>t DEF SenderTypes, NoMsg
    <2>2. RowTypes' /\ TimeTypes' /\ WorldTypes' /\ FinalizerTypes'
      BY DEF RowTypes, TimeTypes, WorldTypes, FinalizerTypes
    <2> QED
      BY <2>1, <2>2
  <1>5. ASSUME NEW l \in Lots, ForceClaim(w, l)
        PROVE  TypeOK'
    <2> USE <1>5 DEF ForceClaim, Claim, Put
    <2>1. RowTypes'
      BY DEF RowTypes, Statuses, Unsent, Published, Settled, NoMsg
    <2>2. TimeTypes'
      BY DEF TimeTypes
    <2>3. SenderTypes'
      BY <1>t DEF SenderTypes, NoMsg
    <2>4. WorldTypes' /\ FinalizerTypes'
      BY DEF WorldTypes, FinalizerTypes
    <2> QED
      BY <2>1, <2>2, <2>3, <2>4
  <1>6. ASSUME NEW l \in Lots, ForceUnclaimed(w, l)
        PROVE  TypeOK'
    <2> USE <1>6 DEF ForceUnclaimed
    <2>1. SenderTypes'
      BY <1>t DEF SenderTypes, NoMsg
    <2>2. RowTypes' /\ TimeTypes' /\ WorldTypes' /\ FinalizerTypes'
      BY DEF RowTypes, TimeTypes, WorldTypes, FinalizerTypes
    <2> QED
      BY <2>1, <2>2
  <1> QED
    BY <1>1, <1>2, <1>3, <1>4, <1>5, <1>6 DEF LoopStep

LEMMA DeliverTypes ==
  ASSUME TypeOK, NEW w \in Senders, Deliver(w) \/ SenderCrash(w)
  PROVE  TypeOK'
  <1> USE DEF TypeOK, rowVars, timeVars, worldVars, senderVars, finalizerVars
  <1>t. /\ 1 \in 1..Targets
        /\ \A t \in 1..Targets : t < Targets => t + 1 \in 1..Targets
    BY LimitsAssumption DEF LimitsAssumption
  <1>m. nextMsg \in Msgs => nextMsg + 1 \in 1..(MaxPosts + 1)
    BY LimitsAssumption DEF LimitsAssumption, Msgs
  <1>1. CASE SendDelivered(w)
    <2> USE <1>1 DEF SendDelivered, Post
    <2>1. WorldTypes'
      BY <1>m DEF WorldTypes, Msgs
    <2>2. SenderTypes'
      BY <1>t DEF SenderTypes, NoMsg
    <2>3. RowTypes' /\ TimeTypes' /\ FinalizerTypes'
      BY DEF RowTypes, TimeTypes, FinalizerTypes
    <2> QED
      BY <2>1, <2>2, <2>3
  <1>2. CASE SendDeferred(w)
    <2> USE <1>2 DEF SendDeferred, Post
    <2>1. WorldTypes'
      BY <1>m DEF WorldTypes, Msgs
    <2>2. SenderTypes'
      BY <1>t DEF SenderTypes, NoMsg
    <2>3. RowTypes' /\ TimeTypes' /\ FinalizerTypes'
      BY DEF RowTypes, TimeTypes, FinalizerTypes
    <2> QED
      BY <2>1, <2>2, <2>3
  <1>3. CASE SendRefused(w)
    <2> USE <1>3 DEF SendRefused, CallRaised
    <2>1. SenderTypes'
      BY <1>t DEF SenderTypes, NoMsg
    <2>2. RowTypes' /\ TimeTypes' /\ WorldTypes' /\ FinalizerTypes'
      BY DEF RowTypes, TimeTypes, WorldTypes, FinalizerTypes
    <2> QED
      BY <2>1, <2>2
  <1>4. CASE SendReplyLost(w)
    <2> USE <1>4 DEF SendReplyLost, CallRaised, Post
    <2>1. WorldTypes'
      BY <1>m DEF WorldTypes, Msgs
    <2>2. SenderTypes'
      BY <1>t DEF SenderTypes, NoMsg
    <2>3. RowTypes' /\ TimeTypes' /\ FinalizerTypes'
      BY DEF RowTypes, TimeTypes, FinalizerTypes
    <2> QED
      BY <2>1, <2>2, <2>3
  <1>5. CASE MarkPublished(w)
    <2> USE <1>5 DEF MarkPublished, SenderDone
    <2>1. RowTypes'
      BY DEF SenderTypes, RowTypes, Statuses, Unsent, Published, Settled, NoMsg
    <2>2. TimeTypes'
      BY DEF TimeTypes
    <2>3. WorldTypes'
      BY DEF WorldTypes, Msgs
    <2>4. SenderTypes'
      BY <1>t DEF SenderTypes, NoMsg
    <2>5. FinalizerTypes'
      BY DEF FinalizerTypes
    <2> QED
      BY <2>1, <2>2, <2>3, <2>4, <2>5
  <1>6. CASE MarkDeferred(w)
    <2> USE <1>6 DEF MarkDeferred, SenderDone
    <2>1. RowTypes'
      BY DEF RowTypes, Statuses, Unsent, Published, Settled, NoMsg
    <2>2. TimeTypes'
      BY DEF TimeTypes
    <2>3. SenderTypes'
      BY <1>t DEF SenderTypes, NoMsg
    <2>4. WorldTypes' /\ FinalizerTypes'
      BY DEF WorldTypes, FinalizerTypes
    <2> QED
      BY <2>1, <2>2, <2>3, <2>4
  <1>7. CASE MarkPublicationFailed(w)
    <2> USE <1>7 DEF MarkPublicationFailed, SenderDone
    <2>1. RowTypes'
      BY DEF RowTypes, Statuses, Unsent, Published, Settled, NoMsg
    <2>2. TimeTypes'
      <3>1. (attempts[slot[w]] >= MaxAttempts) \in BOOLEAN
        OBVIOUS
      <3> QED
        BY <3>1, Zenon DEF TimeTypes
    <2>3. SenderTypes'
      BY <1>t DEF SenderTypes, NoMsg
    <2>4. WorldTypes' /\ FinalizerTypes'
      BY DEF WorldTypes, FinalizerTypes
    <2> QED
      BY <2>1, <2>2, <2>3, <2>4
  <1>8. CASE RecordLost(w)
    <2> USE <1>8 DEF RecordLost, SenderDone
    <2>1. SenderTypes'
      BY <1>t DEF SenderTypes, NoMsg
    <2>2. RowTypes' /\ TimeTypes' /\ WorldTypes' /\ FinalizerTypes'
      BY DEF RowTypes, TimeTypes, WorldTypes, FinalizerTypes
    <2> QED
      BY <2>1, <2>2
  <1>9. CASE SenderCrash(w)
    <2> USE <1>9 DEF SenderCrash
    <2>1. SenderTypes'
      BY <1>t DEF SenderTypes, NoMsg
    <2>2. RowTypes' /\ TimeTypes' /\ WorldTypes' /\ FinalizerTypes'
      BY DEF RowTypes, TimeTypes, WorldTypes, FinalizerTypes
    <2> QED
      BY <2>1, <2>2
  <1> QED
    BY <1>1, <1>2, <1>3, <1>4, <1>5, <1>6, <1>7, <1>8, <1>9 DEF Deliver

LEMMA FinalizeTypes ==
  ASSUME TypeOK, NEW f \in Finalizers, Finalize(f) \/ FinalizerCrash(f)
  PROVE  TypeOK'
  <1> USE DEF TypeOK, rowVars, timeVars, worldVars, senderVars, finalizerVars
  <1>1. CASE FailStaleClaims(f)
    <2> USE <1>1 DEF FailStaleClaims, Put
    <2>1. RowTypes'
      BY DEF RowTypes, Statuses, Unsent, Published, Settled, NoMsg
    <2>2. FinalizerTypes'
      BY DEF FinalizerTypes
    <2>3. TimeTypes' /\ WorldTypes' /\ SenderTypes'
      BY DEF TimeTypes, WorldTypes, SenderTypes
    <2> QED
      BY <2>1, <2>2, <2>3
  <1>2. CASE ClaimFinalization(f)
    <2> USE <1>2 DEF ClaimFinalization, Put, EndedLots
    <2>1. RowTypes'
      BY DEF RowTypes, Statuses, Unsent, Published, Settled, NoMsg
    <2>2. TimeTypes'
      BY DEF TimeTypes
    <2>3. FinalizerTypes'
      BY DEF FinalizerTypes, WorldTypes, Claims
    <2>4. WorldTypes' /\ SenderTypes'
      BY DEF WorldTypes, SenderTypes
    <2> QED
      BY <2>1, <2>2, <2>3, <2>4
  <1>3. CASE FinishSweep(f)
    <2> USE <1>3 DEF FinishSweep
    <2>1. FinalizerTypes'
      BY DEF FinalizerTypes
    <2>2. RowTypes' /\ TimeTypes' /\ WorldTypes' /\ SenderTypes'
      BY DEF RowTypes, TimeTypes, WorldTypes, SenderTypes
    <2> QED
      BY <2>1, <2>2
  <1>4. ASSUME NEW c \in held[f], Announce(f, c)
        PROVE  TypeOK'
    <2> USE <1>4 DEF Announce
    <2>1. WorldTypes'
      BY DEF FinalizerTypes, Claims, WorldTypes, Msgs
    <2>2. FinalizerTypes'
      BY DEF FinalizerTypes
    <2>3. RowTypes' /\ TimeTypes' /\ SenderTypes'
      BY DEF RowTypes, TimeTypes, SenderTypes
    <2> QED
      BY <2>1, <2>2, <2>3
  <1>5. ASSUME NEW c \in held[f], ReadBidsFailed(f, c)
        PROVE  TypeOK'
    <2> USE <1>5 DEF ReadBidsFailed
    <2>1. FinalizerTypes'
      BY DEF FinalizerTypes
    <2>2. RowTypes' /\ TimeTypes' /\ WorldTypes' /\ SenderTypes'
      BY DEF RowTypes, TimeTypes, WorldTypes, SenderTypes
    <2> QED
      BY <2>1, <2>2
  <1>6. CASE MarkFinished(f)
    <2> USE <1>6 DEF MarkFinished
    <2>1. RowTypes'
      BY DEF RowTypes, Statuses, Unsent, Published, Settled, NoMsg
    <2>2. FinalizerTypes'
      BY DEF FinalizerTypes
    <2>3. TimeTypes' /\ WorldTypes' /\ SenderTypes'
      BY DEF TimeTypes, WorldTypes, SenderTypes
    <2> QED
      BY <2>1, <2>2, <2>3
  <1>7. CASE MarkFinishedLost(f)
    <2> USE <1>7 DEF MarkFinishedLost
    <2>1. FinalizerTypes'
      BY DEF FinalizerTypes
    <2>2. RowTypes' /\ TimeTypes' /\ WorldTypes' /\ SenderTypes'
      BY DEF RowTypes, TimeTypes, WorldTypes, SenderTypes
    <2> QED
      BY <2>1, <2>2
  <1>8. CASE MarkFinalizationFailed(f)
    <2> USE <1>8 DEF MarkFinalizationFailed
    <2>1. RowTypes'
      BY DEF RowTypes, Statuses, Unsent, Published, Settled, NoMsg
    <2>2. FinalizerTypes'
      BY DEF FinalizerTypes
    <2>3. TimeTypes' /\ WorldTypes' /\ SenderTypes'
      BY DEF TimeTypes, WorldTypes, SenderTypes
    <2> QED
      BY <2>1, <2>2, <2>3
  <1>9. CASE FinalizerCrash(f)
    <2> USE <1>9 DEF FinalizerCrash
    <2>1. FinalizerTypes'
      BY DEF FinalizerTypes
    <2>2. RowTypes' /\ TimeTypes' /\ WorldTypes' /\ SenderTypes'
      BY DEF RowTypes, TimeTypes, WorldTypes, SenderTypes
    <2> QED
      BY <2>1, <2>2
  <1> QED
    BY <1>1, <1>2, <1>3, <1>4, <1>5, <1>6, <1>7, <1>8, <1>9 DEF Finalize

\* Every reachable state is well typed: no statement writes a status, an id or a
\* counter outside its domain, whatever the number of workers and lots.
THEOREM TypesHold == Spec => []TypeOK
  <1>1. Init => TypeOK
    BY InitTypes
  <1>2. TypeOK /\ [Next]_vars => TypeOK'
    <2> SUFFICES ASSUME TypeOK, [Next]_vars PROVE TypeOK'
      OBVIOUS
    <2>1. CASE Next
      BY <2>1, PersonTypes, EnvironmentTypes, ClaimTypes, DeliverTypes, FinalizeTypes
         DEF Next, Senders
    <2>2. CASE UNCHANGED vars
      BY <2>2 DEF vars, rowVars, timeVars, worldVars, senderVars, finalizerVars, TypeOK,
                     RowTypes, TimeTypes, WorldTypes, SenderTypes, FinalizerTypes
    <2> QED
      BY <2>1, <2>2
  <1> QED
    BY <1>1, <1>2, PTL DEF Spec

-------------------------------------------------------------------------------
(* The row and the channel *)

\* What a row that was never claimed looks like
Fresh == \A l \in Lots :
    status[l] \in {"absent"} \cup Moderatable => message[l] = NoMsg /\ attempts[l] = 0

\* A publisher at work has a lot, and one that was answered has an id of its lot.
Answered == \A w \in Senders :
    /\ spc[w] \in {"send", "sent", "deferred", "failed"} => slot[w] \in Lots
    /\ spc[w] = "sent" => smsg[w] \in posts[slot[w]]

\* The inductive invariant of the row: PublishedIffBound needs BoundToOwnPost to
\* know that a recorded id is an id, which needs Answered for the id still in the
\* hands of a coroutine; Schedule needs Fresh.
RowInv == PublishedIffBound /\ AttemptBudget /\ BoundToOwnPost /\ Fresh /\ Answered

LEMMA InitRow == Init => RowInv
  BY LimitsAssumption
     DEF LimitsAssumption, Init, RowInv, PublishedIffBound, AttemptBudget, BoundToOwnPost,
         Fresh, Answered, Published, Settled, Unsent, Moderatable

LEMMA PersonRow ==
  ASSUME TypeOK, RowInv, NEW l \in Lots, Person(l)
  PROVE  RowInv'
  <1> USE LimitsAssumption DEF LimitsAssumption, TypeOK, RowTypes, TimeTypes, WorldTypes, SenderTypes,
              rowVars, timeVars, worldVars, senderVars, finalizerVars,
              RowInv, PublishedIffBound, AttemptBudget, BoundToOwnPost, Fresh, Answered,
              Published, Settled, Unsent, Moderatable, NoMsg, Msgs
  <1>1. CASE CreatePending(l)
    BY <1>1 DEF CreatePending
  <1>2. CASE Schedule(l)
    BY <1>2 DEF Schedule
  <1>3. CASE Reject(l)
    BY <1>3 DEF Reject
  <1>4. CASE CancelByModerator(l)
    BY <1>4 DEF CancelByModerator
  <1>5. CASE CancelByOwner(l)
    BY <1>5 DEF CancelByOwner
  <1>6. CASE RequeuePublication(l)
    BY <1>6 DEF RequeuePublication, Spend
  <1>7. CASE RescheduleUnpublished(l)
    BY <1>7 DEF RescheduleUnpublished, Spend
  <1>8. CASE ReschedulePublished(l)
    BY <1>8 DEF ReschedulePublished, Reopen, Spend
  <1>9. CASE Restart(l)
    BY <1>9 DEF Restart, Reopen, Spend
  <1>10. CASE FinishNow(l)
    BY <1>10 DEF FinishNow
  <1>11. CASE RepairRequeue(l)
    BY <1>11 DEF RepairRequeue, Spend
  <1>12. ASSUME NEW m \in Msgs, NEW d \in Msgs \cup {NoMsg}, RepairPublished(l, m, d)
        PROVE  RowInv'
    BY <1>12 DEF RepairPublished, BindRow, Spend
  <1> QED
    BY <1>1, <1>2, <1>3, <1>4, <1>5, <1>6, <1>7, <1>8, <1>9, <1>10, <1>11, <1>12 DEF Person

LEMMA EnvironmentRow ==
  ASSUME TypeOK, RowInv, 
         \/ \E l \in Lots : Userbot(l) \/ Clock(l)
         \/ \E S \in SUBSET Lots : ReleaseStale(S) \/ AutoFinish(S)
  PROVE  RowInv'
  <1> USE LimitsAssumption DEF LimitsAssumption, TypeOK, RowTypes, TimeTypes, WorldTypes, SenderTypes,
              rowVars, timeVars, worldVars, senderVars, finalizerVars,
              RowInv, PublishedIffBound, AttemptBudget, BoundToOwnPost, Fresh, Answered,
              Published, Settled, Unsent, Moderatable, NoMsg, Msgs
  <1>1. ASSUME NEW l \in Lots, NEW m \in Msgs, ConfirmPublication(l, m)
        PROVE  RowInv'
    BY <1>1 DEF ConfirmPublication, BindRow
  <1>2. ASSUME NEW l \in Lots, NEW m \in Msgs, BindByMessage(l, m)
        PROVE  RowInv'
    BY <1>2 DEF BindByMessage
  <1>3. ASSUME NEW l \in Lots, NEW m \in Msgs, BindByAuction(l, m)
        PROVE  RowInv'
    BY <1>3 DEF BindByAuction
  <1>4. ASSUME NEW l \in Lots, TimePasses(l)
        PROVE  RowInv'
    BY <1>4 DEF TimePasses
  <1>5. ASSUME NEW l \in Lots, RetryElapses(l)
        PROVE  RowInv'
    BY <1>5 DEF RetryElapses
  <1>6. ASSUME NEW l \in Lots, LeaseExpires(l)
        PROVE  RowInv'
    BY <1>6 DEF LeaseExpires
  <1>7. ASSUME NEW S \in SUBSET Lots, ReleaseStale(S)
        PROVE  RowInv'
    BY <1>7 DEF ReleaseStale, Put
  <1>8. ASSUME NEW S \in SUBSET Lots, AutoFinish(S)
        PROVE  RowInv'
    BY <1>8 DEF AutoFinish, Put
  <1> QED
    BY <1>1, <1>2, <1>3, <1>4, <1>5, <1>6, <1>7, <1>8 DEF Userbot, Clock

LEMMA ClaimRow ==
  ASSUME TypeOK, RowInv, NEW w \in Senders,
         \/ LoopStep(w)
         \/ \E l \in Lots : ForceClaim(w, l) \/ ForceUnclaimed(w, l)
  PROVE  RowInv'
  <1> USE LimitsAssumption DEF LimitsAssumption, TypeOK, RowTypes, TimeTypes, WorldTypes, SenderTypes,
              rowVars, timeVars, worldVars, senderVars, finalizerVars,
              RowInv, PublishedIffBound, AttemptBudget, BoundToOwnPost, Fresh, Answered,
              Published, Settled, Unsent, Moderatable, NoMsg, Msgs
  <1>1. CASE RecoverStale(w)
    BY <1>1 DEF RecoverStale, Put, StalePublications
  <1>2. CASE ClaimDue(w)
    BY <1>2 DEF ClaimDue, Claim, Put, DueLots
  <1>3. CASE FinishIteration(w)
    BY <1>3 DEF FinishIteration
  <1>4. ASSUME NEW l \in Lots, StartSending(w, l)
        PROVE  RowInv'
    BY <1>4 DEF StartSending
  <1>5. ASSUME NEW l \in Lots, ForceClaim(w, l)
        PROVE  RowInv'
    BY <1>5 DEF ForceClaim, Claim, Put
  <1>6. ASSUME NEW l \in Lots, ForceUnclaimed(w, l)
        PROVE  RowInv'
    BY <1>6 DEF ForceUnclaimed
  <1> QED
    BY <1>1, <1>2, <1>3, <1>4, <1>5, <1>6 DEF LoopStep

LEMMA DeliverRow ==
  ASSUME TypeOK, RowInv, NEW w \in Senders, Deliver(w) \/ SenderCrash(w)
  PROVE  RowInv'
  <1> USE LimitsAssumption DEF LimitsAssumption, TypeOK, RowTypes, TimeTypes, WorldTypes, SenderTypes,
              rowVars, timeVars, worldVars, senderVars, finalizerVars,
              RowInv, PublishedIffBound, AttemptBudget, BoundToOwnPost, Fresh, Answered,
              Published, Settled, Unsent, Moderatable, NoMsg, Msgs
  <1>1. CASE SendDelivered(w)
    BY <1>1 DEF SendDelivered, Post
  <1>2. CASE SendDeferred(w)
    BY <1>2 DEF SendDeferred, Post
  <1>3. CASE SendRefused(w)
    BY <1>3 DEF SendRefused, CallRaised
  <1>4. CASE SendReplyLost(w)
    BY <1>4 DEF SendReplyLost, CallRaised, Post
  <1>5. CASE MarkPublished(w)
    <2>1. slot[w] \in Lots /\ smsg[w] \in posts[slot[w]]
      BY <1>5 DEF MarkPublished
    <2>2. UNCHANGED <<discussion, attempts, posts>>
      BY <1>5 DEF MarkPublished
    <2>3. Answered'
      BY <1>5, <2>2 DEF MarkPublished, SenderDone
    <2>4. CASE status' = status /\ message' = message
      BY <2>2, <2>3, <2>4
    <2>5. CASE /\ status' = [status EXCEPT ![slot[w]] = "active"]
               /\ message' = [message EXCEPT ![slot[w]] = smsg[w]]
      <3>1. \A k \in Lots \ {slot[w]} : status'[k] = status[k] /\ message'[k] = message[k]
        BY <2>5
      <3>2. status'[slot[w]] = "active" /\ message'[slot[w]] = smsg[w]
        BY <2>1, <2>5
      <3>3. smsg[w] # NoMsg
        BY <2>1
      <3>4. ASSUME NEW k \in Lots
            PROVE  /\ status'[k] \in Published => message'[k] # NoMsg
                   /\ status'[k] \in Unsent => message'[k] = NoMsg
                   /\ status'[k] \in {"absent"} \cup Moderatable =>
                         message'[k] = NoMsg /\ attempts'[k] = 0
        BY <2>2, <3>1, <3>2, <3>3
      <3>5. ASSUME NEW k \in Lots
            PROVE  {message'[k], discussion'[k]} \subseteq posts'[k] \cup {NoMsg}
        BY <2>1, <2>2, <3>1, <3>2
      <3>6. ASSUME NEW k \in Lots
            PROVE  /\ attempts'[k] <= MaxAttempts
                   /\ status'[k] = "scheduled" => attempts'[k] < MaxAttempts
        BY <2>2, <3>1, <3>2
      <3> QED
        BY <2>3, <3>4, <3>5, <3>6
    <2> QED
      BY <1>5, <2>4, <2>5 DEF MarkPublished
  <1>6. CASE MarkDeferred(w)
    BY <1>6 DEF MarkDeferred, SenderDone
  <1>7. CASE MarkPublicationFailed(w)
    BY <1>7 DEF MarkPublicationFailed, SenderDone
  <1>8. CASE RecordLost(w)
    BY <1>8 DEF RecordLost, SenderDone
  <1>9. CASE SenderCrash(w)
    BY <1>9 DEF SenderCrash
  <1> QED
    BY <1>1, <1>2, <1>3, <1>4, <1>5, <1>6, <1>7, <1>8, <1>9 DEF Deliver

LEMMA FinalizeRow ==
  ASSUME TypeOK, RowInv, NEW f \in Finalizers, Finalize(f) \/ FinalizerCrash(f)
  PROVE  RowInv'
  <1> USE LimitsAssumption DEF LimitsAssumption, TypeOK, RowTypes, TimeTypes, WorldTypes, SenderTypes,
              rowVars, timeVars, worldVars, senderVars, finalizerVars,
              RowInv, PublishedIffBound, AttemptBudget, BoundToOwnPost, Fresh, Answered,
              Published, Settled, Unsent, Moderatable, NoMsg, Msgs
  <1>1. CASE FailStaleClaims(f)
    BY <1>1 DEF FailStaleClaims, Put, StaleFinalizations
  <1>2. CASE ClaimFinalization(f)
    BY <1>2 DEF ClaimFinalization, Put, EndedLots
  <1>3. CASE FinishSweep(f)
    BY <1>3 DEF FinishSweep
  <1>4. ASSUME NEW c \in held[f], Announce(f, c)
        PROVE  RowInv'
    BY <1>4 DEF Announce
  <1>5. ASSUME NEW c \in held[f], ReadBidsFailed(f, c)
        PROVE  RowInv'
    BY <1>5 DEF ReadBidsFailed
  <1>6. CASE MarkFinished(f)
    BY <1>6 DEF MarkFinished
  <1>7. CASE MarkFinishedLost(f)
    BY <1>7 DEF MarkFinishedLost
  <1>8. CASE MarkFinalizationFailed(f)
    BY <1>8 DEF MarkFinalizationFailed
  <1>9. CASE FinalizerCrash(f)
    BY <1>9 DEF FinalizerCrash
  <1> QED
    BY <1>1, <1>2, <1>3, <1>4, <1>5, <1>6, <1>7, <1>8, <1>9 DEF Finalize

\* The properties of the row, by induction over RowInv.
LEMMA RowInvariance == Spec => [](TypeOK /\ RowInv)
  <1>1. Init => RowInv
    BY InitRow
  <1>2. TypeOK /\ RowInv /\ [Next]_vars => RowInv'
    <2> SUFFICES ASSUME TypeOK, RowInv, [Next]_vars PROVE RowInv'
      OBVIOUS
    <2>1. CASE Next
      BY <2>1, PersonRow, EnvironmentRow, ClaimRow, DeliverRow, FinalizeRow
         DEF Next, Senders
    <2>2. CASE UNCHANGED vars
      BY <2>2 DEF vars, rowVars, timeVars, worldVars, senderVars, finalizerVars, RowInv,
                  PublishedIffBound, AttemptBudget, BoundToOwnPost, Fresh, Answered
    <2> QED
      BY <2>1, <2>2
  <1> QED
    BY <1>1, <1>2, TypesHold, PTL DEF Spec

\* For any number of publishers, forced publications and repairs: a lot that is
\* open or closed points at a post, one that can still be sent points at none.
THEOREM PublishedHasPost == Spec => []PublishedIffBound
  <1>1. RowInv => PublishedIffBound
    BY DEF RowInv
  <1> QED
    BY <1>1, RowInvariance, PTL

\* The retry limit of mark_publication_failed holds against every interleaving of
\* claims, late failures and requeues.
THEOREM RetriesAreBounded == Spec => []AttemptBudget
  <1>1. RowInv => AttemptBudget
    BY DEF RowInv
  <1> QED
    BY <1>1, RowInvariance, PTL

\* No id a row holds, however late it was written, is of another lot's post.
THEOREM IdsAreOwn == Spec => []BoundToOwnPost
  <1>1. RowInv => BoundToOwnPost
    BY DEF RowInv
  <1> QED
    BY <1>1, RowInvariance, PTL

\* A recorded channel post is replaced by an operator's decision only: neither a
\* late publisher nor a late forwarded post takes its place.
THEOREM IdsStay == Spec => MessageStable
  <1> DEFINE Kept == \A l \in Lots : message[l] \notin {NoMsg, message'[l]}
                                    => decisions' > decisions
  <1>1. TypeOK /\ [Next]_vars => [\A l \in Lots : message[l] \notin {NoMsg, message'[l]}
                                              => decisions' > decisions]_vars
    <2> SUFFICES ASSUME TypeOK, Next PROVE Kept
      OBVIOUS
    <2> USE DEF rowVars
    <2>1. ASSUME NEW l \in Lots, NEW m \in Msgs, NEW d \in Msgs \cup {NoMsg},
                 RepairPublished(l, m, d)
          PROVE  Kept
      BY <2>1 DEF RepairPublished, Spend, TypeOK, WorldTypes
    <2>2. ASSUME NEW l \in Lots, NEW m \in Msgs, ConfirmPublication(l, m)
          PROVE  Kept
      BY <2>2 DEF ConfirmPublication, BindRow, TypeOK, RowTypes
    <2>3. ASSUME NEW w \in Senders, MarkPublished(w)
          PROVE  Kept
      BY <2>3 DEF MarkPublished, TypeOK, RowTypes
    <2>4. ASSUME NEW l \in Lots, Person(l),
                 ~ \E m \in Msgs, d \in Msgs \cup {NoMsg} : RepairPublished(l, m, d)
          PROVE  message' = message
      BY <2>4 DEF Person, CreatePending, Schedule, Reject, CancelByModerator, CancelByOwner,
                  RequeuePublication, RescheduleUnpublished, ReschedulePublished, Restart,
                  Reopen, FinishNow, RepairRequeue
    <2>5. ASSUME NEW l \in Lots, NEW m \in Msgs, BindByMessage(l, m) \/ BindByAuction(l, m)
          PROVE  message' = message
      BY <2>5 DEF BindByMessage, BindByAuction
    <2>6. ASSUME NEW l \in Lots, Clock(l)
          PROVE  message' = message
      BY <2>6 DEF Clock, TimePasses, RetryElapses, LeaseExpires
    <2>7. ASSUME NEW S \in SUBSET Lots, ReleaseStale(S) \/ AutoFinish(S)
          PROVE  message' = message
      BY <2>7 DEF ReleaseStale, AutoFinish
    <2>8. ASSUME NEW w \in Senders,
                 \/ LoopStep(w)
                 \/ \E l \in Lots : ForceClaim(w, l) \/ ForceUnclaimed(w, l)
          PROVE  message' = message
      BY <2>8 DEF LoopStep, RecoverStale, ClaimDue, FinishIteration, StartSending,
                  ForceClaim, ForceUnclaimed
    <2>9. ASSUME NEW w \in Senders, Deliver(w) \/ SenderCrash(w), ~MarkPublished(w)
          PROVE  message' = message
      BY <2>9 DEF Deliver, SendDelivered, SendDeferred, SendRefused, SendReplyLost,
                  MarkDeferred, MarkPublicationFailed, RecordLost, SenderCrash
    <2>10. ASSUME NEW f \in Finalizers, Finalize(f) \/ FinalizerCrash(f)
           PROVE  message' = message
      BY <2>10 DEF Finalize, FailStaleClaims, ClaimFinalization, FinishSweep, Announce,
                   ReadBidsFailed, MarkFinished, MarkFinishedLost, MarkFinalizationFailed,
                   FinalizerCrash
    <2>11. message' = message => Kept
      OBVIOUS
    <2> QED
      BY <2>1, <2>2, <2>3, <2>4, <2>5, <2>6, <2>7, <2>8, <2>9, <2>10, <2>11
         DEF Next, Senders, Userbot
  <1> QED
    BY <1>1, TypesHold, PTL DEF Spec, MessageStable

-------------------------------------------------------------------------------
(* The result of a round *)

\* What a lot's status can be once the current round was claimed for its result
Over == {"finalizing", "finalization_failed", "finished", "cancelled"}

\* A round someone holds or has announced is past, or it is the current one and
\* the lot has left "active": reopening it starts another round.
RoundsOver ==
    /\ \A f \in Finalizers : \A c \in held[f] :
          /\ c[2] <= round[c[1]]
          /\ c[2] = round[c[1]] => status[c[1]] \in Over
    /\ \A l \in Lots : \A r \in announced[l] :
          /\ r <= round[l]
          /\ r = round[l] => status[l] \in Over

RoundInv == OneAnnouncementPerRound /\ RoundsOver

LEMMA InitRound == Init => RoundInv
  BY DEF Init, RoundInv, OneAnnouncementPerRound, RoundsOver

LEMMA PersonRound ==
  ASSUME TypeOK, RoundInv, NEW l \in Lots, Person(l)
  PROVE  RoundInv'
  <1> USE DEF TypeOK, RowTypes, WorldTypes, FinalizerTypes, Claims,
              rowVars, timeVars, worldVars, senderVars, finalizerVars,
              RoundInv, OneAnnouncementPerRound, RoundsOver, Over,
              Published, Settled, Unsent, Moderatable
  <1>1. CASE CreatePending(l)
    BY <1>1 DEF CreatePending
  <1>2. CASE Schedule(l)
    BY <1>2 DEF Schedule
  <1>3. CASE Reject(l)
    BY <1>3 DEF Reject
  <1>4. CASE CancelByModerator(l)
    BY <1>4 DEF CancelByModerator
  <1>5. CASE CancelByOwner(l)
    BY <1>5 DEF CancelByOwner
  <1>6. CASE RequeuePublication(l)
    BY <1>6 DEF RequeuePublication, Spend
  <1>7. CASE RescheduleUnpublished(l)
    BY <1>7 DEF RescheduleUnpublished, Spend
  <1>8. CASE ReschedulePublished(l)
    BY <1>8 DEF ReschedulePublished, Reopen, Spend
  <1>9. CASE Restart(l)
    BY <1>9 DEF Restart, Reopen, Spend
  <1>10. CASE FinishNow(l)
    BY <1>10 DEF FinishNow
  <1>11. CASE RepairRequeue(l)
    BY <1>11 DEF RepairRequeue, Spend
  <1>12. ASSUME NEW m \in Msgs, NEW d \in Msgs \cup {NoMsg}, RepairPublished(l, m, d)
        PROVE  RoundInv'
    BY <1>12 DEF RepairPublished, BindRow, Spend
  <1> QED
    BY <1>1, <1>2, <1>3, <1>4, <1>5, <1>6, <1>7, <1>8, <1>9, <1>10, <1>11, <1>12 DEF Person

LEMMA EnvironmentRound ==
  ASSUME TypeOK, RoundInv, 
         \/ \E l \in Lots : Userbot(l) \/ Clock(l)
         \/ \E S \in SUBSET Lots : ReleaseStale(S) \/ AutoFinish(S)
  PROVE  RoundInv'
  <1> USE DEF TypeOK, RowTypes, WorldTypes, FinalizerTypes, Claims,
              rowVars, timeVars, worldVars, senderVars, finalizerVars,
              RoundInv, OneAnnouncementPerRound, RoundsOver, Over,
              Published, Settled, Unsent, Moderatable
  <1>1. ASSUME NEW l \in Lots, NEW m \in Msgs, ConfirmPublication(l, m)
        PROVE  RoundInv'
    BY <1>1 DEF ConfirmPublication, BindRow
  <1>2. ASSUME NEW l \in Lots, NEW m \in Msgs, BindByMessage(l, m)
        PROVE  RoundInv'
    BY <1>2 DEF BindByMessage
  <1>3. ASSUME NEW l \in Lots, NEW m \in Msgs, BindByAuction(l, m)
        PROVE  RoundInv'
    BY <1>3 DEF BindByAuction
  <1>4. ASSUME NEW l \in Lots, TimePasses(l)
        PROVE  RoundInv'
    BY <1>4 DEF TimePasses
  <1>5. ASSUME NEW l \in Lots, RetryElapses(l)
        PROVE  RoundInv'
    BY <1>5 DEF RetryElapses
  <1>6. ASSUME NEW l \in Lots, LeaseExpires(l)
        PROVE  RoundInv'
    BY <1>6 DEF LeaseExpires
  <1>7. ASSUME NEW S \in SUBSET Lots, ReleaseStale(S)
        PROVE  RoundInv'
    BY <1>7 DEF ReleaseStale, Put
  <1>8. ASSUME NEW S \in SUBSET Lots, AutoFinish(S)
        PROVE  RoundInv'
    BY <1>8 DEF AutoFinish, Put
  <1> QED
    BY <1>1, <1>2, <1>3, <1>4, <1>5, <1>6, <1>7, <1>8 DEF Userbot, Clock

LEMMA ClaimRound ==
  ASSUME TypeOK, RoundInv, NEW w \in Senders,
         \/ LoopStep(w)
         \/ \E l \in Lots : ForceClaim(w, l) \/ ForceUnclaimed(w, l)
  PROVE  RoundInv'
  <1> USE DEF TypeOK, RowTypes, WorldTypes, FinalizerTypes, Claims,
              rowVars, timeVars, worldVars, senderVars, finalizerVars,
              RoundInv, OneAnnouncementPerRound, RoundsOver, Over,
              Published, Settled, Unsent, Moderatable
  <1>1. CASE RecoverStale(w)
    BY <1>1 DEF RecoverStale, Put, StalePublications
  <1>2. CASE ClaimDue(w)
    BY <1>2 DEF ClaimDue, Claim, Put, DueLots
  <1>3. CASE FinishIteration(w)
    BY <1>3 DEF FinishIteration
  <1>4. ASSUME NEW l \in Lots, StartSending(w, l)
        PROVE  RoundInv'
    BY <1>4 DEF StartSending
  <1>5. ASSUME NEW l \in Lots, ForceClaim(w, l)
        PROVE  RoundInv'
    BY <1>5 DEF ForceClaim, Claim, Put
  <1>6. ASSUME NEW l \in Lots, ForceUnclaimed(w, l)
        PROVE  RoundInv'
    BY <1>6 DEF ForceUnclaimed
  <1> QED
    BY <1>1, <1>2, <1>3, <1>4, <1>5, <1>6 DEF LoopStep

LEMMA DeliverRound ==
  ASSUME TypeOK, RoundInv, NEW w \in Senders, Deliver(w) \/ SenderCrash(w)
  PROVE  RoundInv'
  <1> USE DEF TypeOK, RowTypes, WorldTypes, FinalizerTypes, Claims,
              rowVars, timeVars, worldVars, senderVars, finalizerVars,
              RoundInv, OneAnnouncementPerRound, RoundsOver, Over,
              Published, Settled, Unsent, Moderatable
  <1>1. CASE SendDelivered(w)
    BY <1>1 DEF SendDelivered, Post
  <1>2. CASE SendDeferred(w)
    BY <1>2 DEF SendDeferred, Post
  <1>3. CASE SendRefused(w)
    BY <1>3 DEF SendRefused, CallRaised
  <1>4. CASE SendReplyLost(w)
    BY <1>4 DEF SendReplyLost, CallRaised, Post
  <1>5. CASE MarkPublished(w)
    <2>1. \A k \in Lots : \/ round'[k] = round[k] /\ status'[k] = status[k]
                          \/ round'[k] = round[k] + 1
      BY <1>5 DEF MarkPublished
    <2>2. announced' = announced /\ held' = held
      BY <1>5 DEF MarkPublished
    <2>3. OneAnnouncementPerRound'
      BY <2>2
    <2>4. round' \in [Lots -> Nat]
      BY <1>5 DEF MarkPublished
    <2>5. ASSUME NEW g \in Finalizers, NEW c \in held'[g]
          PROVE  c[2] <= round'[c[1]] /\ (c[2] = round'[c[1]] => status'[c[1]] \in Over)
      <3>1. c \in held[g] /\ c[1] \in Lots /\ c[2] \in Nat
        BY <2>2
      <3> QED
        BY <2>1, <3>1
    <2>6. ASSUME NEW k \in Lots, NEW r \in announced'[k]
          PROVE  r <= round'[k] /\ (r = round'[k] => status'[k] \in Over)
      <3>1. r \in announced[k] /\ r \in Nat
        BY <2>2
      <3> QED
        BY <2>1, <3>1
    <2> QED
      BY <2>3, <2>5, <2>6
  <1>6. CASE MarkDeferred(w)
    <2>1. \A k \in Lots : status[k] \in Over => status'[k] = status[k]
      BY <1>6 DEF MarkDeferred
    <2>2. UNCHANGED <<round, announced, held>>
      BY <1>6 DEF MarkDeferred
    <2> QED
      BY <2>1, <2>2
  <1>7. CASE MarkPublicationFailed(w)
    <2>1. \A k \in Lots : status[k] \in Over => status'[k] = status[k]
      BY <1>7 DEF MarkPublicationFailed
    <2>2. UNCHANGED <<round, announced, held>>
      BY <1>7 DEF MarkPublicationFailed
    <2> QED
      BY <2>1, <2>2
  <1>8. CASE RecordLost(w)
    BY <1>8 DEF RecordLost, SenderDone
  <1>9. CASE SenderCrash(w)
    BY <1>9 DEF SenderCrash
  <1> QED
    BY <1>1, <1>2, <1>3, <1>4, <1>5, <1>6, <1>7, <1>8, <1>9 DEF Deliver

LEMMA FinalizeRound ==
  ASSUME TypeOK, RoundInv, NEW f \in Finalizers, Finalize(f) \/ FinalizerCrash(f)
  PROVE  RoundInv'
  <1> USE DEF TypeOK, RowTypes, WorldTypes, FinalizerTypes, Claims,
              rowVars, timeVars, worldVars, senderVars, finalizerVars,
              RoundInv, OneAnnouncementPerRound, RoundsOver, Over,
              Published, Settled, Unsent, Moderatable
  <1>1. CASE FailStaleClaims(f)
    BY <1>1 DEF FailStaleClaims, Put, StaleFinalizations
  <1>2. CASE ClaimFinalization(f)
    BY <1>2 DEF ClaimFinalization, Put, EndedLots
  <1>3. CASE FinishSweep(f)
    BY <1>3 DEF FinishSweep
  <1>4. ASSUME NEW c \in held[f], Announce(f, c)
        PROVE  RoundInv'
    BY <1>4 DEF Announce
  <1>5. ASSUME NEW c \in held[f], ReadBidsFailed(f, c)
        PROVE  RoundInv'
    BY <1>5 DEF ReadBidsFailed
  <1>6. CASE MarkFinished(f)
    BY <1>6 DEF MarkFinished
  <1>7. CASE MarkFinishedLost(f)
    BY <1>7 DEF MarkFinishedLost
  <1>8. CASE MarkFinalizationFailed(f)
    BY <1>8 DEF MarkFinalizationFailed
  <1>9. CASE FinalizerCrash(f)
    BY <1>9 DEF FinalizerCrash
  <1> QED
    BY <1>1, <1>2, <1>3, <1>4, <1>5, <1>6, <1>7, <1>8, <1>9 DEF Finalize

\* With any number of finalization loops, crashes, expired leases and reopened
\* rounds, the announcer runs at most once for the result of a round.
THEOREM AnnouncedAtMostOnce == Spec => []OneAnnouncementPerRound
  <1>1. Init => RoundInv
    BY InitRound
  <1>2. TypeOK /\ RoundInv /\ [Next]_vars => RoundInv'
    <2> SUFFICES ASSUME TypeOK, RoundInv, [Next]_vars PROVE RoundInv'
      OBVIOUS
    <2>1. CASE Next
      BY <2>1, PersonRound, EnvironmentRound, ClaimRound, DeliverRound, FinalizeRound
         DEF Next, Senders
    <2>2. CASE UNCHANGED vars
      BY <2>2 DEF vars, rowVars, worldVars, finalizerVars, RoundInv,
                  OneAnnouncementPerRound, RoundsOver
    <2> QED
      BY <2>1, <2>2
  <1>3. RoundInv => OneAnnouncementPerRound
    BY DEF RoundInv
  <1> QED
    BY <1>1, <1>2, <1>3, TypesHold, PTL DEF Spec

-------------------------------------------------------------------------------
(* What the schedule has to know *)

\* No statement writes the other statuses that enums.AuctionStatus has.
NeverWritten == \A l \in Lots : status[l] \notin {"draft", "approved", "moderation"}

Goes(l, from, to) == status[l] \in from /\ status'[l] \in to

\* Every way a statement other than schedule changes the status of a lot
Walks(l) ==
    \/ status'[l] = status[l]
    \/ Goes(l, {"absent"}, {"pending"})
    \/ Goes(l, {"pending"}, {"rejected"})
    \/ Goes(l, {"pending", "scheduled", "publication_failed", "active",
                "finalization_failed"}, {"cancelled"})
    \/ Goes(l, {"scheduled"}, {"publishing"})
    \/ Goes(l, {"scheduled", "publishing"}, {"publication_failed"})
    \/ Goes(l, {"publishing"}, {"publication_deferred"})
    \/ Goes(l, Unsent, {"scheduled", "active"})
    \/ Goes(l, {"active"}, {"finalizing", "finished"})
    \/ Goes(l, {"finalizing"}, {"finished", "finalization_failed"})
    \/ Goes(l, {"finished", "finalization_failed"}, {"active"})

Follows(l) ==
    CalendarStatus(l)' \in {CalendarStatus(l)} \cup Slots!After[CalendarStatus(l)]

\* One step of any kind that is not an approval
Strolls == NeverWritten' /\ \A l \in Lots : Walks(l)

LEMMA AfterHasWalks ==
  ASSUME NEW l \in Lots, Walks(l)
  PROVE  Follows(l)
  <1> USE DEF Follows, CalendarStatus, Moderatable, Goes
  <1>1. CASE status'[l] = status[l]
    BY <1>1
  <1>2. CASE Goes(l, {"absent"}, {"pending"})
    BY <1>2
  <1>3. CASE Goes(l, {"pending"}, {"rejected"})
    BY <1>3 DEF Slots!After
  <1>4. CASE Goes(l, {"pending", "scheduled", "publication_failed", "active",
                      "finalization_failed"}, {"cancelled"})
    BY <1>4 DEF Slots!After
  <1>5. CASE Goes(l, {"scheduled"}, {"publishing"})
    BY <1>5 DEF Slots!After
  <1>6. CASE Goes(l, {"scheduled", "publishing"}, {"publication_failed"})
    BY <1>6 DEF Slots!After
  <1>7. CASE Goes(l, {"publishing"}, {"publication_deferred"})
    BY <1>7 DEF Slots!After
  <1>8. CASE Goes(l, Unsent, {"scheduled", "active"})
    BY <1>8 DEF Slots!After, Unsent
  <1>9. CASE Goes(l, {"active"}, {"finalizing", "finished"})
    BY <1>9 DEF Slots!After
  <1>10. CASE Goes(l, {"finalizing"}, {"finished", "finalization_failed"})
    BY <1>10 DEF Slots!After
  <1>11. CASE Goes(l, {"finished", "finalization_failed"}, {"active"})
    BY <1>11 DEF Slots!After
  <1> QED
    BY <1>1, <1>2, <1>3, <1>4, <1>5, <1>6, <1>7, <1>8, <1>9, <1>10, <1>11 DEF Walks

LEMMA PersonStrolls ==
  ASSUME TypeOK, NeverWritten, NEW l \in Lots, Person(l)
  PROVE  \/ Strolls
         \/ Schedule(l) /\ NeverWritten' /\ \A k \in Lots \ {l} : Walks(k)
  <1> USE DEF TypeOK, RowTypes, Strolls, NeverWritten, Walks, Goes, rowVars,
              Moderatable, Unsent, Settled, Published
  <1>1. CASE CreatePending(l)
    BY <1>1 DEF CreatePending
  <1>2. CASE Schedule(l)
    BY <1>2 DEF Schedule
  <1>3. CASE Reject(l)
    BY <1>3 DEF Reject
  <1>4. CASE CancelByModerator(l)
    BY <1>4 DEF CancelByModerator
  <1>5. CASE CancelByOwner(l)
    BY <1>5 DEF CancelByOwner
  <1>6. CASE RequeuePublication(l)
    BY <1>6 DEF RequeuePublication
  <1>7. CASE RescheduleUnpublished(l)
    BY <1>7 DEF RescheduleUnpublished
  <1>8. CASE ReschedulePublished(l)
    BY <1>8 DEF ReschedulePublished, Reopen
  <1>9. CASE Restart(l)
    BY <1>9 DEF Restart, Reopen
  <1>10. CASE FinishNow(l)
    BY <1>10 DEF FinishNow
  <1>11. CASE RepairRequeue(l)
    BY <1>11 DEF RepairRequeue
  <1>12. ASSUME NEW m \in Msgs, NEW d \in Msgs \cup {NoMsg}, RepairPublished(l, m, d)
         PROVE  Strolls
    BY <1>12 DEF RepairPublished, BindRow
  <1> QED
    BY <1>1, <1>2, <1>3, <1>4, <1>5, <1>6, <1>7, <1>8, <1>9, <1>10, <1>11, <1>12
       DEF Person

LEMMA EnvironmentStrolls ==
  ASSUME TypeOK, NeverWritten,
         \/ \E l \in Lots : Userbot(l) \/ Clock(l)
         \/ \E S \in SUBSET Lots : ReleaseStale(S) \/ AutoFinish(S)
  PROVE  Strolls
  <1> USE DEF TypeOK, RowTypes, Strolls, NeverWritten, Walks, Goes, rowVars
  <1>1. ASSUME NEW l \in Lots, NEW m \in Msgs, ConfirmPublication(l, m)
        PROVE  Strolls
    BY <1>1 DEF ConfirmPublication, BindRow, Unsent, Settled, Published
  <1>2. ASSUME NEW l \in Lots, Clock(l) \/ \E m \in Msgs : BindByMessage(l, m) \/ BindByAuction(l, m)
        PROVE  Strolls
    BY <1>2 DEF BindByMessage, BindByAuction, Clock, TimePasses, RetryElapses, LeaseExpires
  <1>3. ASSUME NEW S \in SUBSET Lots, ReleaseStale(S)
        PROVE  Strolls
    BY <1>3 DEF ReleaseStale, Put
  <1>4. ASSUME NEW S \in SUBSET Lots, AutoFinish(S)
        PROVE  Strolls
    BY <1>4 DEF AutoFinish, Put
  <1> QED
    BY <1>1, <1>2, <1>3, <1>4 DEF Userbot

LEMMA SenderStrolls ==
  ASSUME TypeOK, RowInv, NeverWritten, NEW w \in Senders,
         \/ LoopStep(w) \/ Deliver(w) \/ SenderCrash(w)
         \/ \E l \in Lots : ForceClaim(w, l) \/ ForceUnclaimed(w, l)
  PROVE  Strolls
  <1> USE DEF TypeOK, RowTypes, Strolls, NeverWritten, Walks, Goes, rowVars, Unsent
  <1>1. CASE RecoverStale(w)
    BY <1>1 DEF RecoverStale, Put, StalePublications
  <1>2. CASE ClaimDue(w)
    BY <1>2 DEF ClaimDue, Claim, Put, DueLots
  <1>3. ASSUME NEW l \in Lots, ForceClaim(w, l)
        PROVE  Strolls
    BY <1>3 DEF ForceClaim, Claim, Put
  <1>4. ASSUME spc[w] \in {"sent", "deferred", "failed"}
        PROVE  slot[w] \in Lots
    BY <1>4 DEF RowInv, Answered
  <1>5. CASE MarkPublished(w)
    BY <1>4, <1>5 DEF MarkPublished
  <1>6. CASE MarkDeferred(w)
    BY <1>4, <1>6 DEF MarkDeferred
  <1>7. CASE MarkPublicationFailed(w)
    BY <1>4, <1>7 DEF MarkPublicationFailed
  <1>8. CASE \/ FinishIteration(w) \/ SenderCrash(w) \/ RecordLost(w)
             \/ SendDelivered(w) \/ SendDeferred(w) \/ SendRefused(w) \/ SendReplyLost(w)
             \/ \E l \in Lots : StartSending(w, l) \/ ForceUnclaimed(w, l)
    BY <1>8 DEF FinishIteration, SenderCrash, RecordLost, SendDelivered, SendDeferred,
                SendRefused, SendReplyLost, StartSending, ForceUnclaimed
  <1> QED
    BY <1>1, <1>2, <1>3, <1>5, <1>6, <1>7, <1>8 DEF LoopStep, Deliver

LEMMA FinalizeStrolls ==
  ASSUME TypeOK, NeverWritten, NEW f \in Finalizers, Finalize(f) \/ FinalizerCrash(f)
  PROVE  Strolls
  <1> USE DEF TypeOK, RowTypes, Strolls, NeverWritten, Walks, Goes, rowVars
  <1>1. CASE FailStaleClaims(f)
    BY <1>1 DEF FailStaleClaims, Put, StaleFinalizations
  <1>2. CASE ClaimFinalization(f)
    BY <1>2 DEF ClaimFinalization, Put, EndedLots
  <1>3. CASE MarkFinished(f)
    BY <1>3 DEF MarkFinished
  <1>4. CASE MarkFinalizationFailed(f)
    BY <1>4 DEF MarkFinalizationFailed
  <1>5. CASE \/ FinishSweep(f) \/ MarkFinishedLost(f) \/ FinalizerCrash(f)
             \/ \E c \in held[f] : Announce(f, c) \/ ReadBidsFailed(f, c)
    BY <1>5 DEF FinishSweep, MarkFinishedLost, FinalizerCrash, Announce, ReadBidsFailed
  <1> QED
    BY <1>1, <1>2, <1>3, <1>4, <1>5 DEF Finalize

LEMMA StepStrolls ==
  ASSUME TypeOK, RowInv, NeverWritten, [Next]_vars
  PROVE  \/ Strolls
         \/ \E l \in Lots : /\ Schedule(l)
                            /\ NeverWritten'
                            /\ \A k \in Lots \ {l} : Walks(k)
  <1>1. CASE UNCHANGED vars
    BY <1>1 DEF vars, rowVars, Strolls, NeverWritten, Walks
  <1>2. CASE Next
    BY <1>2, PersonStrolls, EnvironmentStrolls, SenderStrolls, FinalizeStrolls DEF Next, Senders
  <1> QED
    BY <1>1, <1>2

\* An approval and the two kinds of move, with the status before them.  A scheduled lot
\* has no post and an open one has: the module of the schedule sees the status only.
LEMMA CallsKnown ==
  ASSUME TypeOK, RowInv, NeverWritten, NEW l \in Lots
  PROVE  /\ Schedule(l) => Moves(l, {"pending"}, "scheduled")
         /\ RescheduleUnpublished(l) => Moves(l, Slots!Unpublished, "scheduled")
         /\ ReschedulePublished(l) => Moves(l, Slots!Published, "active")
  <1> USE DEF TypeOK, RowTypes, NeverWritten, Moves, CalendarStatus, Moderatable
  <1>1. ASSUME Schedule(l)
        PROVE  Moves(l, {"pending"}, "scheduled")
    BY <1>1 DEF Schedule
  <1>2. ASSUME RescheduleUnpublished(l)
        PROVE  Moves(l, Slots!Unpublished, "scheduled")
    BY <1>2 DEF RescheduleUnpublished, Slots!Unpublished
  <1>3. ASSUME ReschedulePublished(l)
        PROVE  Moves(l, Slots!Published, "active")
    <2>1. status[l] # "scheduled"
      BY <1>3 DEF ReschedulePublished, RowInv, PublishedIffBound, Unsent
    <2> QED
      BY <1>3, <2>1 DEF ReschedulePublished, Reopen, Slots!Published
  <1> QED
    BY <1>1, <1>2, <1>3

\* For any number of workers, lots and decisions: SlotScheduling leaves out no statement
\* that changes a status, and needs to know of a lot's post only what its status tells.
THEOREM ScheduleKnowsAll == Spec => KnownToSchedule
  <1>1. Init => NeverWritten
    BY DEF Init, NeverWritten
  <1>2. TypeOK /\ RowInv /\ NeverWritten /\ [Next]_vars => NeverWritten'
    BY StepStrolls DEF Strolls
  <1> DEFINE Known ==
        \A l \in Lots :
          /\ \/ Schedule(l)
             \/ CalendarStatus(l)' \in {CalendarStatus(l)} \cup Slots!After[CalendarStatus(l)]
          /\ Schedule(l) => Moves(l, {"pending"}, "scheduled")
          /\ RescheduleUnpublished(l) => Moves(l, Slots!Unpublished, "scheduled")
          /\ ReschedulePublished(l) => Moves(l, Slots!Published, "active")
  <1>3. TypeOK /\ RowInv /\ NeverWritten /\ [Next]_vars => Known
    <2> SUFFICES ASSUME TypeOK, RowInv, NeverWritten, [Next]_vars, NEW l \in Lots
                 PROVE  /\ \/ Schedule(l)
                           \/ CalendarStatus(l)'
                                \in {CalendarStatus(l)} \cup Slots!After[CalendarStatus(l)]
                        /\ Schedule(l) => Moves(l, {"pending"}, "scheduled")
                        /\ RescheduleUnpublished(l) => Moves(l, Slots!Unpublished, "scheduled")
                        /\ ReschedulePublished(l) => Moves(l, Slots!Published, "active")
      OBVIOUS
    <2>1. Schedule(l) \/ Walks(l)
      BY StepStrolls DEF Strolls
    <2>2. Schedule(l) \/ Follows(l)
      BY <2>1, AfterHasWalks
    <2> QED
      BY <2>2, CallsKnown DEF Follows
  <1>4. TypeOK /\ RowInv /\ NeverWritten /\ [Next]_vars => [Known]_vars
    BY <1>3
  <1> QED
    BY <1>1, <1>2, <1>4, RowInvariance, PTL DEF Spec, KnownToSchedule

===============================================================================
