------------------------- MODULE AuctionAutonomyProofs -------------------------
(* What the bots of AuctionLifecycle achieve by themselves: theorems about   *)
(* any number of publisher loops, crashes and expired leases, as long as     *)
(* nobody sends a lot back or forces its publication.                        *)
EXTENDS AuctionLifecycleProofs, FiniteSetTheorems

\* A worker still means to send l, or is sending it, or has not recorded it yet.
Holds(w, l) == l \in batch[w] \/ Sending(w, l)

\* A lot no publisher has claimed, or one that a failed attempt has put back.
Waiting(l) == status[l] \in {"absent", "scheduled"} \cup Moderatable

\* A claim has one holder until he has recorded its outcome.  A claim that was
\* taken away from him leaves the lot where no other worker can claim it.
HolderInv ==
    /\ \A l \in Lots : \A v, w \in Senders : Holds(v, l) /\ Holds(w, l) => v = w
    /\ \A l \in Lots : Waiting(l) => \A w \in Senders : ~Holds(w, l)
    /\ \A l \in Lots : \A w \in Senders : Sending(w, l) => l \notin batch[w]

\* Whoever still may send a lot has not sent it yet, and nobody before him.
MaySend(w, l) == l \in batch[w] \/ (slot[w] = l /\ spc[w] \in {"send", "failed"})

\* A lot that can still be sent has no post, and no lot has two.
PostInv ==
    /\ \A l \in Lots : posts[l] = {} \/ \E m \in Msgs : posts[l] = {m}
    /\ \A l \in Lots : unreviewed[l] => posts[l] # {}
    /\ \A l \in Lots : Waiting(l) => posts[l] = {}
    /\ \A l \in Lots : \A w \in Senders : MaySend(w, l) => posts[l] = {}

-------------------------------------------------------------------------------
(* Steps that concern no publisher *)

\* Nobody sends a lot back: what is claimed once does not wait again.
Bystander ==
    /\ UNCHANGED <<senderVars, posts, unreviewed>>
    /\ \A l \in Lots : Waiting(l)' => Waiting(l)

LEMMA PersonStandsBy ==
  ASSUME MaxDecisions = 0, TypeOK, NEW l \in Lots, Person(l)
  PROVE  Bystander
  <1>1. ~Spend
    BY DEF Spend, TypeOK, WorldTypes
  <1> USE DEF Bystander, Waiting, Moderatable, worldVars, TypeOK, RowTypes
  <1> QED
    BY <1>1 DEF Person, CreatePending, Schedule, Reject, CancelByModerator,
       CancelByOwner, RequeuePublication, RescheduleUnpublished, ReschedulePublished,
       Restart, Reopen, FinishNow, RepairRequeue, RepairPublished

LEMMA EnvironmentStandsBy ==
  ASSUME TypeOK,
         \/ \E l \in Lots : Userbot(l) \/ Clock(l)
         \/ \E S \in SUBSET Lots : ReleaseStale(S) \/ AutoFinish(S)
  PROVE  Bystander
  <1> USE DEF Bystander, Waiting, Moderatable, worldVars, rowVars, TypeOK, RowTypes
  <1>1. ASSUME NEW l \in Lots, Userbot(l)
        PROVE  Bystander
    BY <1>1 DEF Userbot, ConfirmPublication, BindRow, BindByMessage, BindByAuction
  <1>2. ASSUME NEW l \in Lots, Clock(l)
        PROVE  Bystander
    BY <1>2 DEF Clock, TimePasses, RetryElapses, LeaseExpires
  <1>3. ASSUME NEW S \in SUBSET Lots, ReleaseStale(S) \/ AutoFinish(S)
        PROVE  Bystander
    BY <1>3 DEF ReleaseStale, AutoFinish, Put
  <1> QED
    BY <1>1, <1>2, <1>3

LEMMA FinalizerStandsBy ==
  ASSUME TypeOK, NEW f \in Finalizers, Finalize(f) \/ FinalizerCrash(f)
  PROVE  Bystander
  <1> USE DEF Bystander, Waiting, Moderatable, worldVars, rowVars, TypeOK, RowTypes
  <1>1. ASSUME NEW c \in held[f], Announce(f, c) \/ ReadBidsFailed(f, c)
        PROVE  Bystander
    BY <1>1 DEF Announce, ReadBidsFailed
  <1>2. CASE FailStaleClaims(f) \/ ClaimFinalization(f) \/ FinishSweep(f)
    BY <1>2 DEF FailStaleClaims, ClaimFinalization, FinishSweep, Put
  <1>3. CASE MarkFinished(f) \/ MarkFinishedLost(f) \/ MarkFinalizationFailed(f)
    BY <1>3 DEF MarkFinished, MarkFinishedLost, MarkFinalizationFailed
  <1>4. CASE FinalizerCrash(f)
    BY <1>4 DEF FinalizerCrash
  <1> QED
    BY <1>1, <1>2, <1>3, <1>4 DEF Finalize

-------------------------------------------------------------------------------
(* A claim has one holder *)

LEMMA InitHolder == Init => HolderInv
  BY DEF Init, HolderInv, Holds, Sending

LEMMA BystanderHolder ==
  ASSUME HolderInv, Bystander
  PROVE  HolderInv'
  BY DEF HolderInv, Bystander, Holds, Sending, senderVars

\* New holders only of lots that waited and no longer do; lots that wait again only
\* where nobody is left to hold them.
LEMMA HolderKept ==
  ASSUME HolderInv, NEW w \in Senders, NEW S \in SUBSET Lots,
         \A l \in S : Waiting(l) /\ ~Waiting(l)',
         \A l \in Lots, v \in Senders : Holds(v, l)' => Holds(v, l) \/ (v = w /\ l \in S),
         \A l \in Lots : Waiting(l)' => Waiting(l) \/ \A v \in Senders : ~Holds(v, l)',
         \A l \in Lots, v \in Senders : Sending(v, l)' => l \notin batch'[v]
  PROVE  HolderInv'
  BY DEF HolderInv

LEMMA LoopHolder ==
  ASSUME TypeOK, HolderInv, NEW w \in Senders, LoopStep(w)
  PROVE  HolderInv'
  <1> USE DEF Holds, Sending, Waiting, Moderatable, TypeOK, RowTypes, SenderTypes, rowVars, Put
  <1>1. CASE RecoverStale(w)
    BY <1>1 DEF RecoverStale, HolderInv
  <1>2. CASE ClaimDue(w)
    <2>1. PICK S \in SUBSET DueLots : Claim(S) /\ batch' = [batch EXCEPT ![w] = S]
      BY <1>2 DEF ClaimDue
    <2>2. S \in SUBSET Lots /\ \A l \in S : Waiting(l) /\ ~Waiting(l)'
      BY <2>1 DEF DueLots, Claim
    <2>3. \A l \in Lots : Waiting(l)' => Waiting(l)
      BY <2>1 DEF Claim
    <2>4. \A l \in Lots, v \in Senders : Holds(v, l)' => Holds(v, l) \/ (v = w /\ l \in S)
      BY <1>2, <2>1 DEF ClaimDue
    <2>5. \A l \in Lots, v \in Senders : Sending(v, l)' => l \notin batch'[v]
      BY <1>2, <2>1 DEF ClaimDue, HolderInv
    <2>6. \A l \in Lots : Waiting(l)' => \A v \in Senders : ~Holds(v, l)'
      <3> HIDE DEF Waiting, Holds
      <3> QED
        BY <2>2, <2>3, <2>4 DEF HolderInv
    <2> HIDE DEF Holds, Sending, Waiting
    <2> QED
      BY <2>2, <2>4, <2>5, <2>6, HolderKept
  <1>3. CASE FinishIteration(w)
    BY <1>3 DEF FinishIteration, HolderInv
  <1>4. ASSUME NEW l \in Lots, StartSending(w, l)
        PROVE  HolderInv'
    BY <1>4 DEF StartSending, HolderInv
  <1> QED
    BY <1>1, <1>2, <1>3, <1>4 DEF LoopStep

LEMMA DeliverHolder ==
  ASSUME TypeOK, RowInv, HolderInv, NEW w \in Senders, Deliver(w) \/ SenderCrash(w)
  PROVE  HolderInv'
  <1> USE DEF Holds, Sending, Waiting, Moderatable, TypeOK, RowTypes, SenderTypes, rowVars,
              SenderDone
  <1>1. CASE SendDelivered(w) \/ SendDeferred(w) \/ SendRefused(w) \/ SendReplyLost(w)
    BY <1>1 DEF SendDelivered, SendDeferred, SendRefused, SendReplyLost, CallRaised, HolderInv
  <1>2. CASE MarkPublished(w)
    <2>1. /\ \A l \in Lots : Waiting(l)' => Waiting(l)
          /\ \A l \in Lots, v \in Senders : Holds(v, l)' => Holds(v, l)
          /\ \A l \in Lots, v \in Senders : Sending(v, l)' => l \notin batch'[v]
      BY <1>2 DEF MarkPublished, HolderInv
    <2> HIDE DEF Holds, Sending, Waiting
    <2> QED
      BY <2>1 DEF HolderInv
  <1>3. CASE MarkDeferred(w)
    <2>1. /\ \A l \in Lots : Waiting(l)' => Waiting(l)
          /\ \A l \in Lots, v \in Senders : Holds(v, l)' => Holds(v, l)
          /\ \A l \in Lots, v \in Senders : Sending(v, l)' => l \notin batch'[v]
      BY <1>3 DEF MarkDeferred, HolderInv
    <2> HIDE DEF Holds, Sending, Waiting
    <2> QED
      BY <2>1 DEF HolderInv
  <1>4. CASE MarkPublicationFailed(w)
    <2>1. PICK k \in Lots : k = slot[w]
      BY <1>4 DEF MarkPublicationFailed, RowInv, Answered
    <2>2. Holds(w, k) /\ k \notin batch[w]
      BY <1>4, <2>1 DEF MarkPublicationFailed, HolderInv
    <2>3. \A l \in Lots : Waiting(l)' => Waiting(l) \/ l = k
      BY <1>4, <2>1 DEF MarkPublicationFailed
    <2>4. \A l \in Lots, v \in Senders : Holds(v, l)' => Holds(v, l)
      BY <1>4 DEF MarkPublicationFailed
    <2>5. ~Holds(w, k)'
      BY <1>4, <2>2 DEF MarkPublicationFailed
    <2>6. \A l \in Lots, v \in Senders : Sending(v, l)' => l \notin batch'[v]
      BY <1>4 DEF MarkPublicationFailed, HolderInv
    <2> HIDE DEF Holds, Sending, Waiting
    <2>7. \A v \in Senders : ~Holds(v, k)'
      BY <2>2, <2>4, <2>5 DEF HolderInv
    <2>8. \A l \in Lots : Waiting(l)' => \A v \in Senders : ~Holds(v, l)'
      BY <2>3, <2>4, <2>7 DEF HolderInv
    <2> QED
      BY <2>4, <2>6, <2>8 DEF HolderInv
  <1>5. CASE RecordLost(w)
    BY <1>5 DEF RecordLost, HolderInv
  <1>6. CASE SenderCrash(w)
    BY <1>6 DEF SenderCrash, HolderInv
  <1> QED
    BY <1>1, <1>2, <1>3, <1>4, <1>5, <1>6 DEF Deliver

LEMMA HolderInvariance ==
  ASSUME Forcers = {}, MaxDecisions = 0
  PROVE  Spec => [](TypeOK /\ RowInv /\ HolderInv)
  <1>1. TypeOK /\ RowInv /\ HolderInv /\ [Next]_vars => HolderInv'
    <2> SUFFICES ASSUME TypeOK, RowInv, HolderInv, [Next]_vars PROVE HolderInv'
      OBVIOUS
    <2>1. CASE Next
      BY <2>1, PersonStandsBy, EnvironmentStandsBy, FinalizerStandsBy, BystanderHolder,
         LoopHolder, DeliverHolder DEF Next, Senders
    <2>2. CASE UNCHANGED vars
      BY <2>2 DEF vars, rowVars, senderVars, HolderInv, Holds, Sending, Waiting
    <2> QED
      BY <2>1, <2>2
  <1> QED
    BY <1>1, InitHolder, RowInvariance, PTL DEF Spec

\* Two bot instances never work on the publication of one lot at the same time, with any
\* number of them, crashes, expired leases and lost replies, as long as nobody sends a lot
\* back and nobody uses /force_publish.
THEOREM OneSenderAlone ==
  ASSUME Forcers = {}, MaxDecisions = 0
  PROVE  Spec => []OneSenderPerLot
  <1>1. HolderInv => OneSenderPerLot
    BY DEF HolderInv, OneSenderPerLot, Holds
  <1> QED
    BY <1>1, HolderInvariance, PTL

-------------------------------------------------------------------------------
(* A lot is posted once *)

LEMMA InitPost == Init => PostInv
  BY DEF Init, PostInv

LEMMA BystanderPost ==
  ASSUME PostInv, Bystander
  PROVE  PostInv'
  BY DEF PostInv, Bystander, MaySend, senderVars

LEMMA LoopPost ==
  ASSUME TypeOK, PostInv, NEW w \in Senders, LoopStep(w)
  PROVE  PostInv'
  <1> USE DEF PostInv, MaySend, Waiting, Moderatable, TypeOK, RowTypes, SenderTypes, rowVars,
              worldVars, Put
  <1>1. CASE RecoverStale(w)
    BY <1>1 DEF RecoverStale
  <1>2. CASE ClaimDue(w)
    <2>1. PICK S \in SUBSET DueLots : Claim(S) /\ batch' = [batch EXCEPT ![w] = S]
      BY <1>2 DEF ClaimDue
    <2>2. /\ UNCHANGED <<posts, unreviewed>>
          /\ \A l \in Lots : Waiting(l)' => Waiting(l)
          /\ \A l \in S : Waiting(l)
      BY <1>2, <2>1 DEF ClaimDue, Claim, DueLots
    <2>3. \A l \in Lots, v \in Senders :
             MaySend(v, l)' => MaySend(v, l) \/ l \in S
      BY <1>2, <2>1 DEF ClaimDue
    <2> HIDE DEF MaySend, Waiting
    <2> QED
      BY <2>2, <2>3
  <1>3. CASE FinishIteration(w)
    BY <1>3 DEF FinishIteration
  <1>4. ASSUME NEW l \in Lots, StartSending(w, l)
        PROVE  PostInv'
    BY <1>4 DEF StartSending
  <1> QED
    BY <1>1, <1>2, <1>3, <1>4 DEF LoopStep

\* The one holder of a lot without posts makes its first.
LEMMA AcceptedPost ==
  ASSUME TypeOK, RowInv, HolderInv, PostInv, NEW w \in Senders,
         SendDelivered(w) \/ SendDeferred(w)
  PROVE  PostInv'
  <1> USE DEF SendDelivered, SendDeferred, Post
  <1>1. PICK k \in Lots : k = slot[w]
    BY DEF RowInv, Answered
  <1>2. /\ Holds(w, k) /\ MaySend(w, k) /\ k \notin batch[w]
        /\ posts[k] = {} /\ ~Waiting(k)
    BY <1>1 DEF Holds, Sending, MaySend, HolderInv, PostInv
  <1>3. /\ posts' = [posts EXCEPT ![k] = {nextMsg}] /\ nextMsg \in Msgs
        /\ unreviewed' = [unreviewed EXCEPT ![k] = TRUE]
        /\ UNCHANGED status
    BY <1>1, <1>2 DEF rowVars, TypeOK, WorldTypes
  <1>4. \A l \in Lots, v \in Senders : MaySend(v, l)' => MaySend(v, l) /\ (v = w => l \in batch[w])
    BY DEF MaySend, TypeOK, SenderTypes
  <1>5. \A v \in Senders : ~MaySend(v, k)'
    BY <1>2, <1>4 DEF MaySend, HolderInv, Holds, Sending
  <1>6. \A l \in Lots : Waiting(l)' => Waiting(l) /\ l # k
    BY <1>2, <1>3 DEF Waiting
  <1> HIDE DEF SendDelivered, SendDeferred
  <1>7. \A l \in Lots \ {k} : posts'[l] = posts[l] /\ unreviewed'[l] = unreviewed[l]
    BY <1>3 DEF TypeOK, WorldTypes
  <1>8. posts'[k] = {nextMsg}
    BY <1>3 DEF TypeOK, WorldTypes
  <1> QED
    BY <1>3, <1>4, <1>5, <1>6, <1>7, <1>8 DEF PostInv

LEMMA DeliverPost ==
  ASSUME LossyReplies = FALSE, TypeOK, RowInv, HolderInv, PostInv, NEW w \in Senders,
         Deliver(w) \/ SenderCrash(w)
  PROVE  PostInv'
  <1> USE DEF MaySend, Waiting, Moderatable, TypeOK, RowTypes, SenderTypes, rowVars, worldVars,
              SenderDone
  <1>1. CASE SendDelivered(w) \/ SendDeferred(w)
    BY <1>1, AcceptedPost
  <1>2. CASE SendRefused(w)
    BY <1>2 DEF SendRefused, CallRaised, PostInv
  <1>3. CASE SendReplyLost(w)
    BY <1>3 DEF SendReplyLost
  <1>4. CASE MarkPublished(w)
    BY <1>4 DEF MarkPublished, PostInv
  <1>5. CASE MarkDeferred(w)
    BY <1>5 DEF MarkDeferred, PostInv
  <1>6. CASE MarkPublicationFailed(w)
    <2>1. PICK k \in Lots : k = slot[w]
      BY <1>6 DEF MarkPublicationFailed, RowInv, Answered
    <2>2. posts[k] = {}
      BY <1>6, <2>1 DEF MarkPublicationFailed, PostInv
    <2>3. /\ \A l \in Lots : Waiting(l)' => Waiting(l) \/ l = k
          /\ UNCHANGED <<posts, unreviewed>>
      BY <1>6, <2>1 DEF MarkPublicationFailed
    <2>4. \A l \in Lots, v \in Senders : MaySend(v, l)' => MaySend(v, l)
      BY <1>6 DEF MarkPublicationFailed
    <2> HIDE DEF MaySend, Waiting
    <2> QED
      BY <2>2, <2>3, <2>4 DEF PostInv
  <1>7. CASE RecordLost(w) \/ SenderCrash(w)
    BY <1>7 DEF RecordLost, SenderCrash, PostInv
  <1> QED
    BY <1>1, <1>2, <1>3, <1>4, <1>5, <1>6, <1>7 DEF Deliver

LEMMA PostInvariance ==
  ASSUME Forcers = {}, MaxDecisions = 0, LossyReplies = FALSE
  PROVE  Spec => []PostInv
  <1>1. TypeOK /\ RowInv /\ HolderInv /\ PostInv /\ [Next]_vars => PostInv'
    <2> SUFFICES ASSUME TypeOK, RowInv, HolderInv, PostInv, [Next]_vars PROVE PostInv'
      OBVIOUS
    <2>1. CASE Next
      BY <2>1, PersonStandsBy, EnvironmentStandsBy, FinalizerStandsBy, BystanderPost,
         LoopPost, DeliverPost DEF Next, Senders
    <2>2. CASE UNCHANGED vars
      BY <2>2 DEF vars, rowVars, worldVars, senderVars, PostInv, MaySend, Waiting
    <2> QED
      BY <2>1, <2>2
  <1> QED
    BY <1>1, InitPost, HolderInvariance, PTL DEF Spec

\* If moreover no reply gets lost, a lot that waits for a publisher has never been sent:
\* no crash, expired lease or late answer makes the bots retry what is in the channel.
THEOREM NoRetryAlone ==
  ASSUME Forcers = {}, MaxDecisions = 0, LossyReplies = FALSE
  PROVE  Spec => []NoBlindRetry
  <1>1. PostInv => NoBlindRetry
    BY DEF PostInv, NoBlindRetry, Waiting
  <1> QED
    BY <1>1, PostInvariance, PTL

\* Then they leave at most one post of a lot in the channel.
THEOREM OnePostAlone ==
  ASSUME Forcers = {}, MaxDecisions = 0, LossyReplies = FALSE
  PROVE  Spec => []OnePostPerLot
  <1>1. PostInv => OnePostPerLot
    <2> SUFFICES ASSUME PostInv, NEW l \in Lots PROVE Cardinality(posts[l]) <= 1
      BY DEF OnePostPerLot
    <2>1. CASE posts[l] = {}
      BY <2>1, FS_EmptySet
    <2>2. ASSUME NEW m \in Msgs, posts[l] = {m} PROVE Cardinality(posts[l]) <= 1
      BY <2>2, FS_Singleton
    <2> QED
      BY <2>1, <2>2 DEF PostInv
  <1> QED
    BY <1>1, PostInvariance, PTL
-------------------------------------------------------------------------------
(* The promise of the outbox *)

Queued == {"scheduled", "publishing"}

\* What a lot's row tells of the posts made and still to be made of it
Tried == \A l \in Lots :
    /\ posts[l] # {} => attempts[l] > 0
    /\ \A w \in Senders : Holds(w, l) => attempts[l] > 0

\* The kinds of steps, by what they do to a verdict.  Nothing, or a lot is given up:
Fades ==
    /\ UNCHANGED <<message, attempts, posts>>
    /\ \A l \in Lots : attempts[l] > 0 /\ status'[l] \in Queued => status[l] \in Queued
    /\ \A l \in Lots, w \in Senders : Holds(w, l)' => Holds(w, l)

\* claim_due takes the lots S;
Takes(S) ==
    /\ S \subseteq DueLots
    /\ UNCHANGED <<message, posts>>
    /\ \A l \in Lots : /\ l \in S => attempts'[l] = attempts[l] + 1 /\ status'[l] \in Queued
                       /\ l \notin S => attempts'[l] = attempts[l] /\ status'[l] = status[l]
    /\ \A l \in Lots, w \in Senders : Holds(w, l)' => Holds(w, l) \/ l \in S

\* Telegram accepts a post of l;
Sends(l) ==
    /\ UNCHANGED <<message, attempts, status>>
    /\ posts[l] = {}
    /\ \E m \in Msgs : posts'[l] = {m}
    /\ \A k \in Lots \ {l} : posts'[k] = posts[k]
    /\ \E w \in Senders : Holds(w, l)
    /\ \A k \in Lots, w \in Senders : Holds(w, k)' => Holds(w, k)

\* the post of l is recorded.
Records(l) ==
    /\ UNCHANGED <<attempts, posts>>
    /\ posts[l] # {} /\ message[l] = NoMsg /\ message'[l] # NoMsg
    /\ \A k \in Lots \ {l} : message'[k] = message[k] /\ status'[k] = status[k]
    /\ \A k \in Lots, w \in Senders : Holds(w, k)' => Holds(w, k)

Changes ==
    \/ Fades
    \/ \E S \in SUBSET Lots : Takes(S)
    \/ \E l \in Lots : Sends(l) \/ Records(l)

LEMMA PersonChanges ==
  ASSUME MaxDecisions = 0, TypeOK, RowInv, NEW l \in Lots, Person(l)
  PROVE  Fades
  <1>1. ~Spend
    BY DEF Spend, TypeOK, WorldTypes
  <1>2. UNCHANGED <<message, attempts, posts, senderVars>>
    BY <1>1 DEF Person, CreatePending, Schedule, Reject, CancelByModerator,
       CancelByOwner, RequeuePublication, RescheduleUnpublished, ReschedulePublished,
       Restart, Reopen, FinishNow, RepairRequeue, RepairPublished, worldVars
  <1>3. ASSUME NEW k \in Lots, attempts[k] > 0, status'[k] \in Queued
        PROVE  status[k] \in Queued
    <2>1. CASE Schedule(l)
      BY <1>3, <2>1 DEF Schedule, RowInv, Fresh, TypeOK, RowTypes
    <2>2. CASE ~Schedule(l)
      BY <1>1, <1>3, <2>2 DEF Person, CreatePending, Reject, CancelByModerator,
         CancelByOwner, RequeuePublication, RescheduleUnpublished, ReschedulePublished,
         Restart, Reopen, FinishNow, RepairRequeue, RepairPublished, TypeOK, RowTypes, Queued
    <2> QED
      BY <2>1, <2>2
  <1> QED
    BY <1>2, <1>3 DEF Fades, Holds, Sending, senderVars

LEMMA EnvironmentChanges ==
  ASSUME TypeOK, RowInv,
         \/ \E l \in Lots : Userbot(l) \/ Clock(l)
         \/ \E S \in SUBSET Lots : ReleaseStale(S) \/ AutoFinish(S)
  PROVE  Changes
  <1> USE DEF TypeOK, RowTypes, Queued, Holds, Sending, rowVars, worldVars, senderVars
  <1>1. ASSUME NEW l \in Lots, NEW m \in Msgs, ConfirmPublication(l, m)
        PROVE  Changes
    <2>1. /\ m \in posts[l] /\ m # NoMsg /\ message[l] \in {NoMsg, m}
          /\ message' = [message EXCEPT ![l] = m]
          /\ UNCHANGED <<attempts, posts, senderVars>>
          /\ \A k \in Lots \ {l} : message'[k] = message[k] /\ status'[k] = status[k]
          /\ status'[l] \in Settled \cup {"active"}
      BY <1>1 DEF ConfirmPublication, BindRow, Msgs, NoMsg
    <2>2. CASE message[l] = NoMsg
      BY <2>1, <2>2 DEF Records, Changes
    <2>3. CASE message[l] = m
      BY <2>1, <2>3 DEF Fades, Changes, Settled
    <2> QED
      BY <2>1, <2>2, <2>3
  <1>2. ASSUME NEW l \in Lots, Clock(l) \/ \E m \in Msgs : BindByMessage(l, m) \/ BindByAuction(l, m)
        PROVE  Fades
    BY <1>2 DEF BindByMessage, BindByAuction, Clock, TimePasses, RetryElapses, LeaseExpires, Fades
  <1>3. ASSUME NEW S \in SUBSET Lots, ReleaseStale(S) \/ AutoFinish(S)
        PROVE  Fades
    BY <1>3 DEF ReleaseStale, AutoFinish, Put, Fades
  <1> QED
    BY <1>1, <1>2, <1>3 DEF Userbot, Changes

LEMMA FinalizeChanges ==
  ASSUME TypeOK, NEW f \in Finalizers, Finalize(f) \/ FinalizerCrash(f)
  PROVE  Fades
  <1> USE DEF TypeOK, RowTypes, Queued, Holds, Sending, rowVars, worldVars, senderVars, Fades
  <1>1. CASE FailStaleClaims(f) \/ ClaimFinalization(f) \/ FinishSweep(f)
    BY <1>1 DEF FailStaleClaims, ClaimFinalization, FinishSweep, Put
  <1>2. CASE MarkFinished(f) \/ MarkFinishedLost(f) \/ MarkFinalizationFailed(f)
    BY <1>2 DEF MarkFinished, MarkFinishedLost, MarkFinalizationFailed
  <1>3. ASSUME NEW c \in held[f], Announce(f, c) \/ ReadBidsFailed(f, c)
        PROVE  Fades
    BY <1>3 DEF Announce, ReadBidsFailed
  <1>4. CASE FinalizerCrash(f)
    BY <1>4 DEF FinalizerCrash
  <1> QED
    BY <1>1, <1>2, <1>3, <1>4 DEF Finalize

LEMMA LoopChanges ==
  ASSUME TypeOK, NEW w \in Senders, LoopStep(w)
  PROVE  Changes
  <1> USE DEF TypeOK, RowTypes, SenderTypes, Queued, Holds, Sending, rowVars, worldVars, Put
  <1>1. CASE RecoverStale(w)
    BY <1>1 DEF RecoverStale, Fades, Changes
  <1>2. CASE ClaimDue(w)
    <2>1. PICK S \in SUBSET DueLots : Claim(S) /\ batch' = [batch EXCEPT ![w] = S]
      BY <1>2 DEF ClaimDue
    <2>2. S \in SUBSET Lots
      BY DEF DueLots
    <2>3. UNCHANGED <<message, posts>>
      BY <1>2 DEF ClaimDue
    <2>4. \A l \in Lots : /\ l \in S => attempts'[l] = attempts[l] + 1 /\ status'[l] \in Queued
                          /\ l \notin S => attempts'[l] = attempts[l] /\ status'[l] = status[l]
      BY <2>1 DEF Claim
    <2>5. \A l \in Lots, v \in Senders : Holds(v, l)' => Holds(v, l) \/ l \in S
      BY <1>2, <2>1 DEF ClaimDue
    <2> HIDE DEF Holds, Sending, Put, Queued
    <2> QED
      BY <2>2, <2>3, <2>4, <2>5 DEF Takes, Changes
  <1>3. CASE FinishIteration(w)
    BY <1>3 DEF FinishIteration, Fades, Changes
  <1>4. ASSUME NEW l \in Lots, StartSending(w, l)
        PROVE  Fades
    BY <1>4 DEF StartSending, Fades
  <1> QED
    BY <1>1, <1>2, <1>3, <1>4 DEF LoopStep, Changes

LEMMA DeliverChanges ==
  ASSUME LossyReplies = FALSE, TypeOK, RowInv, PostInv, NEW w \in Senders,
         Deliver(w) \/ SenderCrash(w)
  PROVE  Changes
  <1> USE DEF TypeOK, RowTypes, SenderTypes, Queued, Holds, Sending, rowVars, worldVars,
              SenderDone
  <1>1. CASE SendDelivered(w) \/ SendDeferred(w)
    <2>1. PICK k \in Lots : k = slot[w]
      BY <1>1 DEF SendDelivered, SendDeferred, RowInv, Answered
    <2>2. posts[k] = {} /\ Holds(w, k)
      BY <1>1, <2>1 DEF SendDelivered, SendDeferred, PostInv, MaySend
    <2>3. /\ nextMsg \in Msgs /\ posts' = [posts EXCEPT ![k] = {nextMsg}]
          /\ UNCHANGED <<message, attempts, status>>
      BY <1>1, <2>1, <2>2 DEF SendDelivered, SendDeferred, Post, WorldTypes
    <2>4. \A l \in Lots, v \in Senders : Holds(v, l)' => Holds(v, l)
      BY <1>1 DEF SendDelivered, SendDeferred
    <2>5. posts'[k] = {nextMsg} /\ \A l \in Lots \ {k} : posts'[l] = posts[l]
      BY <2>3 DEF WorldTypes
    <2> HIDE DEF Holds
    <2> QED
      BY <2>2, <2>3, <2>4, <2>5 DEF Sends, Changes
  <1>2. CASE SendReplyLost(w)
    BY <1>2 DEF SendReplyLost
  <1>3. CASE MarkPublished(w)
    <2>1. PICK k \in Lots : k = slot[w] /\ smsg[w] \in posts[k]
      BY <1>3 DEF MarkPublished, RowInv, Answered
    <2>2. smsg[w] # NoMsg
      BY <2>1 DEF WorldTypes, Msgs, NoMsg
    <2>3. \A l \in Lots, v \in Senders : Holds(v, l)' => Holds(v, l)
      BY <1>3 DEF MarkPublished
    <2>4. UNCHANGED <<attempts, posts>>
      BY <1>3 DEF MarkPublished
    <2>5. CASE status[k] = "publishing" /\ message[k] = NoMsg
      <3>1. /\ message'[k] = smsg[w]
            /\ \A l \in Lots \ {k} : message'[l] = message[l] /\ status'[l] = status[l]
        BY <1>3, <2>1, <2>5 DEF MarkPublished
      <3> HIDE DEF Holds
      <3> QED
        BY <2>1, <2>2, <2>3, <2>4, <2>5, <3>1 DEF Records, Changes
    <2>6. CASE ~(status[k] = "publishing" /\ message[k] = NoMsg)
      <3>1. UNCHANGED <<status, message>>
        BY <1>3, <2>1, <2>6 DEF MarkPublished
      <3> HIDE DEF Holds
      <3> QED
        BY <2>3, <2>4, <3>1 DEF Fades, Changes
    <2> QED
      BY <2>5, <2>6
  <1>4. CASE MarkDeferred(w) \/ MarkPublicationFailed(w)
    <2>1. \A l \in Lots, v \in Senders : Holds(v, l)' => Holds(v, l)
      BY <1>4 DEF MarkDeferred, MarkPublicationFailed
    <2>2. UNCHANGED <<message, attempts, posts>>
      BY <1>4 DEF MarkDeferred, MarkPublicationFailed
    <2>3. \A l \in Lots : status'[l] \in Queued => status[l] \in Queued
      BY <1>4 DEF MarkDeferred, MarkPublicationFailed
    <2> HIDE DEF Holds
    <2> QED
      BY <2>1, <2>2, <2>3 DEF Fades, Changes
  <1>5. CASE SendRefused(w) \/ RecordLost(w) \/ SenderCrash(w)
    BY <1>5 DEF SendRefused, CallRaised, RecordLost, SenderCrash, Fades, Changes
  <1> QED
    BY <1>1, <1>2, <1>3, <1>4, <1>5 DEF Deliver

LEMMA StepChanges ==
  ASSUME Forcers = {}, MaxDecisions = 0, LossyReplies = FALSE,
         TypeOK, RowInv, PostInv, [Next]_vars
  PROVE  Changes
  <1>1. CASE UNCHANGED vars
    BY <1>1 DEF vars, rowVars, worldVars, senderVars, Changes, Fades, Holds, Sending
  <1>2. CASE Next
    BY <1>2, PersonChanges, EnvironmentChanges, FinalizeChanges, LoopChanges, DeliverChanges
       DEF Next, Senders, Changes
  <1> QED
    BY <1>1, <1>2

LEMMA TriedKept ==
  ASSUME TypeOK, Tried, Changes
  PROVE  Tried'
  <1> USE DEF Tried, TypeOK, RowTypes
  <1>1. CASE Fades
    BY <1>1 DEF Fades
  <1>2. ASSUME NEW S \in SUBSET Lots, Takes(S)
        PROVE  Tried'
    BY <1>2 DEF Takes
  <1>3. ASSUME NEW l \in Lots, Sends(l)
        PROVE  Tried'
    BY <1>3 DEF Sends
  <1>4. ASSUME NEW l \in Lots, Records(l)
        PROVE  Tried'
    BY <1>4 DEF Records
  <1> QED
    BY <1>1, <1>2, <1>3, <1>4 DEF Changes

\* The steps of the abstract specification
LEMMA ChangesRefine ==
  ASSUME TypeOK, RowInv, PostInv, Tried, Changes
  PROVE  Promise!Next \/ UNCHANGED <<verdicts, accepted>>
  <1> USE DEF TypeOK, RowTypes
  <1>1. CASE Fades
    <2> DEFINE S == {l \in Lots : Verdict(l) = "open" /\ Verdict(l)' = "unknown"}
    <2>1. \A l \in Lots : Verdict(l)' = IF l \in S THEN "unknown" ELSE Verdict(l)
      BY <1>1 DEF Fades, Verdict, Queued
    <2>2. verdicts' = [l \in Lots |-> IF l \in S THEN "unknown" ELSE verdicts[l]]
      BY <2>1 DEF verdicts
    <2>3. UNCHANGED accepted
      BY <1>1 DEF Fades, accepted
    <2>4. Promise!GiveUp(S)
      BY <2>2, <2>3 DEF Promise!GiveUp, Promise!Pronounce, verdicts
    <2> QED
      BY <2>4 DEF Promise!Next
  <1>2. ASSUME NEW S \in SUBSET Lots, Takes(S)
        PROVE  Promise!Next
    <2> DEFINE T == {l \in S : attempts[l] = 0}
    <2>1. \A l \in S : status[l] = "scheduled" /\ message[l] = NoMsg
      BY <1>2 DEF Takes, DueLots
    <2>2. \A l \in Lots : Verdict(l)' = IF l \in T THEN "open" ELSE Verdict(l)
      BY <1>2, <2>1 DEF Takes, Verdict, Queued
    <2>3. verdicts' = [l \in Lots |-> IF l \in T THEN "open" ELSE verdicts[l]]
      BY <2>2 DEF verdicts
    <2>4. UNCHANGED accepted
      BY <1>2 DEF Takes, accepted
    <2>5. \A l \in T : verdicts[l] = "none"
      BY <2>1 DEF verdicts, Verdict
    <2>6. Promise!Submit(T)
      BY <2>3, <2>4, <2>5 DEF Promise!Submit, Promise!Pronounce
    <2> QED
      BY <2>6 DEF Promise!Next
  <1>3. ASSUME NEW l \in Lots, Sends(l)
        PROVE  Promise!Next
    <2>1. message[l] = NoMsg
      BY <1>3 DEF Sends, RowInv, BoundToOwnPost
    <2>2. verdicts[l] \in {"open", "unknown"}
      BY <1>3, <2>1 DEF Sends, Tried, verdicts, Verdict
    <2>3. accepted[l] = 0
      BY <1>3, FS_EmptySet DEF Sends, accepted
    <2>4. accepted'[l] = 1
      BY <1>3, FS_Singleton DEF Sends, accepted
    <2>5. accepted' = [accepted EXCEPT ![l] = 1]
      BY <1>3, <2>4 DEF Sends, accepted
    <2>6. verdicts' = verdicts
      BY <1>3 DEF Sends, verdicts, Verdict
    <2> QED
      BY <2>2, <2>3, <2>5, <2>6 DEF Promise!Accept, Promise!Next
  <1>4. ASSUME NEW l \in Lots, Records(l)
        PROVE  Promise!Next
    <2>1. verdicts[l] \in {"open", "unknown"}
      BY <1>4 DEF Records, Tried, verdicts, Verdict
    <2>2. accepted[l] = 1
      <3>1. PICK m \in Msgs : posts[l] = {m}
        BY <1>4 DEF Records, PostInv
      <3> QED
        BY <3>1, FS_Singleton DEF accepted
    <2>3. UNCHANGED accepted
      BY <1>4 DEF Records, accepted
    <2>4. \A k \in Lots : Verdict(k)' = IF k = l THEN "sent" ELSE Verdict(k)
      BY <1>4 DEF Records, Verdict
    <2>5. verdicts' = [k \in Lots |-> IF k \in {l} THEN "sent" ELSE verdicts[k]]
      BY <2>4 DEF verdicts
    <2> QED
      BY <2>1, <2>2, <2>3, <2>5 DEF Promise!ReportSent, Promise!Pronounce, Promise!Next
  <1> QED
    BY <1>1, <1>2, <1>3, <1>4 DEF Changes

\* Publication and outbox, two pieces of code that share nothing, implement one abstract
\* specification: what the bots do with a lot by themselves is an at-most-once delivery,
\* and what its row says of it is true.
THEOREM PublicationIsADelivery ==
  ASSUME Forcers = {}, MaxDecisions = 0, LossyReplies = FALSE
  PROVE  Spec => PublicationKeepsPromise
  <1>1. Init => Tried /\ Promise!Init
    BY FS_EmptySet DEF Init, Tried, Holds, Sending, Promise!Init, verdicts, Verdict, accepted
  <1>2. TypeOK /\ RowInv /\ PostInv /\ Tried /\ [Next]_vars => Tried'
    BY StepChanges, TriedKept
  <1>3. TypeOK /\ RowInv /\ PostInv /\ Tried /\ [Next]_vars
          => [Promise!Next]_<<verdicts, accepted>>
    BY StepChanges, ChangesRefine
  <1> QED
    BY <1>1, <1>2, <1>3, RowInvariance, PostInvariance, PTL
       DEF Spec, PublicationKeepsPromise, Promise!Spec
===============================================================================
