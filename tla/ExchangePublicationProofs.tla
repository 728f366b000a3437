---------------------- MODULE ExchangePublicationProofs ----------------------
(***************************************************************************)
(* Safety of ExchangePublication for every set of batches, presses and     *)
(* offers, and every number of posts.                                      *)
(***************************************************************************)
EXTENDS ExchangePublication, TLAPS

Unpublished == {"absent", "pending", "rejected", "approved"}

\* A batch that has never been claimed, or was given back: nobody holds it and
\* the channel has only the posts whose reply was lost.
FreeOK(b) ==
  /\ sent[b] =< lost[b] + 1
  /\ status[b] \in Unpublished =>
       /\ sent[b] = lost[b]
       /\ \A p \in Presses : at[p] \in Holding => batch[p] # b

\* A press that holds a claim: the batch is still claimed, or deleted meanwhile,
\* and the press's own post is the only one whose reply came.
HolderOK(p) ==
  /\ at[p] \in Holding => status[batch[p]] \in {"publishing", "deleted"}
  /\ at[p] \in {"claimed", "refused"} => sent[batch[p]] = lost[batch[p]]

OneHolder ==
  \A p, q \in Presses :
    at[p] \in Holding /\ at[q] \in Holding /\ batch[p] = batch[q] => p = q

PostingInv ==
  /\ \A b \in Batches : FreeOK(b)
  /\ \A p \in Presses : HolderOK(p)
  /\ OneHolder

LEMMA InitHolds ==
  ASSUME Init
  PROVE  TypeOK /\ PostingInv
BY DEF Init, TypeOK, Statuses, Steps, PostingInv, FreeOK, HolderOK, OneHolder,
       Holding

\* No action writes a value the table or a handler does not have.
LEMMA TypesStep ==
  ASSUME ExchangeAssumption, TypeOK, [Next]_vars
  PROVE  TypeOK'
<1> USE DEF TypeOK, Statuses, Steps, row, content, channel, press, Goto
<1>1. CASE Submit
  BY <1>1 DEF Submit
<1>2. ASSUME NEW b \in Batches,
             \/ Moderate(b) \/ Edit(b) \/ EraseOwner(b) \/ DeleteFromCatalog(b)
             \/ LeasePasses(b)
      PROVE  TypeOK'
  <2>1. CASE Moderate(b)
    BY <2>1 DEF Moderate, Decisions
  <2>2. CASE Edit(b)
    BY <2>2 DEF Edit, Rewrite
  <2>3. CASE EraseOwner(b)
    BY <2>3 DEF EraseOwner, Rewrite
  <2>4. CASE DeleteFromCatalog(b) \/ LeasePasses(b)
    BY <2>4 DEF DeleteFromCatalog, LeasePasses
  <2> QED
    BY <1>2, <2>1, <2>2, <2>3, <2>4
<1>3. ASSUME NEW p \in Presses, Publish(p)
      PROVE  TypeOK'
  <2>1. CASE \E b \in Batches : ReadToPublish(p, b)
    BY <2>1 DEF ReadToPublish, Read
  <2>2. CASE Claim(p) \/ ClaimFails(p)
    BY <2>2 DEF Claim, ClaimFails
  <2>3. CASE PostAccepted(p) \/ PostRefused(p) \/ ReplyLost(p)
    BY <2>3 DEF PostAccepted, PostRefused, ReplyLost
  <2>4. CASE ReleaseClaim(p) \/ StatementFails(p)
    BY <2>4 DEF ReleaseClaim, StatementFails
  <2>5. CASE MarkPosted(p)
    BY <2>5 DEF MarkPosted
  <2> QED
    BY <1>3, <2>1, <2>2, <2>3, <2>4, <2>5 DEF Publish
<1>4. ASSUME NEW p \in Presses, Delete(p)
      PROVE  TypeOK'
  <2>1. CASE \E b \in Batches : ReadToDelete(p, b)
    BY <2>1 DEF ReadToDelete, Read
  <2>2. CASE SoftDelete(p)
    BY <2>2 DEF SoftDelete
  <2>3. CASE CleanUp(p)
    BY <2>3 DEF CleanUp
  <2> QED
    BY <1>4, <2>1, <2>2, <2>3 DEF Delete
<1>5. CASE Crash
  BY <1>5 DEF Crash
<1>6. CASE UNCHANGED vars
  BY <1>6 DEF vars
<1> QED
  BY <1>1, <1>2, <1>3, <1>4, <1>5, <1>6 DEF Next

\* The statements of submission, moderation, editing, erasure and the catalog
\* touch neither the posts nor the presses, and never free a claimed batch.
LEMMA RowStep ==
  ASSUME TypeOK, PostingInv,
         \/ Submit
         \/ \E b \in Batches :
              \/ Moderate(b) \/ Edit(b) \/ EraseOwner(b) \/ DeleteFromCatalog(b)
              \/ LeasePasses(b)
  PROVE  PostingInv'
<1>1. /\ sent' = sent /\ lost' = lost /\ at' = at /\ batch' = batch
      /\ \A b \in Batches :
           \/ status'[b] = status[b]
           \/ status'[b] = "deleted"
           \/ status[b] \in Unpublished /\ status'[b] \in Unpublished
  <2>1. CASE Submit
    BY <2>1 DEF Submit, TypeOK, Unpublished, content, channel, press
  <2>2. CASE \E b \in Batches :
               \/ Moderate(b) \/ Edit(b) \/ EraseOwner(b)
               \/ DeleteFromCatalog(b) \/ LeasePasses(b)
    BY <2>2 DEF Moderate, Decisions, Edit, EraseOwner, DeleteFromCatalog,
                LeasePasses, Rewrite, content, TypeOK, Unpublished, channel, press
  <2> QED
    BY <2>1, <2>2
<1>2. ASSUME NEW b \in Batches
      PROVE  FreeOK(b)'
  BY <1>1 DEF PostingInv, FreeOK, Unpublished
<1>3. ASSUME NEW p \in Presses
      PROVE  HolderOK(p)'
  <2>1. batch[p] \in Batches
    BY DEF TypeOK
  <2> QED
    BY <1>1, <2>1 DEF PostingInv, HolderOK, FreeOK, Holding, Unpublished
<1> QED
  BY <1>1, <1>2, <1>3 DEF PostingInv, OneHolder

LEMMA PublishStep ==
  ASSUME TypeOK, PostingInv, NEW p \in Presses, Publish(p)
  PROVE  PostingInv'
<1> USE DEF TypeOK, Statuses, Steps, row, content, channel, press, Goto, Holding
<1> DEFINE b == batch[p]
<1>0. b \in Batches /\ FreeOK(b) /\ HolderOK(p)
  BY DEF PostingInv
<1>1. CASE (\E c \in Batches : ReadToPublish(p, c)) \/ ClaimFails(p)
           \/ StatementFails(p)
  <2>1. /\ status' = status /\ sent' = sent /\ lost' = lost
        /\ at'[p] \notin Holding
        /\ \A q \in Presses \ {p} : at'[q] = at[q] /\ batch'[q] = batch[q]
    BY <1>1 DEF ReadToPublish, Read, ClaimFails, StatementFails
  <2> QED
    BY <2>1 DEF PostingInv, FreeOK, HolderOK, OneHolder
<1>2. CASE Claim(p)
  <2>1. status[b] = "approved"
    BY <1>2 DEF Claim, Claimable, AfterLease
  <2>2. /\ sent[b] = lost[b]
        /\ \A q \in Presses : at[q] \in Holding => batch[q] # b
    BY <1>0, <2>1 DEF FreeOK, Unpublished
  <2>3. /\ status' = [status EXCEPT ![b] = "publishing"]
        /\ at' = [at EXCEPT ![p] = "claimed"]
        /\ sent' = sent /\ lost' = lost /\ batch' = batch
    BY <1>2 DEF Claim
  <2>4. ASSUME NEW c \in Batches
        PROVE  FreeOK(c)'
    BY <1>0, <2>3 DEF PostingInv, FreeOK, Unpublished
  <2>5. ASSUME NEW q \in Presses
        PROVE  HolderOK(q)'
    BY <1>0, <2>2, <2>3 DEF PostingInv, HolderOK
  <2> QED
    BY <2>2, <2>3, <2>4, <2>5 DEF PostingInv, OneHolder
<1>3. CASE PostAccepted(p) \/ PostRefused(p) \/ ReplyLost(p)
  <2>1. /\ status[b] \in {"publishing", "deleted"} /\ sent[b] = lost[b]
        /\ \A q \in Presses \ {p} : at[q] \in Holding => batch[q] # b
    BY <1>0, <1>3 DEF PostAccepted, PostRefused, ReplyLost, HolderOK,
                      PostingInv, OneHolder
  <2>2. /\ status' = status /\ batch' = batch
        /\ \A q \in Presses \ {p} : at'[q] = at[q]
        /\ \A c \in Batches \ {b} : sent'[c] = sent[c] /\ lost'[c] = lost[c]
        /\ \/ at'[p] = "accepted" /\ sent'[b] = lost'[b] + 1
           \/ at'[p] = "refused" /\ sent'[b] = lost'[b]
    BY <1>0, <1>3, <2>1 DEF PostAccepted, PostRefused, ReplyLost
  <2>3. sent'[b] \in Nat /\ lost'[b] \in Nat
    BY <1>0, <1>3 DEF PostAccepted, PostRefused, ReplyLost
  <2>4. ASSUME NEW c \in Batches
        PROVE  FreeOK(c)'
    <3>1. CASE c = b
      BY <2>1, <2>2, <2>3, <3>1 DEF FreeOK, Unpublished
    <3>2. CASE c # b
      BY <2>2, <3>2 DEF PostingInv, FreeOK
    <3> QED
      BY <3>1, <3>2
  <2>5. ASSUME NEW q \in Presses
        PROVE  HolderOK(q)'
    <3>1. CASE q = p
      BY <2>1, <2>2, <3>1 DEF HolderOK
    <3>2. CASE q # p
      BY <2>1, <2>2, <3>2 DEF PostingInv, HolderOK
    <3> QED
      BY <3>1, <3>2
  <2> QED
    BY <2>1, <2>2, <2>4, <2>5 DEF PostingInv, OneHolder
<1>4. CASE ReleaseClaim(p) \/ MarkPosted(p)
  <2>1. \A q \in Presses \ {p} : at[q] \in Holding => batch[q] # b
    BY <1>4 DEF ReleaseClaim, MarkPosted, PostingInv, OneHolder
  <2>2. /\ at'[p] = "idle" /\ batch' = batch /\ sent' = sent /\ lost' = lost
        /\ \A q \in Presses \ {p} : at'[q] = at[q]
        /\ \A c \in Batches \ {b} : status'[c] = status[c]
    BY <1>4 DEF ReleaseClaim, MarkPosted
  <2>3. \/ status'[b] = status[b]
        \/ status'[b] = "published"
        \/ status'[b] = "approved" /\ sent[b] = lost[b]
    BY <1>0, <1>4 DEF ReleaseClaim, MarkPosted, HolderOK
  <2>4. ASSUME NEW c \in Batches
        PROVE  FreeOK(c)'
    <3>1. CASE c = b
      BY <1>0, <2>1, <2>2, <2>3, <3>1 DEF FreeOK, Unpublished
    <3>2. CASE c # b
      BY <2>2, <3>2 DEF PostingInv, FreeOK
    <3> QED
      BY <3>1, <3>2
  <2>5. ASSUME NEW q \in Presses
        PROVE  HolderOK(q)'
    BY <2>1, <2>2 DEF PostingInv, HolderOK
  <2> QED
    BY <2>2, <2>4, <2>5 DEF PostingInv, OneHolder
<1> QED
  BY <1>1, <1>2, <1>3, <1>4 DEF Publish

LEMMA DeleteStep ==
  ASSUME TypeOK, PostingInv, NEW p \in Presses, Delete(p)
  PROVE  PostingInv'
<1>1. /\ sent' = sent /\ lost' = lost /\ at'[p] \notin Holding
      /\ \A q \in Presses \ {p} : at'[q] = at[q] /\ batch'[q] = batch[q]
      /\ \A b \in Batches : status'[b] = status[b] \/ status'[b] = "deleted"
  BY DEF Delete, ReadToDelete, Read, SoftDelete, CleanUp, Goto, TypeOK, Steps,
         Holding, row, content, channel
<1>2. ASSUME NEW b \in Batches
      PROVE  FreeOK(b)'
  BY <1>1 DEF PostingInv, FreeOK, Unpublished
<1>3. ASSUME NEW q \in Presses
      PROVE  HolderOK(q)'
  <2>1. batch[q] \in Batches
    BY DEF TypeOK
  <2> QED
    BY <1>1, <2>1 DEF PostingInv, HolderOK, Holding
<1> QED
  BY <1>1, <1>2, <1>3 DEF PostingInv, OneHolder

LEMMA CrashStep ==
  ASSUME TypeOK, PostingInv, Crash \/ UNCHANGED vars
  PROVE  PostingInv'
BY DEF Crash, vars, row, content, channel, press, TypeOK, PostingInv, FreeOK, HolderOK,
       OneHolder, Holding

\* The rows and the presses have the values the CHECKs and the handlers allow.
THEOREM ExchangeTypes == Spec => []TypeOK
<1>1. Init => TypeOK
  BY InitHolds
<1>2. TypeOK /\ [Next]_vars => TypeOK'
  BY TypesStep, ExchangeAssumption
<1> QED
  BY <1>1, <1>2, PTL DEF Spec

\* The inductive invariant: a claimed batch has one holder at most, and a batch
\* that may be claimed has neither a holder nor an unexplained post.
THEOREM ClaimsHold == Spec => []PostingInv
<1>1. Init => PostingInv
  BY InitHolds
<1>2. TypeOK /\ PostingInv /\ [Next]_vars => PostingInv'
  <2> SUFFICES ASSUME TypeOK, PostingInv, [Next]_vars
               PROVE  PostingInv'
    OBVIOUS
  <2> QED
    BY RowStep, PublishStep, DeleteStep, CrashStep DEF Next
<1> QED
  BY <1>1, <1>2, ExchangeTypes, PTL DEF Spec

\* However many presses meet, crash and fail, a batch that can be published has
\* no post but those whose reply was lost (claim_for_post).
THEOREM PostedOnce == Spec => []RepostOnlyByLostReply
<1>1. PostingInv => RepostOnlyByLostReply
  BY DEF PostingInv, FreeOK, Unpublished, RepostOnlyByLostReply
<1> QED
  BY <1>1, ClaimsHold, PTL

\* A claim nobody holds is never taken up again (claim_for_post, mark_posted,
\* release_post_claim).
THEOREM HungClaimsStay == Spec => HungClaimStays
<1>1. TypeOK /\ [Next]_vars =>
        [\A b \in Batches : Hung(b) => Hung(b)' \/ status'[b] = "deleted"]_vars
  <2> SUFFICES ASSUME TypeOK, Next, NEW b \in Batches, Hung(b)
               PROVE  Hung(b)' \/ status'[b] = "deleted"
    OBVIOUS
  <2> USE DEF Hung, TypeOK, Holding, Goto, row, content, channel, press
  <2>1. CASE Submit
    BY <2>1 DEF Submit
  <2>2. CASE \E c \in Batches :
               \/ Moderate(c) \/ Edit(c) \/ EraseOwner(c)
               \/ DeleteFromCatalog(c) \/ LeasePasses(c)
    BY <2>2 DEF Moderate, Decisions, Edit, EraseOwner, DeleteFromCatalog,
                Rewrite, LeasePasses
  <2>3. ASSUME NEW p \in Presses, Publish(p)
        PROVE  Hung(b)'
    <3>1. CASE \E c \in Batches : ReadToPublish(p, c)
      BY <3>1 DEF ReadToPublish, Read, Steps
    <3>2. CASE Claim(p)
      <4>1. batch[p] # b
        BY <3>2 DEF Claim, Claimable, AfterLease
      <4> QED
        BY <3>2, <4>1 DEF Claim
    <3>3. CASE ClaimFails(p) \/ StatementFails(p)
      BY <3>3 DEF ClaimFails, StatementFails
    <3>4. CASE PostAccepted(p) \/ PostRefused(p) \/ ReplyLost(p)
      BY <3>4 DEF PostAccepted, PostRefused, ReplyLost
    <3>5. CASE ReleaseClaim(p) \/ MarkPosted(p)
      BY <3>5 DEF ReleaseClaim, MarkPosted
    <3> QED
      BY <2>3, <3>1, <3>2, <3>3, <3>4, <3>5 DEF Publish
  <2>4. ASSUME NEW p \in Presses, Delete(p)
        PROVE  Hung(b)' \/ status'[b] = "deleted"
    BY <2>4 DEF Delete, ReadToDelete, Read, SoftDelete, CleanUp
  <2>5. CASE Crash
    BY <2>5 DEF Crash
  <2> QED
    BY <2>1, <2>2, <2>3, <2>4, <2>5 DEF Next
<1> QED
  BY <1>1, ExchangeTypes, PTL DEF Spec, HungClaimStays

\* A press on its way to a post has the offer of the row, or was overtaken; so has
\* the post that is recorded.
OfferInv ==
  /\ \A b \in Batches :
       recorded[b] => /\ status[b] \in {"published", "deleted"}
                      /\ shown[b] = offer[b] \/ b \in overtaken
  /\ \A p \in Presses :
       at[p] \in {"read", "claimed", "accepted"}
       => read[p] = offer[batch[p]] \/ batch[p] \in overtaken

LEMMA OfferStep ==
  ASSUME TypeOK, OfferInv, [Next]_vars
  PROVE  OfferInv'
<1> USE DEF TypeOK, OfferInv, Goto, row, content, channel, press
<1>1. CASE Submit
  BY <1>1 DEF Submit
<1>2. ASSUME NEW b \in Batches, Moderate(b) \/ DeleteFromCatalog(b) \/ LeasePasses(b)
      PROVE  OfferInv'
  BY <1>2 DEF Moderate, Decisions, DeleteFromCatalog, LeasePasses
<1>3. ASSUME NEW b \in Batches, Edit(b) \/ EraseOwner(b)
      PROVE  OfferInv'
  <2>1. \A c \in Batches \ {b} : offer'[c] = offer[c] /\ recorded'[c] = recorded[c]
    BY <1>3 DEF Edit, EraseOwner, Rewrite
  <2>2. /\ ~recorded'[b]
        /\ status' = status /\ UNCHANGED <<channel, press>>
        /\ \A c \in overtaken : c \in overtaken'
    BY <1>3 DEF Edit, EraseOwner, Rewrite
  <2>3. ASSUME NEW p \in Presses, batch[p] = b, at[p] \in {"read", "claimed", "accepted"}
        PROVE  b \in overtaken'
    BY <1>3, <2>3 DEF Edit, EraseOwner, Rewrite
  <2> QED
    BY <2>1, <2>2, <2>3
<1>4. ASSUME NEW p \in Presses, Publish(p)
      PROVE  OfferInv'
  <2>1. CASE \E b \in Batches : ReadToPublish(p, b)
    BY <2>1 DEF ReadToPublish, Read
  <2>2. CASE Claim(p)
    BY <2>2 DEF Claim, Claimable
  <2>3. CASE ClaimFails(p) \/ PostAccepted(p) \/ PostRefused(p) \/ ReplyLost(p)
             \/ StatementFails(p)
    BY <2>3 DEF ClaimFails, PostAccepted, PostRefused, ReplyLost, StatementFails
  <2>4. CASE ReleaseClaim(p)
    BY <2>4 DEF ReleaseClaim, InClaim
  <2>5. CASE MarkPosted(p)
    BY <2>5 DEF MarkPosted, InClaim
  <2> QED
    BY <1>4, <2>1, <2>2, <2>3, <2>4, <2>5 DEF Publish
<1>5. ASSUME NEW p \in Presses, Delete(p)
      PROVE  OfferInv'
  <2>1. CASE \E b \in Batches : ReadToDelete(p, b)
    BY <2>1 DEF ReadToDelete, Read
  <2>2. CASE SoftDelete(p) \/ CleanUp(p)
    BY <2>2 DEF SoftDelete, CleanUp
  <2> QED
    BY <1>5, <2>1, <2>2 DEF Delete
<1>6. CASE Crash \/ UNCHANGED vars
  BY <1>6 DEF Crash, vars
<1> QED
  BY <1>1, <1>2, <1>3, <1>4, <1>5, <1>6 DEF Next

\* The post recorded for a batch offers what its row does, unless the row changed
\* while exchange_broadcast was between its read and its last statement.
THEOREM PostsAreCurrent == Spec => []StaleOnlyIfOvertaken
<1>1. Init => OfferInv
  BY DEF Init, OfferInv
<1>2. TypeOK /\ OfferInv /\ [Next]_vars => OfferInv'
  BY OfferStep
<1>3. OfferInv => StaleOnlyIfOvertaken
  BY DEF OfferInv, StaleOnlyIfOvertaken
<1> QED
  BY <1>1, <1>2, <1>3, ExchangeTypes, PTL DEF Spec
=============================================================================
