-------------------------- MODULE ExchangePublication --------------------------
(***************************************************************************)
(* The exchange: batches of cards that users offer, administrators         *)
(* moderate, edit, publish in the channel and delete                       *)
(* (bot/repositories/exchanges.py, exchange_editor.py and the handlers of  *)
(* bot/handlers/auction/exchange).                                         *)
(*                                                                         *)
(* An administrator's press is a handler that runs in steps: it reads the  *)
(* row, changes it in one or more transactions, and calls Telegram between *)
(* them.  What a batch offers (price, currency, comment, proof) is one     *)
(* value; cards, decks and the notices to users are left out.              *)
(***************************************************************************)
EXTENDS Naturals

CONSTANTS
  Batches,    \* exchange_batches
  Presses,    \* handlers that run at once
  Offers,     \* what a batch may offer
  Redacted,   \* what is left of an offer after its owner's erasure
  Erasable,   \* bound: batches whose owner may be erased
  MaxPosts    \* bound: posts of a batch in the channel

ASSUME ExchangeAssumption ==
  /\ Redacted \notin Offers
  /\ Erasable \subseteq Batches
  /\ MaxPosts \in Nat

VARIABLES
  status,    \* exchange_batches.status, "absent" before the row exists
  offer,     \* price, currency, comment, proof_photo_id
  recorded,  \* posted_chat_id and posted_message_id are set
  overtaken, \* batches that changed after a press had read them to make their post
  expired,   \* publication_started_at is over fifteen minutes old
  sent,      \* posts of the batch Telegram has accepted
  lost,      \* those of them whose reply never came
  shown,     \* what the post offers that was recorded for the batch
  removed,   \* that post has been deleted from the channel
  at,        \* the step a press has come to
  batch,     \* the batch it is about
  read,      \* the offer in the row it read, of which it makes the post
  known      \* the row it read had the ids of a post

content == <<offer, overtaken>>
row == <<status, content, recorded, expired>>
channel == <<sent, lost, shown, removed>>
press == <<at, batch, read, known>>
vars == <<row, channel, press>>

Statuses == {"absent", "pending", "approved", "rejected", "publishing",
             "publication_failed", "published", "deleted"}
Steps == {"idle", "read", "claimed", "refused", "accepted", "deleting",
          "cleaning"}

TypeOK ==
  /\ status \in [Batches -> Statuses]
  /\ offer \in [Batches -> Offers \cup {Redacted}]
  /\ overtaken \subseteq Batches
  /\ recorded \in [Batches -> BOOLEAN]
  /\ expired \in [Batches -> BOOLEAN]
  /\ sent \in [Batches -> Nat] /\ lost \in [Batches -> Nat]
  /\ shown \in [Batches -> Offers \cup {Redacted}]
  /\ removed \in [Batches -> BOOLEAN]
  /\ at \in [Presses -> Steps]
  /\ batch \in [Presses -> Batches]
  /\ read \in [Presses -> Offers \cup {Redacted}]
  /\ known \in [Presses -> BOOLEAN]

Init ==
  /\ status = [b \in Batches |-> "absent"]
  /\ offer \in [Batches -> Offers]
  /\ overtaken = {}
  /\ recorded = [b \in Batches |-> FALSE]
  /\ expired = [b \in Batches |-> FALSE]
  /\ sent = [b \in Batches |-> 0] /\ lost = [b \in Batches |-> 0]
  /\ shown = offer
  /\ removed = [b \in Batches |-> FALSE]
  /\ at = [p \in Presses |-> "idle"]
  /\ batch \in [Presses -> Batches]
  /\ read = [p \in Presses |-> Redacted]
  /\ known = [p \in Presses |-> FALSE]

(***************************************************************************)
(* Submission, moderation, edits and erasure: a statement or a transaction *)
(* each.                                                                   *)
(***************************************************************************)
\* All batches of a submission or none (create_many).
Submit ==
  /\ \E new \in (SUBSET Batches) \ {{}} :
       /\ \A b \in new : status[b] = "absent"
       /\ status' = [b \in Batches |-> IF b \in new THEN "pending" ELSE status[b]]
  /\ UNCHANGED <<content, recorded, expired, channel, press>>

Decisions == {"approved", "rejected"}

Moderate(b) ==
  /\ status[b] = "pending"
  /\ \E target \in Decisions :
       status' = [status EXCEPT ![b] = target]
  /\ UNCHANGED <<content, recorded, expired, channel, press>>

\* The new content of a row, of which a post may already have been made.
Rewrite(b, o) ==
  /\ offer' = [offer EXCEPT ![b] = o]
  /\ overtaken' =
       IF \E p \in Presses : batch[p] = b /\ at[p] \in {"read", "claimed", "accepted"}
         THEN overtaken \cup {b} ELSE overtaken

\* Mutant of Edit: what is not deleted can be edited.
EditAnytime(b) ==
  /\ status[b] \notin {"absent", "deleted"}
  /\ \E o \in Offers : Rewrite(b, o)
  /\ UNCHANGED <<status, recorded, expired, channel, press>>

Edit(b) ==
  /\ status[b] = "approved"
  /\ \E o \in Offers : Rewrite(b, o)
  /\ UNCHANGED <<status, recorded, expired, channel, press>>

\* The erasure of an account: a batch that awaits moderation is a hold, one
\* that is being published is not.
EraseOwner(b) ==
  /\ b \in Erasable /\ status[b] \notin {"absent", "pending"}
  /\ Rewrite(b, Redacted)
  /\ recorded' = [recorded EXCEPT ![b] = FALSE]
  /\ UNCHANGED <<status, expired, channel, press>>

\* ex_appr_delete: the row only.
DeleteFromCatalog(b) ==
  /\ status[b] # "absent"
  /\ status' = [status EXCEPT ![b] = "deleted"]
  /\ UNCHANGED <<content, recorded, expired, channel, press>>

(***************************************************************************)
(* exchange_broadcast.                                                     *)
(***************************************************************************)
Goto(p, step) == at' = [at EXCEPT ![p] = step]

Read(p, b, step) ==
  /\ at[p] = "idle" /\ status[b] # "absent"
  /\ Goto(p, step)
  /\ batch' = [batch EXCEPT ![p] = b]
  /\ read' = [read EXCEPT ![p] = offer[b]]
  /\ known' = [known EXCEPT ![p] = recorded[b]]
  /\ UNCHANGED <<row, channel>>

\* The post is made of the row as it is now.
ReadToPublish(p, b) == Read(p, b, "read")

\* The first statement of claim_for_post.
AfterLease(b) ==
  IF status[b] = "publishing" /\ ~recorded[b] /\ expired[b]
    THEN "publication_failed" ELSE status[b]

\* Mutant of Claimable: an expired claim is free again.
ClaimableOnceExpired(b) ==
  /\ AfterLease(b) \in {"approved", "publication_failed"} /\ ~recorded[b]

Claimable(b) == AfterLease(b) = "approved" /\ ~recorded[b]

Claim(p) ==
  /\ at[p] = "read" /\ Claimable(batch[p])
  /\ status' = [status EXCEPT ![batch[p]] = "publishing"]
  /\ expired' = [expired EXCEPT ![batch[p]] = FALSE]
  /\ Goto(p, "claimed")
  /\ UNCHANGED <<content, recorded, channel, batch, read, known>>

\* The second statement finds nothing and claim_for_post raises: the
\* transaction is rolled back, the expiry of the first one with it.
ClaimFails(p) ==
  /\ at[p] = "read" /\ ~Claimable(batch[p])
  /\ Goto(p, "idle")
  /\ UNCHANGED <<row, channel, batch, read, known>>

PostAccepted(p) ==
  /\ at[p] = "claimed" /\ sent[batch[p]] < MaxPosts
  /\ sent' = [sent EXCEPT ![batch[p]] = @ + 1]
  /\ Goto(p, "accepted")
  /\ UNCHANGED <<row, lost, shown, removed, batch, read, known>>

PostRefused(p) ==
  /\ at[p] = "claimed"
  /\ Goto(p, "refused")
  /\ UNCHANGED <<row, channel, batch, read, known>>

\* The post is in the channel and the call raises a network error.
ReplyLost(p) ==
  /\ at[p] = "claimed" /\ sent[batch[p]] < MaxPosts
  /\ sent' = [sent EXCEPT ![batch[p]] = @ + 1]
  /\ lost' = [lost EXCEPT ![batch[p]] = @ + 1]
  /\ Goto(p, "refused")
  /\ UNCHANGED <<row, shown, removed, batch, read, known>>

InClaim(b) == status[b] = "publishing" /\ ~recorded[b]

ReleaseClaim(p) ==
  LET b == batch[p] IN
  /\ at[p] = "refused"
  /\ IF InClaim(b)
       THEN /\ status' = [status EXCEPT ![b] = "approved"]
            /\ expired' = [expired EXCEPT ![b] = FALSE]
       ELSE UNCHANGED <<status, expired>>
  /\ Goto(p, "idle")
  /\ UNCHANGED <<content, recorded, channel, batch, read, known>>

MarkPosted(p) ==
  LET b == batch[p] IN
  /\ at[p] = "accepted"
  /\ IF InClaim(b)
       THEN /\ status' = [status EXCEPT ![b] = "published"]
            /\ recorded' = [recorded EXCEPT ![b] = TRUE]
            /\ shown' = [shown EXCEPT ![b] = read[p]]
       ELSE UNCHANGED <<status, recorded, shown>>
  /\ Goto(p, "idle")
  /\ UNCHANGED <<content, expired, sent, lost, removed, batch, read, known>>

\* Mutant of StatementFails: the batch is given back for another try.
StatementFailsReleased(p) ==
  /\ at[p] \in {"refused", "accepted"}
  /\ status' = [status EXCEPT ![batch[p]] =
                  IF InClaim(batch[p]) THEN "approved" ELSE @]
  /\ Goto(p, "idle")
  /\ UNCHANGED <<content, recorded, expired, channel, batch, read, known>>

\* Releasing or recording raises: the administrator is told, and that is all.
StatementFails(p) ==
  /\ at[p] \in {"refused", "accepted"}
  /\ Goto(p, "idle")
  /\ UNCHANGED <<row, channel, batch, read, known>>

(***************************************************************************)
(* exchange_delete_yes.                                                    *)
(***************************************************************************)
ReadToDelete(p, b) == Read(p, b, "deleting")

SoftDelete(p) ==
  /\ at[p] = "deleting"
  /\ status' = [status EXCEPT ![batch[p]] = "deleted"]
  /\ Goto(p, "cleaning")
  /\ UNCHANGED <<content, recorded, expired, channel, batch, read, known>>

\* The post whose ids the row had when it was read; a failure is swallowed.
CleanUp(p) ==
  /\ at[p] = "cleaning"
  /\ \/ known[p] /\ removed' = [removed EXCEPT ![batch[p]] = TRUE]
     \/ UNCHANGED removed
  /\ Goto(p, "idle")
  /\ UNCHANGED <<row, sent, lost, shown, batch, read, known>>

(***************************************************************************)
(* The environment.                                                        *)
(***************************************************************************)
LeasePasses(b) ==
  /\ status[b] = "publishing" /\ ~expired[b]
  /\ expired' = [expired EXCEPT ![b] = TRUE]
  /\ UNCHANGED <<status, content, recorded, channel, press>>

\* The bot stops, with every press it was handling.
Crash ==
  /\ \E p \in Presses : at[p] # "idle"
  /\ at' = [p \in Presses |-> "idle"]
  /\ UNCHANGED <<row, channel, batch, read, known>>

Publish(p) ==
  \/ \E b \in Batches : ReadToPublish(p, b)
  \/ Claim(p) \/ ClaimFails(p)
  \/ PostAccepted(p) \/ PostRefused(p) \/ ReplyLost(p)
  \/ ReleaseClaim(p) \/ MarkPosted(p) \/ StatementFails(p)

Delete(p) ==
  \/ \E b \in Batches : ReadToDelete(p, b)
  \/ SoftDelete(p) \/ CleanUp(p)

Next ==
  \/ Submit
  \/ \E b \in Batches :
       \/ Moderate(b) \/ Edit(b) \/ EraseOwner(b) \/ DeleteFromCatalog(b)
       \/ LeasePasses(b)
  \/ \E p \in Presses : Publish(p) \/ Delete(p)
  \/ Crash

Spec == Init /\ [][Next]_vars

(***************************************************************************)
(* Properties.                                                             *)
(***************************************************************************)
\* A batch that can still be published has no post in the channel, and no
\* batch has two, but for posts whose reply was lost: whatever presses meet,
\* crash or fail in between (claim_for_post, release_post_claim, mark_posted).
RepostOnlyByLostReply ==
  \A b \in Batches :
    /\ sent[b] =< lost[b] + 1
    /\ status[b] \in {"pending", "approved", "rejected"} => sent[b] = lost[b]

\* The steps at which a press holds a claim.
Holding == {"claimed", "refused", "accepted"}
Hung(b) ==
  /\ status[b] = "publishing"
  /\ \A p \in Presses : at[p] \in Holding => batch[p] # b

\* A claim nobody holds any more, of a press that crashed or could not write
\* its outcome, is never taken up again, however long ago it was made and
\* whatever other presses do (REFACTORING_PHASE_4.md:71); a batch leaves it by
\* being deleted.
HungClaimStays ==
  [][\A b \in Batches : Hung(b) => Hung(b)' \/ status'[b] = "deleted"]_vars

\* The post recorded for a batch offers what its row does: the editor touches no
\* batch whose publication has started
\* (test_repository_blocks_edits_after_publication_starts).  The one exception is
\* an edit or an erasure after exchange_broadcast has read the row and before
\* the claim, or an erasure before the outcome is written.
StaleOnlyIfOvertaken ==
  \A b \in Batches :
    status[b] = "published" /\ recorded[b] /\ shown[b] # offer[b] => b \in overtaken
=============================================================================
