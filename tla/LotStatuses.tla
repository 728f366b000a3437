------------------------------ MODULE LotStatuses ------------------------------
(***************************************************************************)
(* The statuses of a lot as the schedule sees them.  AuctionLifecycle has  *)
(* the statements that change a status; SlotScheduling takes them from     *)
(* here, so this module is what the two agree on.                          *)
(***************************************************************************)

\* What the overlap check looks at.  Nothing writes 'approved', which it also names.
Counted == {"scheduled", "publishing", "active"}

\* Where a lot is moved from, without a post and with one.
Unpublished == {"scheduled", "publication_failed", "publication_deferred"}
Published == {"active", "finished", "finalization_failed"}

Statuses == {"pending", "publishing", "finalizing", "cancelled"}
            \cup Unpublished \cup Published

\* The statements that change a status and leave the slot.
After ==
  [pending              |-> {"cancelled"},
   scheduled            |-> {"publishing", "publication_failed", "active", "cancelled"},
   publishing           |-> {"scheduled", "active", "publication_failed",
                             "publication_deferred"},
   publication_failed   |-> {"scheduled", "active", "cancelled"},
   publication_deferred |-> {"scheduled", "active"},
   active               |-> {"finalizing", "finished", "cancelled"},
   finalizing           |-> {"finished", "finalization_failed"},
   finalization_failed  |-> {"active", "cancelled"},
   finished             |-> {"active"},
   cancelled            |-> {}]
===============================================================================
