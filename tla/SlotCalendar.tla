------------------------------ MODULE SlotCalendar ------------------------------
(***************************************************************************)
(* What the schedule promises: a lot is approved into a slot, or moved to  *)
(* another one, in one step that sees every rival in that slot.  Other     *)
(* statements put a lot back into the slot it has and ask nobody.          *)
(***************************************************************************)
EXTENDS LotStatuses

CONSTANTS Lots, Rival, Slots, NoSlot

VARIABLES
  status, start,
  unasked     \* lots put back into their slot by a statement that does not check it

vars == <<status, start, unasked>>

Init ==
  /\ status = [l \in Lots |-> "pending"]
  /\ start = [l \in Lots |-> NoSlot]
  /\ unasked = {}

\* Whoever else is in the slot came back there unasked.
Vacant(l, t) ==
  \A k \in Lots :
    <<k, l>> \in Rival /\ status[k] \in Counted /\ start[k] = t => k \in unasked

Put(l, t, s) ==
  /\ Vacant(l, t)
  /\ status' = [status EXCEPT ![l] = s]
  /\ start' = [start EXCEPT ![l] = t]
  /\ unasked' = unasked \ {l}

Approve(l, t) == status[l] = "pending" /\ Put(l, t, "scheduled")

Transfer(l, t) ==
  /\ start[l] # NoSlot
  /\ \/ status[l] \in Unpublished /\ Put(l, t, "scheduled")
     \/ status[l] \in Published /\ Put(l, t, "active")

Move(l, s) ==
  /\ status' = [status EXCEPT ![l] = s]
  /\ unasked' = IF status[l] \notin Counted /\ s \in Counted
                THEN unasked \cup {l} ELSE unasked
  /\ UNCHANGED start

Next ==
  \/ \E l \in Lots, t \in Slots : Approve(l, t) \/ Transfer(l, t)
  \/ \E l \in Lots : \E s \in After[status[l]] : Move(l, s)

Spec == Init /\ [][Next]_vars
===============================================================================
