---------------------------- MODULE SlotScheduling ----------------------------
(***************************************************************************)
(* The slots of the schedule: moderators approve lots into half-hour slots *)
(* (schedule) and move them to other ones (reschedule) in transactions     *)
(* that lock the calendar days of the slot and the row of the lot, in      *)
(* different orders, while publishers, finalizers and people change the    *)
(* status of the same rows (AuctionLifecycle) and ask nobody for the slot. *)
(***************************************************************************)
EXTENDS Naturals, LotStatuses

CONSTANTS
  Lots,
  Rival,    \* pairs of lots of the same card with an owner in common
  Slots,
  NoSlot,   \* the start_time of a lot that is not scheduled yet
  LastDay,
  DaysOf,   \* the days a slot begins and ends on
  Calls     \* calls of schedule and reschedule that run at once

ASSUME SlotsAssumption ==
  /\ Rival \subseteq Lots \X Lots
  /\ \A k, l \in Lots : <<k, l>> \in Rival => <<l, k>> \in Rival /\ k # l
  /\ NoSlot \notin Slots
  /\ LastDay \in Nat
  /\ DaysOf \in [Slots -> (SUBSET (0..LastDay)) \ {{}}]

VARIABLES
  status, start,  \* columns of auctions
  unasked,        \* lots put back into their slot by a statement that does not check it
  at,             \* the step a call has come to
  kind, lot, slot,
  days            \* the day locks a call holds

rows == <<status, start, unasked>>
arguments == <<kind, lot, slot>>
vars == <<rows, at, arguments, days>>

Init ==
  /\ status = [l \in Lots |-> "pending"]
  /\ start = [l \in Lots |-> NoSlot]
  /\ unasked = {}
  /\ at = [c \in Calls |-> "idle"]
  /\ kind \in [Calls -> {"schedule", "reschedule"}]
  /\ lot \in [Calls -> Lots]
  /\ slot \in [Calls -> Slots]
  /\ days = [c \in Calls |-> {}]

(***************************************************************************)
(* Locks.  A row is held over several steps only by a reschedule; whatever *)
(* else writes it does so in one statement.                                *)
(***************************************************************************)
HoldsRow(c, l) == kind[c] = "reschedule" /\ lot[c] = l /\ at[c] \in {"days", "write"}
RowFree(l) == \A c \in Calls : ~HoldsRow(c, l)

\* Mutant of NeedsRow: the UPDATE of schedule names no status.
NeedsAnyRow(c) ==
  at[c] = IF kind[c] = "reschedule" THEN "row" ELSE "write"

\* The UPDATE of schedule finds no row, and waits for none, unless it sees a lot that
\* can be approved.
NeedsRow(c) ==
  \/ kind[c] = "reschedule" /\ at[c] = "row"
  \/ kind[c] = "schedule" /\ at[c] = "write" /\ status[lot[c]] = "pending"

\* The days of a slot are locked in their order.
NextDay(c, d) ==
  /\ at[c] = "days"
  /\ d \in DaysOf[slot[c]] \ days[c]
  /\ \A e \in DaysOf[slot[c]] \ days[c] : d =< e

Goto(c, step) == at' = [at EXCEPT ![c] = step]

\* Commit or rollback: the locks go with the transaction.
End(c) ==
  /\ Goto(c, "idle")
  /\ days' = [days EXCEPT ![c] = {}]

(***************************************************************************)
(* A call.                                                                 *)
(***************************************************************************)
Call(c, k, l, t, step) ==
  /\ at[c] = "idle"
  /\ Goto(c, step)
  /\ kind' = [kind EXCEPT ![c] = k]
  /\ lot' = [lot EXCEPT ![c] = l]
  /\ slot' = [slot EXCEPT ![c] = t]
  /\ UNCHANGED <<rows, days>>

\* The confirmation under the free slots of an application, however old the message is.
CallSchedule(c, l, t) == Call(c, "schedule", l, t, "days")

\* Only lots of the schedule are offered for moving.
CallReschedule(c, l, t) ==
  /\ start[l] # NoSlot
  /\ Call(c, "reschedule", l, t, "row")

LockRow(c) ==
  /\ at[c] = "row"
  /\ RowFree(lot[c])
  /\ Goto(c, "days")
  /\ UNCHANGED <<rows, arguments, days>>

LockDay(c, d) ==
  /\ NextDay(c, d)
  /\ \A b \in Calls : d \notin days[b]
  /\ days' = [days EXCEPT ![c] = @ \cup {d}]
  /\ UNCHANGED <<rows, at, arguments>>

Occupied(l, t) ==
  \E k \in Lots : <<k, l>> \in Rival /\ status[k] \in Counted /\ start[k] = t

\* Mutant of CheckSlot: a reschedule relies on the lock of its row.
CheckEarly(c) ==
  /\ at[c] = "days"
  /\ kind[c] = "reschedule" \/ days[c] = DaysOf[slot[c]]
  /\ IF Occupied(lot[c], slot[c]) THEN End(c) ELSE Goto(c, "write") /\ UNCHANGED days
  /\ UNCHANGED <<rows, arguments>>

CheckSlot(c) ==
  /\ at[c] = "days"
  /\ days[c] = DaysOf[slot[c]]
  /\ IF Occupied(lot[c], slot[c]) THEN End(c) ELSE Goto(c, "write") /\ UNCHANGED days
  /\ UNCHANGED <<rows, arguments>>

\* The UPDATE and the commit.
Place(c, s) ==
  /\ status' = [status EXCEPT ![lot[c]] = s]
  /\ start' = [start EXCEPT ![lot[c]] = slot[c]]
  /\ unasked' = unasked \ {lot[c]}

WriteScheduled(c) ==
  /\ at[c] = "write" /\ kind[c] = "schedule"
  /\ NeedsRow(c) => RowFree(lot[c])
  /\ IF status[lot[c]] = "pending" THEN Place(c, "scheduled") ELSE UNCHANGED rows
  /\ End(c)
  /\ UNCHANGED arguments

\* A lot with a post is open for bidding again, one without returns to the queue.
WriteRescheduled(c) ==
  /\ at[c] = "write" /\ kind[c] = "reschedule"
  /\ \/ status[lot[c]] \in Unpublished /\ Place(c, "scheduled")
     \/ status[lot[c]] \in Published /\ Place(c, "active")
     \/ status[lot[c]] \notin Unpublished \cup Published /\ UNCHANGED rows
  /\ End(c)
  /\ UNCHANGED arguments

\* The call takes twelve seconds, or its process or connection dies.
Abort(c) ==
  /\ at[c] # "idle"
  /\ End(c)
  /\ UNCHANGED <<rows, arguments>>

(***************************************************************************)
(* Everything else that happens to a lot.                                  *)
(***************************************************************************)
Move(l, s) ==
  /\ s \in After[status[l]]
  /\ RowFree(l)
  /\ status' = [status EXCEPT ![l] = s]
  /\ unasked' = IF status[l] \notin Counted /\ s \in Counted
                THEN unasked \cup {l} ELSE unasked
  /\ UNCHANGED <<start, at, arguments, days>>

Next ==
  \/ \E c \in Calls, l \in Lots, t \in Slots : CallSchedule(c, l, t) \/ CallReschedule(c, l, t)
  \/ \E c \in Calls : \/ LockRow(c) \/ CheckSlot(c)
                      \/ \E d \in 0..LastDay : LockDay(c, d)
                      \/ WriteScheduled(c) \/ WriteRescheduled(c) \/ Abort(c)
  \/ \E l \in Lots, s \in Statuses : Move(l, s)

Spec == Init /\ [][Next]_vars

(***************************************************************************)
(* Properties.                                                             *)
(***************************************************************************)
TypeOK ==
  /\ status \in [Lots -> Statuses]
  /\ start \in [Lots -> Slots \cup {NoSlot}]
  /\ unasked \subseteq Lots
  /\ at \in [Calls -> {"idle", "row", "days", "write"}]
  /\ kind \in [Calls -> {"schedule", "reschedule"}]
  /\ lot \in [Calls -> Lots]
  /\ slot \in [Calls -> Slots]
  /\ days \in [Calls -> SUBSET (0..LastDay)]

\* The day locks close the race between the screen with the free slots and the
\* confirmation (schedule): two lots of one card and owner meet in a slot only when one
\* of them was put back there by a statement that does not ask (requeue, confirmation,
\* repair, restart), and was not moved since.
NoDoubleBooking ==
  \A k, l \in Lots :
    /\ <<k, l>> \in Rival
    /\ status[k] \in Counted /\ status[l] \in Counted
    /\ start[k] = start[l]
    => k \in unasked \/ l \in unasked

\* The locks and the steps between them do not show: whatever calls interleave with each
\* other and with everything else that changes a lot, the calendar is what it would be if
\* each approval and each move asked for its slot and took it at once.
Calendar == INSTANCE SlotCalendar
BookingsAreSerial == Calendar!Spec

Blocks(b, c) ==
  \/ NeedsRow(c) /\ HoldsRow(b, lot[c])
  \/ \E d \in days[b] : NextDay(c, d)

\* schedule locks days and then the row, reschedule the row and then days, and a slot at
\* midnight two days: still no calls wait for each other in a circle.
NoLockCycle ==
  \A S \in (SUBSET Calls) \ {{}} : \E c \in S : \A b \in S : ~Blocks(b, c)
===============================================================================
